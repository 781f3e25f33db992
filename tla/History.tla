------------------------------- MODULE History -------------------------------
(***************************************************************************)
(* The figures users see: summaries of port lists and their roll-ups       *)
(* (backend/app/stats.py, api_summary in backend/app/main.py) and the      *)
(* global trend (get_global_history in backend/app/repository.py), as      *)
(* polls, administration and the clock change what they are computed from. *)
(*                                                                         *)
(* A poll is one step: Poller is about polls that overlap.  A port is its  *)
(* class of operational_status.  Utilisation is left out.                  *)
(***************************************************************************)
EXTENDS Integers, FiniteSets, Functions, Sequences, SequencesExt

CONSTANTS
    SwitchId,     \* switches; an id is given once (Store)
    Dc,           \* data centres
    PortLists,    \* port lists collected, sequences of Port
    Retention,    \* SAMPLE_RETENTION
    Limits,       \* how many buckets callers ask for (unvalidated, main.py:190)
    MaxMinute,    \* bound: how long the clock runs
    NoSwitch

Port == {"online", "faulty", "no_module"}
ONLINE_STATES == {"online"}
ERROR_STATES  == {"faulty"}

ASSUME HistoryAssumption ==
    /\ PortLists \subseteq Seq(Port)
    /\ Retention \in Int
    /\ Limits \subseteq Int
    /\ MaxMinute \in Nat
    /\ NoSwitch \notin Dc

VARIABLES
    dc,        \* the switches, by id: their data centre
    ports,     \* the port list of each
    samples,   \* the rows of samples in the order of their ids
    minute,    \* datetime('now') to the minute
    shown      \* history variable: the last list polled of a switch in a minute, until a
               \* poll or a deletion leaves no sample of that

vars == <<dc, ports, samples, minute, shown>>

Switches == {s \in SwitchId : dc[s] # NoSwitch}

-----------------------------------------------------------------------------
(* stats.py *)

\* Mutant: an error port also counts as free.
ErrorIsFree(list) ==
    LET count(states) == Cardinality({i \in DOMAIN list : list[i] \in states})
    IN  [total |-> Len(list), used |-> count(ONLINE_STATES), error |-> count(ERROR_STATES),
         free |-> count(Port \ ONLINE_STATES)]

summarize_ports(list) ==
    LET count(states) == Cardinality({i \in DOMAIN list : list[i] \in states})
    IN  [total |-> Len(list), used |-> count(ONLINE_STATES), error |-> count(ERROR_STATES),
         free |-> count(Port \ (ONLINE_STATES \cup ERROR_STATES))]

\* of[s] for s in S: the summaries merged.
merge_summaries(of, S) ==
    [total |-> SumFunction([s \in S |-> of[s].total]),
     used  |-> SumFunction([s \in S |-> of[s].used]),
     error |-> SumFunction([s \in S |-> of[s].error]),
     free  |-> SumFunction([s \in S |-> of[s].free])]

\* round(used / total * 100, 1), in tenths of a per cent (totals below 16, where
\* no quotient lies half way).
occupancy_pct(x) == IF x.total = 0 THEN 0
                    ELSE (2000 * x.used + x.total) \div (2 * x.total)

\* api_summary(): its "global", and its "datacenters" by name.
Live == [s \in Switches |-> summarize_ports(ports[s])]
api_summary ==
    [global |-> merge_summaries(Live, Switches),
     datacenters |-> [d \in {dc[s] : s \in Switches} |->
                          merge_summaries(Live, {s \in Switches : dc[s] = d})]]

-----------------------------------------------------------------------------
(* repository.py *)

\* The n-th of a set of numbers, and the rows at the places in a set, in their order.
Nth(S, n) == CHOOSE x \in S : Cardinality({y \in S : y <= x}) = n
RowsAt(rows, places) == [n \in 1 .. Cardinality(places) |-> rows[Nth(places, n)]]

\* The minutes of a history (LIMIT -1 is no limit), and a bucket of it from the samples at
\* given places.
Minutes(limit) == LET buckets == {x.minute : x \in Range(samples)}
                 IN  {m \in buckets : limit < 0 \/ Cardinality({n \in buckets : n > m}) < limit}
Bucket(m, places) == [ts |-> m,
                      used  |-> SumFunction([i \in places |-> samples[i].used]),
                      total |-> SumFunction([i \in places |-> samples[i].total])]

\* Mutant: ROW_NUMBER() is forgotten, every sample of the minute counts.
get_global_history_inflated(limit) ==
    [n \in 1 .. Cardinality(Minutes(limit)) |->
        LET m == Nth(Minutes(limit), n)
        IN  Bucket(m, {i \in DOMAIN samples : samples[i].minute = m})]

\* Mutant: ORDER BY id ASC, rn = 1 is the first sample of the minute.
Oldest(i) == ~ \E j \in DOMAIN samples : /\ j < i
                                         /\ samples[j].s = samples[i].s
                                         /\ samples[j].minute = samples[i].minute

\* rn = 1: no later sample of the switch in the minute.
Newest(i) == ~ \E j \in DOMAIN samples : /\ j > i
                                         /\ samples[j].s = samples[i].s
                                         /\ samples[j].minute = samples[i].minute

\* The newest `limit` minutes that have samples, oldest first.
get_global_history(limit) ==
    [n \in 1 .. Cardinality(Minutes(limit)) |->
        LET m == Nth(Minutes(limit), n)
        IN  Bucket(m, {i \in DOMAIN samples : samples[i].minute = m /\ Newest(i)})]

\* Mutant: two values of the INSERT are swapped.
add_sample_swapped(s, summary) ==
    samples' = Append(samples, [s |-> summary.total, minute |-> minute, used |-> summary.used,
                                total |-> s])

\* INSERT, then delete all but the newest Retention samples of the switch: none of them if
\* it is negative (LIMIT -1).
add_sample(s, summary) ==
    LET rows == Append(samples, [s |-> s, minute |-> minute, used |-> summary.used,
                                 total |-> summary.total])
        Surplus(i) == /\ rows[i].s = s /\ Retention >= 0
                      /\ Cardinality({j \in DOMAIN rows : j > i /\ rows[j].s = s}) >= Retention
    IN  samples' = RowsAt(rows, {i \in DOMAIN rows : ~Surplus(i)})

-----------------------------------------------------------------------------

Init ==
    /\ dc = [s \in SwitchId |-> NoSwitch]
    /\ ports = [s \in SwitchId |-> <<>>]
    /\ samples = <<>>
    /\ minute = 0
    /\ shown = [m \in 0 .. MaxMinute |-> [s \in SwitchId |-> NoSwitch]]

\* create_switch(), and update_switch() of the data centre.
SetDc(s) == \E d \in Dc : /\ dc' = [dc EXCEPT ![s] = d]
                          /\ UNCHANGED <<ports, samples, minute, shown>>

\* The samples go with the switch (ON DELETE CASCADE).
delete_switch(s) ==
    /\ dc[s] # NoSwitch
    /\ dc' = [dc EXCEPT ![s] = NoSwitch]
    /\ ports' = [ports EXCEPT ![s] = <<>>]
    /\ samples' = RowsAt(samples, {i \in DOMAIN samples : samples[i].s # s})
    /\ shown' = [m \in DOMAIN shown |-> [shown[m] EXCEPT ![s] = NoSwitch]]
    /\ UNCHANGED minute

\* A poll that reaches the switch; one that does not changes nothing here.
Polled(s, list) ==
    /\ dc[s] # NoSwitch
    /\ ports' = [ports EXCEPT ![s] = list]
    /\ add_sample(s, summarize_ports(list))
    /\ shown' = [m \in DOMAIN shown |->
                    [t \in SwitchId |->
                        IF m = minute /\ t = s THEN list
                        ELSE IF \E x \in Range(samples') : x.s = t /\ x.minute = m
                        THEN shown[m][t]
                        ELSE NoSwitch]]
    /\ UNCHANGED <<dc, minute>>

Poll(s) == \E list \in PortLists : Polled(s, list)

Tick == /\ minute < MaxMinute
        /\ minute' = minute + 1
        /\ UNCHANGED <<dc, ports, samples, shown>>

Next == \/ \E s \in SwitchId : SetDc(s) \/ delete_switch(s) \/ Poll(s)
        \/ Tick

Spec == Init /\ [][Next]_vars

-----------------------------------------------------------------------------
(* Properties. *)

Sample == [s : SwitchId, minute : 0 .. MaxMinute, used : Nat, total : Nat]

TypeOK ==
    /\ dc \in [SwitchId -> Dc \cup {NoSwitch}]
    /\ ports \in [SwitchId -> PortLists \cup {<<>>}]
    /\ samples \in Seq(Sample)
    /\ minute \in 0 .. MaxMinute

\* The summary of the ports of the switches in S, counted one by one.
Counted(S) ==
    LET all == UNION {{s} \X DOMAIN ports[s] : s \in S}
        count(states) == Cardinality({p \in all : ports[p[1]][p[2]] \in states})
    IN  [total |-> Cardinality(all), used |-> count(ONLINE_STATES), error |-> count(ERROR_STATES),
         free |-> count(Port \ (ONLINE_STATES \cup ERROR_STATES))]

\* However switches are spread over data centres, every port is counted once,
\* and as one of used, free and error; an occupancy is a percentage, and one of 100 means
\* that less than a tenth of a per cent is left, not that nothing is.
RollupsCountOnce ==
    /\ api_summary.global = Counted(Switches)
    /\ \A d \in DOMAIN api_summary.datacenters :
           api_summary.datacenters[d] = Counted({s \in Switches : dc[s] = d})
    /\ LET g == api_summary.global
       IN  /\ g.total = g.used + g.free + g.error
           /\ occupancy_pct(g) \in 0 .. 1000
           /\ occupancy_pct(g) = 1000 => 2000 * (g.total - g.used) <= g.total

\* get_global_history, "only the newest sample of a switch in a minute": a
\* bucket is the merged state of the switches polled in that minute as the
\* last of these polls found them, whatever was trimmed or deleted since, and
\* the buckets come in order, the newest included (unless none is asked for).
BucketsNotInflated == \A limit \in Limits :
    LET history == get_global_history(limit)
        polled(m) == {x.s : x \in {y \in Range(samples) : y.minute = m}}
        state(m)  == merge_summaries([s \in polled(m) |-> summarize_ports(shown[m][s])], polled(m))
    IN  /\ \A i \in DOMAIN history : /\ history[i].total = state(history[i].ts).total
                                     /\ history[i].used = state(history[i].ts).used
        /\ \A i, j \in DOMAIN history : i < j => history[i].ts < history[j].ts
        /\ samples # <<>> /\ limit # 0 => history[Len(history)].ts = Last(samples).minute

\* test_history_endpoint_no_inflation: the newest bucket is the live total, if
\* the minute is one in which every switch that has ports was polled.
NewestBucketIsLive == \A limit \in Limits \ {0} :
    LET history == get_global_history(limit)
        newest  == {x.s : x \in {y \in Range(samples) : y.minute = Last(samples).minute}}
    IN  samples # <<>> /\ {s \in Switches : ports[s] # <<>>} \subseteq newest =>
            /\ history[Len(history)].total = api_summary.global.total
            /\ history[Len(history)].used = api_summary.global.used
=============================================================================
