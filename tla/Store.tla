-------------------------------- MODULE Store --------------------------------
(***************************************************************************)
(* What backend/app/repository.py promises its callers: every function     *)
(* that writes is one atomic change of the database, or none.  SharedConn  *)
(* is how one sqlite connection, a lock and commit() deliver it.           *)
(***************************************************************************)
EXTENDS Tables

CONSTANTS
    PortLists,    \* port lists collectors deliver
    CounterLists  \* counter lists derived from them

ASSUME StoreAssumption ==
    /\ PortLists \subseteq Seq(PortRow)
    /\ CounterLists \subseteq Seq(CounterRow)

VARIABLE db

Init == db = EmptyDatabase

create_switch(ip, method, name) ==
    /\ CanInsertSwitch(db, ip)
    /\ db' = InsertSwitch(db, ip, method, name)

update_switch(s, ip, method, name) ==
    /\ ip = NULL \/ IpFree(db, s, ip)
    /\ db' = UpdateSwitch(db, s, ip, method, name)

delete_switch(s) == db' = DeleteSwitch(db, s)

set_switch_status(s, status, name) == db' = UpdateStatus(db, s, status, name)

\* The whole port list of the switch gives way to the new one.
replace_ports(s, list) ==
    /\ Exists(db, s) /\ DistinctNames(list)
    /\ db' = [db EXCEPT !.ports[s] = ToSet(list)]

add_sample(s, x) ==
    /\ Exists(db, s)
    /\ db' = TrimSamples(InsertSample(db, s, x), s)

upsert_port_counters(s, list) ==
    /\ Exists(db, s) /\ DistinctNames(list)
    /\ db' = [db EXCEPT !.counters[s] = UpsertRows(@, ToSet(list))]

Next ==
    \/ \E ip \in Ip, method \in Method, name \in Name \cup {NULL} :
           create_switch(ip, method, name)
    \/ \E s \in SwitchId :
        \/ \E ip \in Ip \cup {NULL}, method \in Method \cup {NULL}, name \in Name \cup {NULL} :
               update_switch(s, ip, method, name)
        \/ delete_switch(s)
        \/ \E status \in Status, name \in Name \cup {NULL} :
               set_switch_status(s, status, name)
        \/ \E list \in PortLists : replace_ports(s, list)
        \/ \E x \in Summary : add_sample(s, x)
        \/ \E list \in CounterLists : upsert_port_counters(s, list)

Spec == Init /\ [][Next]_db

-----------------------------------------------------------------------------

TypeOK == db \in Database

\* The schema's constraints hold after any sequence of repository calls: a
\* cascade, a unique key or the retention trim that misses a row breaks it.
SchemaHolds == Consistent(db)

\* An id is never given twice: sqlite_sequence never goes back, and an id it
\* has passed gets no row again.  With SequenceAhead (every row is within it)
\* a deleted switch's id stays unused, so what a poll in flight still writes
\* under it cannot turn up under another switch (AUTOINCREMENT, db.py).
IdsNeverReused ==
    [][/\ db'.sqlite_sequence >= db.sqlite_sequence
       /\ \A s \in SwitchId :
              s <= db.sqlite_sequence /\ ~Exists(db, s) => ~Exists(db, s)']_db
=============================================================================
