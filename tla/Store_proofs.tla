---------------------------- MODULE Store_proofs ----------------------------
(* Theorems about Store, for every value of the constants.                 *)
EXTENDS Store, SequenceTheorems, TLAPS

\* The retention trim keeps a sequence of the same elements, no longer than
\* the limit when there is one (DELETE ... NOT IN (... LIMIT ?), add_sample).
LEMMA NewestProperties ==
    ASSUME NEW T, NEW q \in Seq(T), NEW n \in Int
    PROVE  /\ Newest(q, n) \in Seq(T)
           /\ n >= 0 => Len(Newest(q, n)) <= n
<1>1. CASE n < 0 \/ Len(q) <= n
  BY <1>1 DEF Newest
<1>2. CASE ~(n < 0 \/ Len(q) <= n)
  <2>1. Newest(q, n) = SubSeq(q, Len(q) - n + 1, Len(q))
    BY <1>2 DEF Newest
  <2>2. /\ Len(q) - n + 1 \in 1 .. Len(q) + 1
        /\ Len(q) \in Len(q) - n + 1 - 1 .. Len(q)
    BY <1>2
  <2>3. SubSeq(q, Len(q) - n + 1, Len(q)) \in Seq(T)
    BY <2>2
  <2>4. Len(SubSeq(q, Len(q) - n + 1, Len(q))) = n
    BY <1>2, <2>2
  <2> QED BY <2>1, <2>3, <2>4, <1>2
<1> QED BY <1>1, <1>2

\* The rows of a list of rows are rows.
LEMMA ListRows ==
    ASSUME NEW T, NEW list \in Seq(T)
    PROVE  ToSet(list) \subseteq T
BY DEF ToSet

\* TypeOK is invariant: the columns keep their domains, sqlite_sequence and
\* the histories included.
THEOREM StoreType == Spec => []TypeOK
<1>1. Init => TypeOK
  <2>1. <<>> \in Seq(Summary)
    OBVIOUS
  <2> QED BY <2>1 DEF Init, TypeOK, EmptyDatabase, Database
<1>2. TypeOK /\ [Next]_db => TypeOK'
  <2> SUFFICES ASSUME db \in Database, [Next]_db
               PROVE  db' \in Database
    BY DEF TypeOK
  <2>1. ASSUME NEW ip \in Ip, NEW method \in Method, NEW name \in Name \cup {NULL},
               create_switch(ip, method, name)
        PROVE  db' \in Database
    BY <2>1, TablesAssumption
       DEF create_switch, CanInsertSwitch, InsertSwitch, NextId, Database, SwitchRow, Status
  <2>2. ASSUME NEW s \in SwitchId, NEW ip \in Ip \cup {NULL},
               NEW method \in Method \cup {NULL}, NEW name \in Name \cup {NULL},
               update_switch(s, ip, method, name)
        PROVE  db' \in Database
    BY <2>2 DEF update_switch, UpdateSwitch, Exists, Coalesce, Database, SwitchRow
  <2>3. ASSUME NEW s \in SwitchId, delete_switch(s)
        PROVE  db' \in Database
    <3>1. <<>> \in Seq(Summary)
      OBVIOUS
    <3> QED BY <2>3, <3>1 DEF delete_switch, DeleteSwitch, Database
  <2>4. ASSUME NEW s \in SwitchId, NEW status \in Status, NEW name \in Name \cup {NULL},
               set_switch_status(s, status, name)
        PROVE  db' \in Database
    BY <2>4 DEF set_switch_status, UpdateStatus, Exists, Coalesce, Database, SwitchRow
  <2>5. ASSUME NEW s \in SwitchId, NEW list \in PortLists, replace_ports(s, list)
        PROVE  db' \in Database
    <3>1. ToSet(list) \subseteq PortRow
      BY ListRows, StoreAssumption
    <3> QED BY <2>5, <3>1 DEF replace_ports, Database
  <2>6. ASSUME NEW s \in SwitchId, NEW x \in Summary, add_sample(s, x)
        PROVE  db' \in Database
    <3>0. Append(db.samples[s], x) \in Seq(Summary)
      BY DEF Database
    <3>1. Newest(Append(db.samples[s], x), Retention) \in Seq(Summary)
      BY <3>0, NewestProperties, TablesAssumption
    <3> QED BY <2>6, <3>1 DEF add_sample, TrimSamples, InsertSample, Database
  <2>7. ASSUME NEW s \in SwitchId, NEW list \in CounterLists, upsert_port_counters(s, list)
        PROVE  db' \in Database
    <3>1. ToSet(list) \subseteq CounterRow
      BY ListRows, StoreAssumption
    <3> QED BY <2>7, <3>1 DEF upsert_port_counters, UpsertRows, Database
  <2> QED BY <2>1, <2>2, <2>3, <2>4, <2>5, <2>6, <2>7 DEF Next
<1> QED BY <1>1, <1>2, PTL DEF Spec

\* A row that changes in place, to an address no other row has, leaves the
\* schema's constraints in place.
LEMMA RowChangeConsistent ==
    ASSUME TypeOK, SchemaHolds,
           NEW s \in SwitchId, Exists(db, s),
           NEW rw \in SwitchRow, IpFree(db, s, rw.ip),
           db' = [db EXCEPT !.switches[s] = rw]
    PROVE  SchemaHolds'
<1> USE TablesAssumption DEF TypeOK, SchemaHolds
<1>1. /\ db'.switches = [db.switches EXCEPT ![s] = rw]
      /\ db'.ports = db.ports
      /\ db'.samples = db.samples
      /\ db'.counters = db.counters
      /\ db'.sqlite_sequence = db.sqlite_sequence
  BY DEF Database
<1>2. \A r \in SwitchId : db'.switches[r] = IF r = s THEN rw ELSE db.switches[r]
  BY <1>1 DEF Database
<1>3. \A r \in SwitchId : Exists(db, r)' <=> Exists(db, r)
  BY <1>2 DEF Exists
<1>4. ReferentialIntegrity(db)'
  BY <1>1, <1>3 DEF Consistent, ReferentialIntegrity
<1>5. SequenceAhead(db)'
  BY <1>1, <1>3 DEF Consistent, SequenceAhead
<1>6. Retained(db)'
  BY <1>1 DEF Consistent, Retained
<1>7. \A r \in SwitchId : Exists(db, r)' => IpFree(db, r, db.switches[r].ip)'
  BY <1>2, <1>3 DEF Consistent, UniqueKeys, IpFree
<1>8. UniqueKeys(db)'
  BY <1>1, <1>7 DEF Consistent, UniqueKeys
<1> QED BY <1>4, <1>5, <1>6, <1>8 DEF Consistent

\* A call that adds or changes one switch row leaves the schema's constraints
\* in place: AUTOINCREMENT gives an id no row has, UNIQUE(ip) is checked.
LEMMA SwitchRowsConsistent ==
    ASSUME TypeOK, TypeOK', SchemaHolds,
           \/ \E ip \in Ip, method \in Method, name \in Name \cup {NULL} :
                  create_switch(ip, method, name)
           \/ \E s \in SwitchId, ip \in Ip \cup {NULL}, method \in Method \cup {NULL},
                 name \in Name \cup {NULL} : update_switch(s, ip, method, name)
           \/ \E s \in SwitchId, status \in Status, name \in Name \cup {NULL} :
                  set_switch_status(s, status, name)
    PROVE  SchemaHolds'
<1> USE TablesAssumption DEF TypeOK, SchemaHolds, Exists
<1>1. CASE \E ip \in Ip, method \in Method, name \in Name \cup {NULL} :
               create_switch(ip, method, name)
  <2> PICK ip \in Ip, method \in Method, name \in Name \cup {NULL} :
               create_switch(ip, method, name)
    BY <1>1
  <2> DEFINE n  == NextId(db)
             rw == [ip |-> ip, method |-> method, name |-> name, status |-> "unknown"]
  <2>1. /\ n \in SwitchId /\ n \in Nat /\ n = db.sqlite_sequence + 1
        /\ rw \in SwitchRow /\ rw # NoSwitch /\ rw.ip = ip
        /\ IpFree(db, n, ip)
    BY DEF create_switch, CanInsertSwitch, NextId, Database, SwitchRow, Status
  <2> HIDE DEF n, rw
  <2>2. /\ db'.switches = [db.switches EXCEPT ![n] = rw]
        /\ db'.ports = db.ports
        /\ db'.samples = db.samples
        /\ db'.counters = db.counters
        /\ db'.sqlite_sequence = n
    BY DEF create_switch, InsertSwitch, Database, n, rw
  <2>3. \A s \in SwitchId : db'.switches[s] = IF s = n THEN rw ELSE db.switches[s]
    BY <2>1, <2>2 DEF Database
  <2>4. ~Exists(db, n)
    BY <2>1 DEF Consistent, SequenceAhead, Database
  <2>5. ReferentialIntegrity(db)'
    BY <2>1, <2>2, <2>3, <2>4 DEF Consistent, ReferentialIntegrity
  <2>6. UniqueKeys(db)'
    <3>1. \A s \in SwitchId : Exists(db, s)' => IpFree(db, s, db.switches[s].ip)'
      BY <2>1, <2>2, <2>3 DEF Consistent, UniqueKeys, IpFree, Database, SwitchRow
    <3> QED BY <3>1, <2>2 DEF Consistent, UniqueKeys
  <2>7. SequenceAhead(db)'
    BY <2>1, <2>2, <2>3 DEF Consistent, SequenceAhead, Database
  <2>8. Retained(db)'
    BY <2>2 DEF Consistent, Retained
  <2> QED BY <2>5, <2>6, <2>7, <2>8 DEF Consistent
<1>2. CASE \E s \in SwitchId, ip \in Ip \cup {NULL}, method \in Method \cup {NULL},
              name \in Name \cup {NULL} : update_switch(s, ip, method, name)
  <2> PICK s \in SwitchId, ip \in Ip \cup {NULL}, method \in Method \cup {NULL},
           name \in Name \cup {NULL} : update_switch(s, ip, method, name)
    BY <1>2
  <2>1. CASE ~Exists(db, s)
    <3>1. db' = db
      BY <2>1 DEF update_switch, UpdateSwitch
    <3> QED BY <3>1
  <2>2. CASE Exists(db, s)
    <3> DEFINE rw == [ip     |-> Coalesce(ip, db.switches[s].ip),
                      method |-> Coalesce(method, db.switches[s].method),
                      name   |-> Coalesce(name, db.switches[s].name),
                      status |-> db.switches[s].status]
    <3>0. db.switches[s] \in SwitchRow
      BY <2>2 DEF Database
    <3>1. rw \in SwitchRow /\ rw # NoSwitch
      <4>1. rw \in SwitchRow
        BY <3>0 DEF SwitchRow, Coalesce
      <4>2. NoSwitch \notin SwitchRow
        OBVIOUS
      <4> QED BY <4>1, <4>2
    <3>2. rw.ip = IF ip = NULL THEN db.switches[s].ip ELSE ip
      BY DEF Coalesce
    <3>3. IpFree(db, s, rw.ip)
      BY <2>2, <3>2 DEF update_switch, Consistent, UniqueKeys
    <3>4. db' = [db EXCEPT !.switches[s] = rw]
      BY <2>2 DEF update_switch, UpdateSwitch
    <3> HIDE DEF rw
    <3> QED BY <2>2, <3>0, <3>1, <3>3, <3>4, RowChangeConsistent
  <2> QED BY <2>1, <2>2
<1>3. CASE \E s \in SwitchId, status \in Status, name \in Name \cup {NULL} :
               set_switch_status(s, status, name)
  <2> PICK s \in SwitchId, status \in Status, name \in Name \cup {NULL} :
               set_switch_status(s, status, name)
    BY <1>3
  <2>1. CASE ~Exists(db, s)
    <3>1. db' = db
      BY <2>1 DEF set_switch_status, UpdateStatus
    <3> QED BY <3>1
  <2>2. CASE Exists(db, s)
    <3> DEFINE rw == [ip |-> db.switches[s].ip, method |-> db.switches[s].method,
                      name |-> Coalesce(name, db.switches[s].name), status |-> status]
    <3>0. db.switches[s] \in SwitchRow
      BY <2>2 DEF Database
    <3>1. rw \in SwitchRow /\ rw # NoSwitch
      <4>1. rw \in SwitchRow
        BY <3>0 DEF SwitchRow, Coalesce
      <4>2. NoSwitch \notin SwitchRow
        OBVIOUS
      <4> QED BY <4>1, <4>2
    <3>2. rw.ip = db.switches[s].ip
      OBVIOUS
    <3>3. IpFree(db, s, rw.ip)
      BY <2>2, <3>2 DEF Consistent, UniqueKeys
    <3>4. db' = [db EXCEPT !.switches[s] = rw]
      BY <2>2 DEF set_switch_status, UpdateStatus
    <3> HIDE DEF rw
    <3> QED BY <2>2, <3>0, <3>1, <3>3, <3>4, RowChangeConsistent
  <2> QED BY <2>1, <2>2
<1> QED BY <1>1, <1>2, <1>3

\* Deleting a switch leaves the constraints in place: ON DELETE CASCADE.
LEMMA DeleteConsistent ==
    ASSUME TypeOK, SchemaHolds, NEW s \in SwitchId, delete_switch(s)
    PROVE  SchemaHolds'
<1> USE TablesAssumption DEF TypeOK, SchemaHolds
<1>1. /\ db'.switches = [db.switches EXCEPT ![s] = NoSwitch]
      /\ db'.ports = [db.ports EXCEPT ![s] = {}]
      /\ db'.samples = [db.samples EXCEPT ![s] = <<>>]
      /\ db'.counters = [db.counters EXCEPT ![s] = {}]
      /\ db'.sqlite_sequence = db.sqlite_sequence
  BY DEF delete_switch, DeleteSwitch, Database
<1>2. \A r \in SwitchId :
          /\ db'.switches[r] = IF r = s THEN NoSwitch ELSE db.switches[r]
          /\ db'.ports[r] = IF r = s THEN {} ELSE db.ports[r]
          /\ db'.samples[r] = IF r = s THEN <<>> ELSE db.samples[r]
          /\ db'.counters[r] = IF r = s THEN {} ELSE db.counters[r]
  BY <1>1 DEF Database
<1>3. ReferentialIntegrity(db)'
  BY <1>2 DEF Consistent, ReferentialIntegrity, Exists
<1>4. UniqueKeys(db)'
  <2>1. \A r \in SwitchId : Exists(db, r)' => IpFree(db, r, db.switches[r].ip)'
    BY <1>2 DEF Consistent, UniqueKeys, IpFree, Exists
  <2>2. /\ \A r \in SwitchId : \A p, q \in db'.ports[r] : p.name = q.name => p = q
        /\ \A r \in SwitchId : \A p, q \in db'.counters[r] : p.name = q.name => p = q
    BY <1>2 DEF Consistent, UniqueKeys
  <2> QED BY <2>1, <2>2 DEF UniqueKeys
<1>5. SequenceAhead(db)'
  BY <1>1, <1>2 DEF Consistent, SequenceAhead, Exists
<1>6. Retained(db)'
  <2>1. Len(<<>>) = 0
    OBVIOUS
  <2> QED BY <1>2, <2>1 DEF Consistent, Retained
<1> QED BY <1>3, <1>4, <1>5, <1>6 DEF Consistent

\* The rows of a list that names no port twice have distinct names.
LEMMA DistinctRows ==
    ASSUME NEW T, NEW list \in Seq(T), DistinctNames(list)
    PROVE  \A p, q \in ToSet(list) : p.name = q.name => p = q
BY DEF DistinctNames, ToSet

\* Replacing a port list leaves the constraints in place: the old rows go
\* first, so UNIQUE(switch_id, name) concerns the new list alone.
LEMMA ReplacePortsConsistent ==
    ASSUME TypeOK, SchemaHolds, NEW s \in SwitchId, NEW list \in PortLists,
           replace_ports(s, list)
    PROVE  SchemaHolds'
<1> USE TablesAssumption DEF TypeOK, SchemaHolds
<1>1. /\ db'.switches = db.switches
      /\ db'.ports = [db.ports EXCEPT ![s] = ToSet(list)]
      /\ db'.samples = db.samples
      /\ db'.counters = db.counters
      /\ db'.sqlite_sequence = db.sqlite_sequence
  BY DEF replace_ports, Database
<1>2. \A r \in SwitchId : db'.ports[r] = IF r = s THEN ToSet(list) ELSE db.ports[r]
  BY <1>1 DEF Database
<1>3. ReferentialIntegrity(db)'
  BY <1>1, <1>2 DEF replace_ports, Consistent, ReferentialIntegrity, Exists
<1>4. UniqueKeys(db)'
  <2>1. \A r \in SwitchId : Exists(db, r)' => IpFree(db, r, db.switches[r].ip)'
    BY <1>1 DEF Consistent, UniqueKeys, IpFree, Exists
  <2>2. \A p, q \in ToSet(list) : p.name = q.name => p = q
    BY DistinctRows, StoreAssumption DEF replace_ports
  <2>3. \A r \in SwitchId : \A p, q \in db'.ports[r] : p.name = q.name => p = q
    BY <1>2, <2>2 DEF Consistent, UniqueKeys
  <2> QED BY <1>1, <2>1, <2>3 DEF Consistent, UniqueKeys
<1>5. SequenceAhead(db)' /\ Retained(db)'
  BY <1>1 DEF Consistent, SequenceAhead, Retained, Exists
<1> QED BY <1>3, <1>4, <1>5 DEF Consistent

\* A new sample leaves the constraints in place: the trim that follows the
\* insert brings the history back under the retention limit.
LEMMA AddSampleConsistent ==
    ASSUME TypeOK, SchemaHolds, NEW s \in SwitchId, NEW x \in Summary, add_sample(s, x)
    PROVE  SchemaHolds'
<1> USE TablesAssumption DEF TypeOK, SchemaHolds
<1> DEFINE h == Newest(Append(db.samples[s], x), Retention)
<1>1. /\ db'.switches = db.switches
      /\ db'.ports = db.ports
      /\ db'.samples = [db.samples EXCEPT ![s] = h]
      /\ db'.counters = db.counters
      /\ db'.sqlite_sequence = db.sqlite_sequence
  BY DEF add_sample, TrimSamples, InsertSample, Database
<1>2. Retention >= 0 => Len(h) <= Retention
  <2>1. Append(db.samples[s], x) \in Seq(Summary)
    BY DEF Database
  <2> QED BY <2>1, NewestProperties
<1> HIDE DEF h
<1>3. \A r \in SwitchId : db'.samples[r] = IF r = s THEN h ELSE db.samples[r]
  BY <1>1 DEF Database
<1>4. ReferentialIntegrity(db)'
  BY <1>1, <1>3 DEF add_sample, Consistent, ReferentialIntegrity, Exists
<1>5. UniqueKeys(db)' /\ SequenceAhead(db)'
  BY <1>1 DEF Consistent, UniqueKeys, IpFree, SequenceAhead, Exists
<1>6. Retained(db)'
  BY <1>2, <1>3 DEF Consistent, Retained
<1> QED BY <1>4, <1>5, <1>6 DEF Consistent

\* Upserting counters leaves the constraints in place: a name keeps one row.
LEMMA UpsertConsistent ==
    ASSUME TypeOK, SchemaHolds, NEW s \in SwitchId, NEW list \in CounterLists,
           upsert_port_counters(s, list)
    PROVE  SchemaHolds'
<1> USE TablesAssumption DEF TypeOK, SchemaHolds
<1> DEFINE u == UpsertRows(db.counters[s], ToSet(list))
<1>1. /\ db'.switches = db.switches
      /\ db'.ports = db.ports
      /\ db'.samples = db.samples
      /\ db'.counters = [db.counters EXCEPT ![s] = u]
      /\ db'.sqlite_sequence = db.sqlite_sequence
  BY DEF upsert_port_counters, Database
<1>2. \A p, q \in u : p.name = q.name => p = q
  <2>1. \A p, q \in ToSet(list) : p.name = q.name => p = q
    BY DistinctRows, StoreAssumption DEF upsert_port_counters
  <2>2. \A p, q \in db.counters[s] : p.name = q.name => p = q
    BY DEF Consistent, UniqueKeys
  <2> QED BY <2>1, <2>2 DEF UpsertRows, NamesIn
<1> HIDE DEF u
<1>3. \A r \in SwitchId : db'.counters[r] = IF r = s THEN u ELSE db.counters[r]
  BY <1>1 DEF Database
<1>4. ReferentialIntegrity(db)'
  BY <1>1, <1>3 DEF upsert_port_counters, Consistent, ReferentialIntegrity, Exists
<1>5. UniqueKeys(db)'
  <2>1. \A r \in SwitchId : Exists(db, r)' => IpFree(db, r, db.switches[r].ip)'
    BY <1>1 DEF Consistent, UniqueKeys, IpFree, Exists
  <2>2. \A r \in SwitchId : \A p, q \in db'.counters[r] : p.name = q.name => p = q
    BY <1>2, <1>3 DEF Consistent, UniqueKeys
  <2> QED BY <1>1, <2>1, <2>2 DEF Consistent, UniqueKeys
<1>6. SequenceAhead(db)' /\ Retained(db)'
  BY <1>1 DEF Consistent, SequenceAhead, Retained, Exists
<1> QED BY <1>4, <1>5, <1>6 DEF Consistent

\* The schema's constraints hold after any sequence of repository calls.
THEOREM StoreSchema == Spec => []SchemaHolds
<1>1. Init => SchemaHolds
  <2>1. Len(<<>>) = 0
    OBVIOUS
  <2> QED BY <2>1, TablesAssumption
          DEF Init, SchemaHolds, Consistent, EmptyDatabase, ReferentialIntegrity, UniqueKeys,
              SequenceAhead, Retained, Exists
<1>2. TypeOK /\ TypeOK' /\ SchemaHolds /\ [Next]_db => SchemaHolds'
  <2> SUFFICES ASSUME TypeOK, TypeOK', SchemaHolds, [Next]_db
               PROVE  SchemaHolds'
    OBVIOUS
  <2>1. CASE db' = db
    BY <2>1 DEF SchemaHolds
  <2>2. CASE Next
    BY <2>2, SwitchRowsConsistent, DeleteConsistent, ReplacePortsConsistent,
       AddSampleConsistent, UpsertConsistent DEF Next
  <2> QED BY <2>1, <2>2
<1> QED BY <1>1, <1>2, StoreType, PTL DEF Spec

\* A switch id is given to one switch only: rows appear only by an insert,
\* which takes the id just above sqlite_sequence and moves it there.
THEOREM StoreIds == Spec => IdsNeverReused
<1> DEFINE Fresh == /\ db'.sqlite_sequence >= db.sqlite_sequence
                    /\ \A s \in SwitchId :
                           s <= db.sqlite_sequence /\ ~Exists(db, s) => ~Exists(db, s)'
<1>1. TypeOK /\ [Next]_db => [Fresh]_db
  <2> SUFFICES ASSUME db \in Database, Next
               PROVE  Fresh
    BY DEF TypeOK
  <2> DEFINE Rest == /\ db'.sqlite_sequence = db.sqlite_sequence
                     /\ \A s \in SwitchId : Exists(db, s)' => Exists(db, s)
  <2>1. ASSUME NEW ip \in Ip, NEW method \in Method, NEW name \in Name \cup {NULL},
               create_switch(ip, method, name)
        PROVE  Fresh
    <3>1. /\ db'.sqlite_sequence = db.sqlite_sequence + 1
          /\ db.sqlite_sequence \in Nat
          /\ \A s \in SwitchId \ {NextId(db)} : db'.switches[s] = db.switches[s]
      BY <2>1 DEF create_switch, InsertSwitch, NextId, Database
    <3> QED BY <3>1, TablesAssumption DEF NextId, Exists
  <2>2. ASSUME NEW r \in SwitchId, NEW ip \in Ip \cup {NULL},
               NEW method \in Method \cup {NULL}, NEW name \in Name \cup {NULL},
               update_switch(r, ip, method, name)
        PROVE  Rest
    BY <2>2 DEF update_switch, UpdateSwitch, Exists, Database
  <2>3. ASSUME NEW r \in SwitchId, delete_switch(r)
        PROVE  Rest
    BY <2>3 DEF delete_switch, DeleteSwitch, Exists, Database
  <2>4. ASSUME NEW r \in SwitchId, NEW status \in Status, NEW name \in Name \cup {NULL},
               set_switch_status(r, status, name)
        PROVE  Rest
    BY <2>4 DEF set_switch_status, UpdateStatus, Exists, Database
  <2>5. ASSUME NEW r \in SwitchId, NEW list \in PortLists, replace_ports(r, list)
        PROVE  Rest
    BY <2>5 DEF replace_ports, Exists, Database
  <2>6. ASSUME NEW r \in SwitchId, NEW x \in Summary, add_sample(r, x)
        PROVE  Rest
    BY <2>6 DEF add_sample, TrimSamples, InsertSample, Exists, Database
  <2>7. ASSUME NEW r \in SwitchId, NEW list \in CounterLists, upsert_port_counters(r, list)
        PROVE  Rest
    BY <2>7 DEF upsert_port_counters, Exists, Database
  <2>8. Rest => Fresh
    BY DEF Database
  <2> HIDE DEF Rest, Fresh
  <2> QED BY <2>1, <2>2, <2>3, <2>4, <2>5, <2>6, <2>7, <2>8 DEF Next
<1> QED BY <1>1, StoreType, PTL DEF Spec, IdsNeverReused
=============================================================================
