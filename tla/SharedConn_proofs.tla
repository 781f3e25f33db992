-------------------------- MODULE SharedConn_proofs --------------------------
(***************************************************************************)
(* Theorems about SharedConn: with port lists that name every port once,   *)
(* nothing is pending while the lock is free, the connection implements    *)
(* Store, and a read gets rows of one list.  The invariant is IInv: what   *)
(* is pending is exactly the part of the lock holder's call that is done.  *)
(***************************************************************************)
EXTENDS SharedConn, SequenceTheorems, TLAPS

\* The arguments of a call have the domains of its function.
LEMMA CallFields ==
    ASSUME NEW c \in Call
    PROVE  /\ c.op = "create_switch" =>
                  c.ip \in Ip /\ c.method \in Method /\ c.name \in Name \cup {NULL}
           /\ c.op = "update_switch" =>
                  /\ c.s \in SwitchId /\ c.ip \in Ip \cup {NULL}
                  /\ c.method \in Method \cup {NULL} /\ c.name \in Name \cup {NULL}
           /\ c.op = "delete_switch" => c.s \in SwitchId
           /\ c.op = "set_switch_status" =>
                  c.s \in SwitchId /\ c.status \in Status /\ c.name \in Name \cup {NULL}
           /\ c.op = "replace_ports" => c.s \in SwitchId /\ c.list \in PortLists
           /\ c.op = "add_sample" => c.s \in SwitchId /\ c.x \in Summary
           /\ c.op = "upsert_port_counters" => c.s \in SwitchId /\ c.list \in CounterLists
           /\ c.op \in {"none", "create_switch", "update_switch", "delete_switch",
                        "set_switch_status", "replace_ports", "add_sample",
                        "upsert_port_counters"}
BY DEF Call

\* The retention trim returns a sequence of the same elements.
LEMMA NewestType ==
    ASSUME NEW T, NEW q \in Seq(T), NEW n \in Int
    PROVE  Newest(q, n) \in Seq(T)
<1>1. CASE n < 0 \/ Len(q) <= n
  BY <1>1 DEF Newest
<1>2. CASE ~(n < 0 \/ Len(q) <= n)
  <2>1. SubSeq(q, Len(q) - n + 1, Len(q)) \in Seq(T)
    BY <1>2
  <2> QED BY <1>2, <2>1 DEF Newest
<1> QED BY <1>1, <1>2

\* The first rows of a list are rows, and grow by one row at a time.
LEMMA FirstRowsProperties ==
    ASSUME NEW T, NEW list \in Seq(T), NEW k \in Nat, k <= Len(list)
    PROVE  /\ FirstRows(list, k) \subseteq T
           /\ FirstRows(list, 0) = {}
           /\ k < Len(list) =>
                  FirstRows(list, k + 1) = FirstRows(list, k) \cup {list[k + 1]}
           /\ FirstRows(list, Len(list)) = ToSet(list)
BY DEF FirstRows, ToSet

\* In a list that names no port twice, the next row's name is new.
LEMMA NextRowIsNew ==
    ASSUME NEW T, NEW list \in Seq(T), DistinctNames(list), NEW k \in Nat, k < Len(list)
    PROVE  \A r \in FirstRows(list, k) : r.name # list[k + 1].name
BY DEF FirstRows, DistinctNames

\* One more upsert of a row with a new name is the upsert of one more row.
LEMMA UpsertOneMore ==
    ASSUME NEW old, NEW new, NEW r, \A q \in new : q.name # r.name
    PROVE  /\ UpsertRow(UpsertRows(old, new), r) = UpsertRows(old, new \cup {r})
           /\ UpsertRows(old, {}) = old
BY DEF UpsertRow, UpsertRows, NamesIn

\* Writing a row of a switch that is there gives a database again, with the
\* foreign keys it had.
LEMMA RowWrite ==
    ASSUME NEW d \in Database, NEW s \in SwitchId, Exists(d, s), NEW rw \in SwitchRow,
           NEW e, e = [d EXCEPT !.switches[s] = rw]
    PROVE  /\ e \in Database
           /\ ReferentialIntegrity(d) => ReferentialIntegrity(e)
<1>1. e \in Database
  BY DEF Database
<1>2. /\ \A r \in SwitchId : e.switches[r] = IF r = s THEN rw ELSE d.switches[r]
      /\ e.ports = d.ports /\ e.samples = d.samples /\ e.counters = d.counters
  BY DEF Database
<1>3. ReferentialIntegrity(d) => ReferentialIntegrity(e)
  BY <1>2, TablesAssumption DEF ReferentialIntegrity, Exists
<1> QED BY <1>1, <1>3

\* The result of a call that is allowed is a database with its foreign keys.
LEMMA ResultIsDatabase ==
    ASSUME NEW d \in Database, NEW c \in Call, c.op # "none", Allowed(d, c)
    PROVE  /\ Result(d, c) \in Database
           /\ ReferentialIntegrity(d) => ReferentialIntegrity(Result(d, c))
<1>1. CASE c.op = "create_switch"
  <2>1. Result(d, c) = InsertSwitch(d, c.ip, c.method, c.name) /\ CanInsertSwitch(d, c.ip)
    BY <1>1 DEF Result, Allowed
  <2>2. c.ip \in Ip /\ c.method \in Method /\ c.name \in Name \cup {NULL}
    BY <1>1, CallFields
  <2> DEFINE rw == [ip |-> c.ip, method |-> c.method, name |-> c.name, status |-> "unknown"]
             n  == NextId(d)
  <2>3. rw \in SwitchRow /\ n \in SwitchId /\ n \in Nat
    BY <2>1, <2>2 DEF SwitchRow, Status, CanInsertSwitch, NextId, Database
  <2>4. Result(d, c) = [d EXCEPT !.switches[n] = rw, !.sqlite_sequence = n]
    BY <2>1 DEF InsertSwitch
  <2> HIDE DEF rw, n
  <2>5. Result(d, c) \in Database
    BY <2>3, <2>4 DEF Database
  <2>6. /\ \A r \in SwitchId :
               Result(d, c).switches[r] = IF r = n THEN rw ELSE d.switches[r]
        /\ Result(d, c).ports = d.ports
        /\ Result(d, c).samples = d.samples
        /\ Result(d, c).counters = d.counters
    BY <2>3, <2>4 DEF Database
  <2>7. rw # NoSwitch
    BY <2>3, TablesAssumption
  <2>8. ReferentialIntegrity(d) => ReferentialIntegrity(Result(d, c))
    BY <2>6, <2>7 DEF ReferentialIntegrity, Exists
  <2> QED BY <2>5, <2>8
<1>2. CASE c.op = "update_switch"
  <2>1. Result(d, c) = UpdateSwitch(d, c.s, c.ip, c.method, c.name)
    BY <1>2 DEF Result
  <2>2. /\ c.s \in SwitchId /\ c.ip \in Ip \cup {NULL}
        /\ c.method \in Method \cup {NULL} /\ c.name \in Name \cup {NULL}
    BY <1>2, CallFields
  <2>3. CASE ~Exists(d, c.s)
    BY <2>1, <2>3 DEF UpdateSwitch
  <2>4. CASE Exists(d, c.s)
    <3> DEFINE rw == [ip     |-> Coalesce(c.ip, d.switches[c.s].ip),
                      method |-> Coalesce(c.method, d.switches[c.s].method),
                      name   |-> Coalesce(c.name, d.switches[c.s].name),
                      status |-> d.switches[c.s].status]
    <3>1. d.switches[c.s] \in SwitchRow
      BY <2>2, <2>4 DEF Exists, Database
    <3>2. rw \in SwitchRow
      BY <2>2, <3>1 DEF SwitchRow, Coalesce
    <3>3. Result(d, c) = [d EXCEPT !.switches[c.s] = rw]
      BY <2>1, <2>4 DEF UpdateSwitch
    <3> QED BY <2>2, <2>4, <3>2, <3>3, RowWrite
  <2> QED BY <2>3, <2>4
<1>3. CASE c.op = "delete_switch"
  <2>1. Result(d, c) = DeleteSwitch(d, c.s) /\ c.s \in SwitchId
    BY <1>3, CallFields DEF Result
  <2>2. <<>> \in Seq(Summary)
    OBVIOUS
  <2>3. DeleteSwitch(d, c.s) \in Database
    BY <2>1, <2>2 DEF DeleteSwitch, Database
  <2>4. \A r \in SwitchId \ {c.s} :
            /\ Result(d, c).switches[r] = d.switches[r]
            /\ Result(d, c).ports[r] = d.ports[r]
            /\ Result(d, c).samples[r] = d.samples[r]
            /\ Result(d, c).counters[r] = d.counters[r]
    BY <2>1 DEF DeleteSwitch, Database
  <2>5. /\ Result(d, c).ports[c.s] = {}
        /\ Result(d, c).samples[c.s] = <<>>
        /\ Result(d, c).counters[c.s] = {}
    BY <2>1 DEF DeleteSwitch, Database
  <2>6. ReferentialIntegrity(d) => ReferentialIntegrity(Result(d, c))
    BY <2>4, <2>5 DEF ReferentialIntegrity, Exists
  <2> QED BY <2>1, <2>3, <2>6
<1>4. CASE c.op = "set_switch_status"
  <2>1. Result(d, c) = UpdateStatus(d, c.s, c.status, c.name)
    BY <1>4 DEF Result
  <2>2. c.s \in SwitchId /\ c.status \in Status /\ c.name \in Name \cup {NULL}
    BY <1>4, CallFields
  <2>3. CASE ~Exists(d, c.s)
    BY <2>1, <2>3 DEF UpdateStatus
  <2>4. CASE Exists(d, c.s)
    <3> DEFINE rw == [ip |-> d.switches[c.s].ip, method |-> d.switches[c.s].method,
                      name |-> Coalesce(c.name, d.switches[c.s].name), status |-> c.status]
    <3>1. d.switches[c.s] \in SwitchRow
      BY <2>2, <2>4 DEF Exists, Database
    <3>2. rw \in SwitchRow
      BY <2>2, <3>1 DEF SwitchRow, Coalesce
    <3>3. Result(d, c) = [d EXCEPT !.switches[c.s] = rw]
      BY <2>1, <2>4 DEF UpdateStatus
    <3> QED BY <2>2, <2>4, <3>2, <3>3, RowWrite
  <2> QED BY <2>3, <2>4
<1>5. CASE c.op = "replace_ports"
  <2>1. /\ Result(d, c) = [d EXCEPT !.ports[c.s] = ToSet(c.list)]
        /\ Exists(d, c.s) \/ c.list = <<>>
    BY <1>5 DEF Result, Allowed
  <2>2. c.s \in SwitchId /\ c.list \in Seq(PortRow)
    BY <1>5, CallFields, SharedConnAssumption
  <2>3. ToSet(c.list) \subseteq PortRow /\ (c.list = <<>> => ToSet(c.list) = {})
    BY <2>2 DEF ToSet
  <2>4. Result(d, c) \in Database
    BY <2>1, <2>2, <2>3 DEF Database
  <2>5. ReferentialIntegrity(d) => ReferentialIntegrity(Result(d, c))
    BY <2>1, <2>2, <2>3 DEF Database, ReferentialIntegrity, Exists
  <2> QED BY <2>4, <2>5
<1>6. CASE c.op = "add_sample"
  <2>1. Result(d, c) = TrimSamples(InsertSample(d, c.s, c.x), c.s) /\ Exists(d, c.s)
    BY <1>6 DEF Result, Allowed
  <2>2. c.s \in SwitchId /\ c.x \in Summary
    BY <1>6, CallFields
  <2> DEFINE h == Newest(Append(d.samples[c.s], c.x), Retention)
  <2>3. h \in Seq(Summary)
    <3>1. Append(d.samples[c.s], c.x) \in Seq(Summary)
      BY <2>2 DEF Database
    <3> QED BY <3>1, NewestType, TablesAssumption
  <2>4. Result(d, c) = [d EXCEPT !.samples[c.s] = h]
    BY <2>1, <2>2 DEF TrimSamples, InsertSample, Database
  <2> HIDE DEF h
  <2>5. Result(d, c) \in Database
    BY <2>2, <2>3, <2>4 DEF Database
  <2>6. ReferentialIntegrity(d) => ReferentialIntegrity(Result(d, c))
    BY <2>1, <2>2, <2>4 DEF Database, ReferentialIntegrity, Exists
  <2> QED BY <2>5, <2>6
<1>7. CASE c.op = "upsert_port_counters"
  <2>1. /\ Result(d, c) = [d EXCEPT !.counters[c.s] = UpsertRows(@, ToSet(c.list))]
        /\ Exists(d, c.s)
    BY <1>7 DEF Result, Allowed
  <2>2. c.s \in SwitchId /\ c.list \in Seq(CounterRow)
    BY <1>7, CallFields, SharedConnAssumption
  <2>3. UpsertRows(d.counters[c.s], ToSet(c.list)) \subseteq CounterRow
    BY <2>2 DEF UpsertRows, ToSet, Database
  <2>4. Result(d, c) \in Database
    BY <2>1, <2>2, <2>3 DEF Database
  <2>5. ReferentialIntegrity(d) => ReferentialIntegrity(Result(d, c))
    BY <2>1, <2>2 DEF Database, ReferentialIntegrity, Exists
  <2> QED BY <2>4, <2>5
<1> QED BY <1>1, <1>2, <1>3, <1>4, <1>5, <1>6, <1>7, CallFields

-----------------------------------------------------------------------------
(* The steps all write functions share. *)

\* Getting the lock: a call starts with nothing pending.
LEMMA EnterStep ==
    ASSUME IInv, NEW t \in Thread, NEW c \in Call,
           NEW loc \in LocationsOf(c.op) \ {"idle", "insert_ports", "trim_samples",
              "commit"},
           loc = "create" => NextId(work) \in SwitchId,
           loc = "upsert" => c.list # <<>>,
           Enter(t, c, loc)
    PROVE  IInv'
<1> USE DEF IInv, Enter
<1>0. loc \in Location
  BY DEF LocationsOf, Location
<1>1. TypeOK'
  BY <1>0 DEF TypeOK
<1>2. LockIsExclusive'
  BY SharedConnAssumption DEF TypeOK, LockIsExclusive
<1>3. (\A u \in Thread : pc[u] \in LocationsOf(call[u].op))'
  BY DEF TypeOK
<1>4. CleanWhenUnlocked'
  BY SharedConnAssumption DEF CleanWhenUnlocked
<1>5. PendingIsTheCall'
  <2> SUFFICES DoneSoFar(t)' = disk /\ AllowedSoFar(t)'
    BY DEF CleanWhenUnlocked, PendingIsTheCall
  <2>1. pc'[t] = loc /\ call'[t] = c /\ row'[t] = 0 /\ disk' = disk /\ work = disk
    BY DEF TypeOK, CleanWhenUnlocked
  <2>2. CASE loc = "upsert"
    <3>1. c.op = "upsert_port_counters"
      BY <2>2, CallFields DEF LocationsOf
    <3>2. c.s \in SwitchId /\ c.list \in Seq(CounterRow)
      BY <3>1, CallFields, SharedConnAssumption
    <3>3. FirstRows(c.list, 0) = {}
      BY <3>2, FirstRowsProperties
    <3>4. UpsertRows(disk.counters[c.s], {}) = disk.counters[c.s]
      BY DEF UpsertRows, NamesIn
    <3>5. [disk EXCEPT !.counters[c.s] = disk.counters[c.s]] = disk
      BY <3>2 DEF TypeOK, Database
    <3>6. DoneSoFar(t)' = disk
      BY <2>1, <2>2, <3>3, <3>4, <3>5 DEF DoneSoFar
    <3>7. AllowedSoFar(t)'
      BY <2>1, <2>2, <3>2 DEF AllowedSoFar
    <3> QED BY <3>6, <3>7
  <2>3. CASE loc # "upsert"
    BY <2>1, <2>3 DEF DoneSoFar, AllowedSoFar
  <2> QED BY <2>2, <2>3
<1> QED BY <1>1, <1>2, <1>3, <1>4, <1>5

\* A statement: what is pending becomes d, which is the call's part done then.
LEMMA ExecuteStep ==
    ASSUME IInv, NEW t \in Thread, pc[t] # "idle",
           NEW d \in Database, NEW loc \in LocationsOf(call[t].op) \ {"idle"},
           Executes(t, d, loc), row' \in [Thread -> Nat],
           d = DoneSoFar(t)', AllowedSoFar(t)'
    PROVE  IInv'
<1> USE DEF IInv, Executes
<1>0. loc \in Location /\ holder = t
  BY DEF LocationsOf, Location, LockIsExclusive
<1>1. TypeOK'
  BY <1>0 DEF TypeOK
<1>2. LockIsExclusive'
  BY <1>0 DEF TypeOK, LockIsExclusive
<1>3. (\A u \in Thread : pc[u] \in LocationsOf(call[u].op))'
  BY DEF TypeOK
<1>4. CleanWhenUnlocked'
  BY <1>0, SharedConnAssumption DEF CleanWhenUnlocked
<1>5. PendingIsTheCall'
  BY <1>0 DEF PendingIsTheCall
<1> QED BY <1>1, <1>2, <1>3, <1>4, <1>5

\* Leaving a call with nothing pending.
LEMMA LeaveStep ==
    ASSUME IInv, NEW t \in Thread, pc[t] # "idle", Leave(t),
           work' = disk', disk' \in Database, ReferentialIntegrity(disk')
    PROVE  IInv'
<1> USE DEF IInv, Leave
<1>0. holder = t
  BY DEF LockIsExclusive
<1>1. TypeOK'
  BY DEF TypeOK, Location, Call, NoCall
<1>2. LockIsExclusive'
  BY <1>0, SharedConnAssumption DEF TypeOK, LockIsExclusive
<1>3. (\A u \in Thread : pc[u] \in LocationsOf(call[u].op))'
  BY DEF TypeOK, LocationsOf, NoCall
<1>4. CleanWhenUnlocked' /\ PendingIsTheCall'
  BY SharedConnAssumption DEF CleanWhenUnlocked, PendingIsTheCall
<1> QED BY <1>1, <1>2, <1>3, <1>4

\* A statement that fails before its call changed anything.
LEMMA RaiseStep ==
    ASSUME IInv, NEW t \in Thread, pc[t] # "idle", Raises(t), work = disk
    PROVE  IInv'
BY LeaveStep DEF Raises, IInv, TypeOK

\* A commit.
LEMMA CommitStep ==
    ASSUME IInv, NEW t \in Thread, Commit(t)
    PROVE  IInv'
<1>1. work = Result(disk, call[t]) /\ Allowed(disk, call[t])
  BY DEF IInv, Commit, LockIsExclusive, PendingIsTheCall, DoneSoFar, AllowedSoFar
<1>2. call[t] \in Call /\ call[t].op # "none"
  BY DEF IInv, TypeOK, Commit, LocationsOf
<1>3. work \in Database /\ ReferentialIntegrity(work)
  BY <1>1, <1>2, ResultIsDatabase DEF IInv, TypeOK
<1> QED BY <1>3, LeaveStep DEF Commit

-----------------------------------------------------------------------------
(* One lemma per write function. *)

\* What the invariant says of a thread inside a call.
LEMMA InCall ==
    ASSUME IInv, NEW t \in Thread, pc[t] # "idle"
    PROVE  /\ holder = t
           /\ work = DoneSoFar(t) /\ AllowedSoFar(t)
           /\ call[t] \in Call
           /\ pc[t] \in LocationsOf(call[t].op)
           /\ work \in Database /\ disk \in Database
           /\ row \in [Thread -> Nat]
BY DEF IInv, TypeOK, LockIsExclusive, PendingIsTheCall

LEMMA CreateStep ==
    ASSUME IInv, NEW t \in Thread, create_switch(t)
    PROVE  IInv'
<1>1. ASSUME NEW ip \in Ip, NEW method \in Method, NEW name \in Name \cup {NULL},
             NextId(work) \in SwitchId,
             Enter(t, [op |-> "create_switch", ip |-> ip, method |-> method, name |-> name],
                   "create")
      PROVE  IInv'
  <2> DEFINE c == [op |-> "create_switch", ip |-> ip, method |-> method, name |-> name]
  <2>1. c \in Call /\ c.op = "create_switch" /\ "create" \in LocationsOf(c.op)
    BY DEF Call, LocationsOf
  <2> HIDE DEF c
  <2>2. Enter(t, c, "create")
    BY <1>1 DEF c
  <2> QED BY <1>1, <2>1, <2>2, EnterStep
<1>2. CASE pc[t] = "create"
  <2>1. call[t].op = "create_switch" /\ work = disk /\ NextId(disk) \in SwitchId
    BY <1>2, InCall, CallFields DEF LocationsOf, DoneSoFar, AllowedSoFar
  <2>2. CASE ~IpFree(work, NextId(work), call[t].ip)
    <3>1. Raises(t)
      BY <1>2, <2>2 DEF create_switch, Enter
    <3> QED BY <1>2, <2>1, <3>1, RaiseStep
  <2>3. CASE IpFree(work, NextId(work), call[t].ip)
    <3> DEFINE d == InsertSwitch(work, call[t].ip, call[t].method, call[t].name)
    <3>1. Executes(t, d, "commit") /\ row' = row
      BY <1>2, <2>3 DEF create_switch, Enter
    <3>2. d = Result(disk, call[t]) /\ Allowed(disk, call[t])
      BY <2>1, <2>3 DEF Result, Allowed, CanInsertSwitch
    <3>3. d \in Database
      BY <1>2, <2>1, <3>2, InCall, ResultIsDatabase
    <3> HIDE DEF d
    <3>4. d = DoneSoFar(t)' /\ AllowedSoFar(t)'
      BY <1>2, <3>1, <3>2 DEF Executes, DoneSoFar, AllowedSoFar, IInv, TypeOK
    <3>5. "commit" \in LocationsOf(call[t].op) \ {"idle"}
      BY <2>1 DEF LocationsOf
    <3> QED BY <1>2, <3>1, <3>3, <3>4, <3>5, ExecuteStep, InCall
  <2> QED BY <2>2, <2>3
<1> QED BY <1>1, <1>2 DEF create_switch

LEMMA UpdateStep ==
    ASSUME IInv, NEW t \in Thread, update_switch(t)
    PROVE  IInv'
<1>1. ASSUME NEW s \in SwitchId, NEW ip \in Ip \cup {NULL},
   NEW method \in Method \cup {NULL},
             NEW name \in Name \cup {NULL},
             Enter(t, [op |-> "update_switch", s |-> s, ip |-> ip, method |-> method,
                       name |-> name], "update")
      PROVE  IInv'
  <2> DEFINE c == [op |-> "update_switch", s |-> s, ip |-> ip, method |-> method,
                   name |-> name]
  <2>1. c \in Call /\ c.op = "update_switch" /\ "update" \in LocationsOf(c.op)
    BY DEF Call, LocationsOf
  <2> HIDE DEF c
  <2>2. Enter(t, c, "update")
    BY <1>1 DEF c
  <2> QED BY <2>1, <2>2, EnterStep
<1>2. CASE pc[t] = "update"
  <2>1. call[t].op = "update_switch" /\ work = disk
    BY <1>2, InCall, CallFields DEF LocationsOf, DoneSoFar
  <2> DEFINE ok == \/ call[t].ip = NULL
                   \/ ~Exists(work, call[t].s)
                   \/ IpFree(work, call[t].s, call[t].ip)
             d  == UpdateSwitch(work, call[t].s, call[t].ip, call[t].method, call[t].name)
  <2>2. CASE ~ok
    <3>1. Raises(t)
      BY <1>2, <2>2 DEF update_switch, Enter
    <3> QED BY <1>2, <2>1, <3>1, RaiseStep
  <2>3. CASE ok
    <3>1. Executes(t, d, "commit") /\ row' = row
      BY <1>2, <2>3 DEF update_switch, Enter
    <3>2. d = Result(disk, call[t]) /\ Allowed(disk, call[t])
      BY <2>1, <2>3 DEF Result, Allowed
    <3>3. d \in Database
      BY <1>2, <2>1, <3>2, InCall, ResultIsDatabase
    <3> HIDE DEF d
    <3>4. d = DoneSoFar(t)' /\ AllowedSoFar(t)'
      BY <1>2, <3>1, <3>2 DEF Executes, DoneSoFar, AllowedSoFar, IInv, TypeOK
    <3>5. "commit" \in LocationsOf(call[t].op) \ {"idle"}
      BY <2>1 DEF LocationsOf
    <3> QED BY <1>2, <3>1, <3>3, <3>4, <3>5, ExecuteStep, InCall
  <2> QED BY <2>2, <2>3
<1> QED BY <1>1, <1>2 DEF update_switch

LEMMA DeleteStep ==
    ASSUME IInv, NEW t \in Thread, delete_switch(t)
    PROVE  IInv'
<1>1. ASSUME NEW s \in SwitchId, Enter(t, [op |-> "delete_switch", s |-> s], "delete")
      PROVE  IInv'
  <2> DEFINE c == [op |-> "delete_switch", s |-> s]
  <2>1. c \in Call /\ c.op = "delete_switch" /\ "delete" \in LocationsOf(c.op)
    BY DEF Call, LocationsOf
  <2> HIDE DEF c
  <2>2. Enter(t, c, "delete")
    BY <1>1 DEF c
  <2> QED BY <2>1, <2>2, EnterStep
<1>2. CASE pc[t] = "delete"
  <2>1. call[t].op = "delete_switch" /\ work = disk
    BY <1>2, InCall, CallFields DEF LocationsOf, DoneSoFar
  <2> DEFINE d == DeleteSwitch(work, call[t].s)
  <2>2. Executes(t, d, "commit") /\ row' = row
    BY <1>2 DEF delete_switch, Enter
  <2>3. d = Result(disk, call[t]) /\ Allowed(disk, call[t])
    BY <2>1 DEF Result, Allowed
  <2>4. d \in Database
    BY <1>2, <2>1, <2>3, InCall, ResultIsDatabase
  <2> HIDE DEF d
  <2>5. d = DoneSoFar(t)' /\ AllowedSoFar(t)'
    BY <1>2, <2>2, <2>3 DEF Executes, DoneSoFar, AllowedSoFar, IInv, TypeOK
  <2>6. "commit" \in LocationsOf(call[t].op) \ {"idle"}
    BY <2>1 DEF LocationsOf
  <2> QED BY <1>2, <2>2, <2>4, <2>5, <2>6, ExecuteStep, InCall
<1> QED BY <1>1, <1>2 DEF delete_switch

LEMMA StatusStep ==
    ASSUME IInv, NEW t \in Thread, set_switch_status(t)
    PROVE  IInv'
<1>1. ASSUME NEW s \in SwitchId, NEW status \in Status, NEW name \in Name \cup {NULL},
             Enter(t, [op |-> "set_switch_status", s |-> s, status |-> status,
                name |-> name],
                   "status")
      PROVE  IInv'
  <2> DEFINE c == [op |-> "set_switch_status", s |-> s, status |-> status, name |-> name]
  <2>1. c \in Call /\ c.op = "set_switch_status" /\ "status" \in LocationsOf(c.op)
    BY DEF Call, LocationsOf
  <2> HIDE DEF c
  <2>2. Enter(t, c, "status")
    BY <1>1 DEF c
  <2> QED BY <2>1, <2>2, EnterStep
<1>2. CASE pc[t] = "status"
  <2>1. call[t].op = "set_switch_status" /\ work = disk
    BY <1>2, InCall, CallFields DEF LocationsOf, DoneSoFar
  <2> DEFINE d == UpdateStatus(work, call[t].s, call[t].status, call[t].name)
  <2>2. Executes(t, d, "commit") /\ row' = row
    BY <1>2 DEF set_switch_status, Enter
  <2>3. d = Result(disk, call[t]) /\ Allowed(disk, call[t])
    BY <2>1 DEF Result, Allowed
  <2>4. d \in Database
    BY <1>2, <2>1, <2>3, InCall, ResultIsDatabase
  <2> HIDE DEF d
  <2>5. d = DoneSoFar(t)' /\ AllowedSoFar(t)'
    BY <1>2, <2>2, <2>3 DEF Executes, DoneSoFar, AllowedSoFar, IInv, TypeOK
  <2>6. "commit" \in LocationsOf(call[t].op) \ {"idle"}
    BY <2>1 DEF LocationsOf
  <2> QED BY <1>2, <2>2, <2>4, <2>5, <2>6, ExecuteStep, InCall
<1> QED BY <1>1, <1>2 DEF set_switch_status

\* The rows go in one at a time after the old ones are out; with distinct
\* names only a missing switch makes a row fail, and then nothing is pending.
LEMMA ReplaceStep ==
    ASSUME UniqueNames, IInv, NEW t \in Thread, replace_ports(t)
    PROVE  IInv'
<1>1. ASSUME NEW s \in SwitchId, NEW list \in PortLists,
             Enter(t, [op |-> "replace_ports", s |-> s, list |-> list], "delete_ports")
      PROVE  IInv'
  <2> DEFINE c == [op |-> "replace_ports", s |-> s, list |-> list]
  <2>1. c \in Call /\ c.op = "replace_ports" /\ "delete_ports" \in LocationsOf(c.op)
    BY DEF Call, LocationsOf
  <2> HIDE DEF c
  <2>2. Enter(t, c, "delete_ports")
    BY <1>1 DEF c
  <2> QED BY <2>1, <2>2, EnterStep
<1>2. ASSUME pc[t] \in {"delete_ports", "insert_ports"}
      PROVE  /\ call[t].op = "replace_ports"
             /\ call[t].s \in SwitchId
             /\ call[t].list \in Seq(PortRow) /\ DistinctNames(call[t].list)
             /\ "insert_ports" \in LocationsOf(call[t].op) \ {"idle"}
             /\ "commit" \in LocationsOf(call[t].op) \ {"idle"}
  <2>1. call[t].op = "replace_ports"
    BY <1>2, InCall, CallFields DEF LocationsOf
  <2> QED BY <1>2, <2>1, InCall, CallFields, SharedConnAssumption DEF LocationsOf,
     UniqueNames
<1> DEFINE s == call[t].s
           l == call[t].list
           k == row[t]
<1>3. CASE pc[t] = "delete_ports"
  <2>1. work = disk /\ k = 0
    BY <1>3, InCall DEF DoneSoFar, AllowedSoFar
  <2> DEFINE d == DeletePorts(work, s)
  <2>2. Executes(t, d, "insert_ports") /\ row' = row
    BY <1>3 DEF replace_ports, Enter
  <2>3. d = [disk EXCEPT !.ports[s] = FirstRows(l, k)]
    <3>1. FirstRows(l, k) = {}
      BY <2>1 DEF FirstRows
    <3> QED BY <2>1, <3>1 DEF DeletePorts
  <2>4. d \in Database
    BY <1>2, <1>3, InCall DEF DeletePorts, Database
  <2> HIDE DEF d
  <2>5. d = DoneSoFar(t)' /\ AllowedSoFar(t)'
    BY <1>2, <1>3, <2>1, <2>2, <2>3 DEF Executes, DoneSoFar, AllowedSoFar, IInv, TypeOK
  <2> QED BY <1>2, <1>3, <2>2, <2>4, <2>5, ExecuteStep, InCall
<1>4. CASE pc[t] = "insert_ports" /\ k < Len(l)
  <2> DEFINE r == l[k + 1]
  <2>1. /\ work = [disk EXCEPT !.ports[s] = FirstRows(l, k)]
        /\ k \in Nat /\ k + 1 \in 1..Len(l)
        /\ k > 0 => Exists(disk, s)
        /\ work \in Database /\ disk \in Database
    BY <1>2, <1>4, InCall DEF DoneSoFar, AllowedSoFar
  <2>2. r \in PortRow
    BY <1>2, <1>4, <2>1
  <2>3. work.ports[s] = FirstRows(l, k) /\ (Exists(work, s) <=> Exists(disk, s))
    BY <1>2, <1>4, <2>1 DEF Database, Exists
  <2>4. \A q \in FirstRows(l, k) : q.name # r.name
    BY <1>2, <1>4, <2>1, NextRowIsNew
  <2>5. CASE ~CanInsertPort(work, s, r)
    <3>1. ~Exists(disk, s) /\ k = 0
      BY <2>1, <2>3, <2>4, <2>5 DEF CanInsertPort
    <3>2. disk.ports[s] = {} /\ FirstRows(l, k) = {}
      BY <1>2, <1>4, <3>1, FirstRowsProperties DEF IInv, ReferentialIntegrity
    <3>3. work = disk
      BY <1>2, <1>4, <2>1, <3>2 DEF Database
    <3>4. Raises(t)
      BY <1>4, <2>5 DEF replace_ports, Enter
    <3> QED BY <1>4, <3>3, <3>4, RaiseStep
  <2>6. CASE CanInsertPort(work, s, r)
    <3> DEFINE d == InsertPort(work, s, r)
    <3>1. Executes(t, d, "insert_ports") /\ row' = [row EXCEPT ![t] = @ + 1]
      BY <1>4, <2>6 DEF replace_ports, Enter
    <3>2. FirstRows(l, k + 1) = FirstRows(l, k) \cup {r}
      BY <1>2, <1>4, <2>1, FirstRowsProperties
    <3>3. d = [disk EXCEPT !.ports[s] = FirstRows(l, k + 1)]
      BY <1>2, <1>4, <2>1, <2>3, <3>2 DEF InsertPort, Database
    <3>4. d \in Database
      <4>1. work.ports[s] \cup {r} \subseteq PortRow
        BY <1>2, <1>4, <2>1, <2>2 DEF Database
      <4>2. d = [work EXCEPT !.ports[s] = work.ports[s] \cup {r}]
        BY DEF InsertPort
      <4> HIDE DEF d, r
      <4> QED BY <1>2, <1>4, <2>1, <4>1, <4>2 DEF Database
    <3>5. Exists(disk, s)
      BY <2>3, <2>6 DEF CanInsertPort
    <3>6. /\ row' \in [Thread -> Nat] /\ row'[t] = k + 1
          /\ pc'[t] = "insert_ports" /\ call' = call /\ disk' = disk
      BY <1>4, <3>1, InCall DEF Executes, IInv, TypeOK
    <3> HIDE DEF d
    <3>7. d = DoneSoFar(t)' /\ AllowedSoFar(t)'
      BY <2>1, <3>3, <3>5, <3>6 DEF DoneSoFar, AllowedSoFar
    <3> QED BY <1>2, <1>4, <3>1, <3>4, <3>6, <3>7, ExecuteStep
  <2> QED BY <2>5, <2>6
<1>5. CASE pc[t] = "insert_ports" /\ k = Len(l)
  <2>1. /\ work = [disk EXCEPT !.ports[s] = FirstRows(l, k)]
        /\ k > 0 => Exists(disk, s)
        /\ work \in Database
    BY <1>5, InCall DEF DoneSoFar, AllowedSoFar
  <2>2. Executes(t, work, "commit") /\ row' = row
    BY <1>5 DEF replace_ports, Enter
  <2>3. work = Result(disk, call[t])
    BY <1>2, <1>5, <2>1, FirstRowsProperties DEF Result
  <2>4. Allowed(disk, call[t])
    BY <1>2, <1>5, <2>1 DEF Allowed
  <2>5. work = DoneSoFar(t)' /\ AllowedSoFar(t)'
    BY <1>5, <2>2, <2>3, <2>4 DEF Executes, DoneSoFar, AllowedSoFar, IInv, TypeOK
  <2> QED BY <1>2, <1>5, <2>1, <2>2, <2>5, ExecuteStep, InCall
<1> QED BY <1>1, <1>3, <1>4, <1>5 DEF replace_ports

LEMMA SampleStep ==
    ASSUME IInv, NEW t \in Thread, add_sample(t)
    PROVE  IInv'
<1>1. ASSUME NEW s \in SwitchId, NEW x \in Summary,
             Enter(t, [op |-> "add_sample", s |-> s, x |-> x], "insert_sample")
      PROVE  IInv'
  <2> DEFINE c == [op |-> "add_sample", s |-> s, x |-> x]
  <2>1. c \in Call /\ c.op = "add_sample" /\ "insert_sample" \in LocationsOf(c.op)
    BY DEF Call, LocationsOf
  <2> HIDE DEF c
  <2>2. Enter(t, c, "insert_sample")
    BY <1>1 DEF c
  <2> QED BY <2>1, <2>2, EnterStep
<1>2. CASE pc[t] = "insert_sample"
  <2>1. call[t].op = "add_sample" /\ work = disk
    BY <1>2, InCall, CallFields DEF LocationsOf, DoneSoFar
  <2>2. CASE ~Exists(work, call[t].s)
    <3>1. Raises(t)
      BY <1>2, <2>2 DEF add_sample, Enter
    <3> QED BY <1>2, <2>1, <3>1, RaiseStep
  <2>3. CASE Exists(work, call[t].s)
    <3> DEFINE d == InsertSample(work, call[t].s, call[t].x)
    <3>1. Executes(t, d, "trim_samples") /\ row' = row
      BY <1>2, <2>3 DEF add_sample, Enter
    <3>2. call[t].s \in SwitchId /\ call[t].x \in Summary
      BY <1>2, <2>1, InCall, CallFields
    <3>3. d \in Database
      <4>1. work.samples[call[t].s] \in Seq(Summary)
        BY <1>2, <3>2, InCall DEF Database
      <4>2. Append(work.samples[call[t].s], call[t].x) \in Seq(Summary)
        BY <3>2, <4>1
      <4> QED BY <1>2, <3>2, <4>2, InCall DEF InsertSample, Database
    <3> HIDE DEF d
    <3>4. d = DoneSoFar(t)' /\ AllowedSoFar(t)'
      BY <1>2, <2>1, <2>3, <3>1 DEF d, Executes, DoneSoFar, AllowedSoFar, IInv, TypeOK
    <3>5. "trim_samples" \in LocationsOf(call[t].op) \ {"idle"}
      BY <2>1 DEF LocationsOf
    <3> QED BY <1>2, <3>1, <3>3, <3>4, <3>5, ExecuteStep, InCall
  <2> QED BY <2>2, <2>3
<1>3. CASE pc[t] = "trim_samples"
  <2>1. /\ call[t].op = "add_sample"
        /\ work = InsertSample(disk, call[t].s, call[t].x)
        /\ Exists(disk, call[t].s)
    BY <1>3, InCall, CallFields DEF LocationsOf, DoneSoFar, AllowedSoFar
  <2> DEFINE d == TrimSamples(work, call[t].s)
  <2>2. Executes(t, d, "commit") /\ row' = row
    BY <1>3 DEF add_sample, Enter
  <2>3. d = Result(disk, call[t]) /\ Allowed(disk, call[t])
    BY <2>1 DEF Result, Allowed
  <2>4. d \in Database
    BY <1>3, <2>1, <2>3, InCall, ResultIsDatabase
  <2> HIDE DEF d
  <2>5. d = DoneSoFar(t)' /\ AllowedSoFar(t)'
    BY <1>3, <2>2, <2>3 DEF Executes, DoneSoFar, AllowedSoFar, IInv, TypeOK
  <2>6. "commit" \in LocationsOf(call[t].op) \ {"idle"}
    BY <2>1 DEF LocationsOf
  <2> QED BY <1>3, <2>2, <2>4, <2>5, <2>6, ExecuteStep, InCall
<1> QED BY <1>1, <1>2, <1>3 DEF add_sample

LEMMA UpsertStep ==
    ASSUME UniqueNames, IInv, NEW t \in Thread, upsert_port_counters(t)
    PROVE  IInv'
<1>1. ASSUME NEW s \in SwitchId, NEW list \in CounterLists, list # <<>>,
             Enter(t, [op |-> "upsert_port_counters", s |-> s, list |-> list], "upsert")
      PROVE  IInv'
  <2> DEFINE c == [op |-> "upsert_port_counters", s |-> s, list |-> list]
  <2>1. /\ c \in Call /\ c.op = "upsert_port_counters" /\ "upsert" \in LocationsOf(c.op)
        /\ c.list # <<>>
    BY <1>1 DEF Call, LocationsOf
  <2> HIDE DEF c
  <2>2. Enter(t, c, "upsert")
    BY <1>1 DEF c
  <2> QED BY <2>1, <2>2, EnterStep
<1>2. ASSUME pc[t] = "upsert"
      PROVE  /\ call[t].op = "upsert_port_counters"
             /\ call[t].s \in SwitchId
             /\ call[t].list \in Seq(CounterRow) /\ DistinctNames(call[t].list)
             /\ "upsert" \in LocationsOf(call[t].op) \ {"idle"}
             /\ "commit" \in LocationsOf(call[t].op) \ {"idle"}
  <2>1. call[t].op = "upsert_port_counters"
    BY <1>2, InCall, CallFields DEF LocationsOf
  <2> QED BY <1>2, <2>1, InCall, CallFields, SharedConnAssumption DEF LocationsOf,
     UniqueNames
<1> DEFINE s == call[t].s
           l == call[t].list
           k == row[t]
<1>3. CASE pc[t] = "upsert" /\ k < Len(l)
  <2> DEFINE r == l[k + 1]
  <2>1. /\ work = [disk EXCEPT !.counters[s] = UpsertRows(@, FirstRows(l, k))]
        /\ k \in Nat /\ k + 1 \in 1..Len(l)
        /\ k > 0 => Exists(disk, s)
        /\ work \in Database /\ disk \in Database
    BY <1>2, <1>3, InCall DEF DoneSoFar, AllowedSoFar
  <2>2. r \in CounterRow
    BY <1>2, <1>3, <2>1
  <2>3. /\ work.counters[s] = UpsertRows(disk.counters[s], FirstRows(l, k))
        /\ Exists(work, s) <=> Exists(disk, s)
    BY <1>2, <1>3, <2>1 DEF Database, Exists
  <2>4. \A q \in FirstRows(l, k) : q.name # r.name
    BY <1>2, <1>3, <2>1, NextRowIsNew
  <2>5. CASE ~Exists(work, s)
    <3>1. k = 0
      BY <2>1, <2>3, <2>5
    <3>2. FirstRows(l, k) = {}
      BY <1>2, <1>3, <3>1, FirstRowsProperties
    <3>3. UpsertRows(disk.counters[s], {}) = disk.counters[s]
      BY DEF UpsertRows, NamesIn
    <3>4. work = disk
      BY <1>2, <1>3, <2>1, <3>2, <3>3 DEF Database
    <3>5. Raises(t)
      BY <1>3, <2>5 DEF upsert_port_counters, Enter
    <3> QED BY <1>3, <3>4, <3>5, RaiseStep
  <2>6. CASE Exists(work, s)
    <3> DEFINE d == UpsertCounter(work, s, r)
    <3>1. Executes(t, d, "upsert") /\ row' = [row EXCEPT ![t] = @ + 1]
      BY <1>3, <2>6 DEF upsert_port_counters, Enter
    <3>2. FirstRows(l, k + 1) = FirstRows(l, k) \cup {r}
      BY <1>2, <1>3, <2>1, FirstRowsProperties
    <3>3. UpsertRow(work.counters[s], r) = UpsertRows(disk.counters[s], FirstRows(l, k + 1))
      BY <2>3, <2>4, <3>2, UpsertOneMore
    <3>4. d = [disk EXCEPT !.counters[s] = UpsertRows(@, FirstRows(l, k + 1))]
      BY <1>2, <1>3, <2>1, <3>3 DEF UpsertCounter, Database
    <3>5. d \in Database
      <4>1. UpsertRow(work.counters[s], r) \subseteq CounterRow
        BY <1>2, <1>3, <2>1, <2>2 DEF UpsertRow, Database
      <4> QED BY <1>2, <1>3, <2>1, <4>1 DEF UpsertCounter, Database
    <3>6. Exists(disk, s)
      BY <2>3, <2>6
    <3>7. /\ row' \in [Thread -> Nat] /\ row'[t] = k + 1
          /\ pc'[t] = "upsert" /\ call' = call /\ disk' = disk
      BY <1>3, <3>1, InCall DEF Executes, IInv, TypeOK
    <3>8. l # <<>>
      BY <1>3, InCall DEF AllowedSoFar
    <3> HIDE DEF d
    <3>9. d = DoneSoFar(t)' /\ AllowedSoFar(t)'
      BY <2>1, <3>4, <3>6, <3>7, <3>8 DEF DoneSoFar, AllowedSoFar
    <3> QED BY <1>2, <1>3, <3>1, <3>5, <3>7, <3>9, ExecuteStep
  <2> QED BY <2>5, <2>6
<1>4. CASE pc[t] = "upsert" /\ k = Len(l)
  <2>1. /\ work = [disk EXCEPT !.counters[s] = UpsertRows(@, FirstRows(l, k))]
        /\ k > 0 => Exists(disk, s)
        /\ l # <<>>
        /\ work \in Database
    BY <1>4, InCall DEF DoneSoFar, AllowedSoFar
  <2>2. Executes(t, work, "commit") /\ row' = row
    BY <1>4 DEF upsert_port_counters, Enter
  <2>3. work = Result(disk, call[t])
    BY <1>2, <1>4, <2>1, FirstRowsProperties DEF Result
  <2>4. Allowed(disk, call[t])
    BY <1>2, <1>4, <2>1 DEF Allowed
  <2>5. work = DoneSoFar(t)' /\ AllowedSoFar(t)'
    BY <1>4, <2>2, <2>3, <2>4 DEF Executes, DoneSoFar, AllowedSoFar, IInv, TypeOK
  <2> QED BY <1>2, <1>4, <2>1, <2>2, <2>5, ExecuteStep, InCall
<1> QED BY <1>1, <1>3, <1>4 DEF upsert_port_counters

-----------------------------------------------------------------------------

\* A crash loses what is pending, and with it every call.
LEMMA CrashStep ==
    ASSUME IInv, Crash
    PROVE  IInv'
<1> USE DEF IInv, Crash
<1>1. TypeOK'
  BY DEF TypeOK, Location, Call, NoCall
<1>2. LockIsExclusive'
  BY SharedConnAssumption DEF LockIsExclusive
<1>3. (\A u \in Thread : pc[u] \in LocationsOf(call[u].op))'
  BY DEF LocationsOf, NoCall
<1>4. CleanWhenUnlocked' /\ PendingIsTheCall'
  BY SharedConnAssumption DEF CleanWhenUnlocked, PendingIsTheCall
<1> QED BY <1>1, <1>2, <1>3, <1>4

\* A read changes nothing but its answer.
LEMMA ReadStep ==
    ASSUME IInv, NEW s \in SwitchId, get_ports(s)
    PROVE  IInv'
<1> USE DEF IInv, get_ports
<1>1. TypeOK'
  BY DEF TypeOK, Database
<1>2. LockIsExclusive' /\ CleanWhenUnlocked'
  BY DEF LockIsExclusive, CleanWhenUnlocked
<1>3. PendingIsTheCall'
  BY DEF PendingIsTheCall, DoneSoFar, AllowedSoFar
<1> QED BY <1>1, <1>2, <1>3

LEMMA InitIInv == Init => IInv
<1> SUFFICES ASSUME Init PROVE IInv
  OBVIOUS
<1>1. <<>> \in Seq(Summary)
  OBVIOUS
<1>2. EmptyDatabase \in Database /\ ReferentialIntegrity(EmptyDatabase)
  BY <1>1 DEF EmptyDatabase, Database, ReferentialIntegrity
<1>3. TypeOK
  BY <1>2 DEF Init, TypeOK, Location, Call, NoCall
<1>4. LockIsExclusive /\ CleanWhenUnlocked /\ PendingIsTheCall
  BY SharedConnAssumption DEF Init, LockIsExclusive, CleanWhenUnlocked, PendingIsTheCall
<1>5. \A t \in Thread : pc[t] \in LocationsOf(call[t].op)
  BY DEF Init, LocationsOf, NoCall
<1> QED BY <1>2, <1>3, <1>4, <1>5 DEF Init, IInv

LEMMA NextIInv ==
    ASSUME UniqueNames, IInv, [Next]_vars
    PROVE  IInv'
<1>1. CASE UNCHANGED vars
  BY <1>1 DEF vars, IInv, TypeOK, LockIsExclusive, CleanWhenUnlocked, PendingIsTheCall,
             DoneSoFar, AllowedSoFar
<1>2. ASSUME NEW t \in Thread, Write(t)
      PROVE  IInv'
  BY <1>2, CreateStep, UpdateStep, DeleteStep, StatusStep, ReplaceStep, SampleStep,
     UpsertStep, CommitStep DEF Write
<1> QED BY <1>1, <1>2, ReadStep, CrashStep DEF Next

\* While the lock is free nothing is pending on the shared connection, so no
\* commit makes another call's half-done work durable and a crash between
\* calls loses nothing (`with lock()` ... conn.commit(), repository.py).
THEOREM SharedConnClean == UniqueNames => (Spec => []CleanWhenUnlocked)
<1> SUFFICES ASSUME UniqueNames PROVE Spec => []CleanWhenUnlocked
  OBVIOUS
<1>1. Init => IInv
  BY InitIInv
<1>2. IInv /\ [Next]_vars => IInv'
  BY NextIInv
<1>3. IInv => CleanWhenUnlocked
  BY DEF IInv
<1> QED BY <1>1, <1>2, <1>3, PTL DEF Spec

\* The invariant itself: type correctness, mutual exclusion, and what is
\* pending at each statement.
THEOREM SharedConnInvariant == UniqueNames => (Spec => []IInv)
<1> SUFFICES ASSUME UniqueNames PROVE Spec => []IInv
  OBVIOUS
<1>1. Init => IInv
  BY InitIInv
<1>2. IInv /\ [Next]_vars => IInv'
  BY NextIInv
<1> QED BY <1>1, <1>2, PTL DEF Spec

-----------------------------------------------------------------------------
(* Refinement. *)

\* A commit is one operation of Store, or nothing: it writes the result of
\* the call, which was allowed on what was committed before.
LEMMA CommitIsOperation ==
    ASSUME UniqueNames, IInv, NEW t \in Thread, Commit(t)
    PROVE  [S!Next]_disk
<1> DEFINE c == call[t]
<1>1. /\ disk' = Result(disk, c) /\ Allowed(disk, c)
      /\ c \in Call /\ c.op # "none" /\ disk \in Database
  BY InCall DEF Commit, DoneSoFar, AllowedSoFar, LocationsOf
<1>2. CASE c.op = "create_switch"
  <2>1. c.ip \in Ip /\ c.method \in Method /\ c.name \in Name \cup {NULL}
    BY <1>1, <1>2, CallFields
  <2>2. S!create_switch(c.ip, c.method, c.name)
    BY <1>1, <1>2 DEF Result, Allowed, S!create_switch, S!CanInsertSwitch,
       CanInsertSwitch, S!InsertSwitch, InsertSwitch, S!NextId, NextId, S!IpFree, IpFree,
          S!Exists, Exists
  <2> QED BY <2>1, <2>2 DEF S!Next
<1>3. CASE c.op = "update_switch"
  <2>1. /\ c.s \in SwitchId /\ c.ip \in Ip \cup {NULL}
        /\ c.method \in Method \cup {NULL} /\ c.name \in Name \cup {NULL}
    BY <1>1, <1>3, CallFields
  <2>2. CASE ~Exists(disk, c.s)
    BY <1>1, <1>3, <2>2 DEF Result, UpdateSwitch
  <2>3. CASE Exists(disk, c.s)
    <3>1. S!update_switch(c.s, c.ip, c.method, c.name)
      BY <1>1, <1>3, <2>3 DEF Result, Allowed, S!update_switch, S!UpdateSwitch,
         UpdateSwitch, S!Coalesce, Coalesce, S!IpFree, IpFree, S!Exists, Exists
    <3> QED BY <2>1, <3>1 DEF S!Next
  <2> QED BY <2>2, <2>3
<1>4. CASE c.op = "delete_switch"
  <2>1. c.s \in SwitchId
    BY <1>1, <1>4, CallFields
  <2>2. S!delete_switch(c.s)
    BY <1>1, <1>4 DEF Result, S!delete_switch, S!DeleteSwitch, DeleteSwitch
  <2> QED BY <2>1, <2>2 DEF S!Next
<1>5. CASE c.op = "set_switch_status"
  <2>1. c.s \in SwitchId /\ c.status \in Status /\ c.name \in Name \cup {NULL}
    BY <1>1, <1>5, CallFields
  <2>2. S!set_switch_status(c.s, c.status, c.name)
    BY <1>1, <1>5 DEF Result, S!set_switch_status, S!UpdateStatus, UpdateStatus,
       S!Coalesce, Coalesce, S!Exists, Exists
  <2> QED BY <2>1, <2>2 DEF S!Next, S!Status, Status
<1>6. CASE c.op = "replace_ports"
  <2>1. c.s \in SwitchId /\ c.list \in PortLists /\ DistinctNames(c.list)
    BY <1>1, <1>6, CallFields DEF UniqueNames
  <2>2. disk' = [disk EXCEPT !.ports[c.s] = ToSet(c.list)]
    BY <1>1, <1>6 DEF Result
  <2>3. CASE Exists(disk, c.s)
    <3>1. S!replace_ports(c.s, c.list)
      BY <2>1, <2>2, <2>3 DEF S!replace_ports, S!ToSet, ToSet, S!DistinctNames, DistinctNames, S!Exists,
         Exists
    <3> QED BY <2>1, <3>1 DEF S!Next
  <2>4. CASE ~Exists(disk, c.s)
    <3>1. c.list = <<>>
      BY <1>1, <1>6, <2>4 DEF Allowed
    <3>2. disk.ports[c.s] = {} /\ ToSet(c.list) = {}
      BY <2>1, <2>4, <3>1 DEF IInv, ReferentialIntegrity, ToSet
    <3>3. disk' = disk
      BY <1>1, <2>1, <2>2, <3>2 DEF Database
    <3> QED BY <3>3
  <2> QED BY <2>3, <2>4
<1>7. CASE c.op = "add_sample"
  <2>1. c.s \in SwitchId /\ c.x \in Summary
    BY <1>1, <1>7, CallFields
  <2>2. S!add_sample(c.s, c.x)
    BY <1>1, <1>7 DEF Result, Allowed, S!add_sample, S!TrimSamples, TrimSamples,
       S!InsertSample, InsertSample, S!Newest, Newest, S!Exists, Exists
  <2> QED BY <2>1, <2>2 DEF S!Next
<1>8. CASE c.op = "upsert_port_counters"
  <2>1. c.s \in SwitchId /\ c.list \in CounterLists /\ DistinctNames(c.list)
    BY <1>1, <1>8, CallFields DEF UniqueNames
  <2>2. S!upsert_port_counters(c.s, c.list)
    BY <1>1, <1>8, <2>1 DEF Result, Allowed, S!upsert_port_counters, S!ToSet, ToSet, S!UpsertRows,
       UpsertRows, S!NamesIn, NamesIn, S!DistinctNames, DistinctNames, S!Exists, Exists
  <2> QED BY <2>1, <2>2 DEF S!Next
<1> QED BY <1>1, <1>2, <1>3, <1>4, <1>5, <1>6, <1>7, <1>8, CallFields

\* Every other step leaves what is committed alone.
LEMMA OtherStepsStutter ==
    ASSUME [Next]_vars, \A t \in Thread : ~Commit(t)
    PROVE  UNCHANGED disk
BY DEF vars, Next, Write, create_switch, update_switch, delete_switch, set_switch_status,
       replace_ports, add_sample, upsert_port_counters, get_ports, Crash, Enter, Executes,
       Raises, Leave

\* The shared connection implements Store: with port lists that name every
\* port once, every write function of repository.py is atomic, whatever the
\* interleaving of threads, reads, failures and crashes.
THEOREM SharedConnImplementsStore == UniqueNames => (Spec => StoreSpec)
<1> SUFFICES ASSUME UniqueNames PROVE Spec => StoreSpec
  OBVIOUS
<1>1. Init => S!Init
  BY DEF Init, S!Init, S!EmptyDatabase, EmptyDatabase
<1>2. IInv /\ [Next]_vars => [S!Next]_disk
  BY CommitIsOperation, OtherStepsStutter
<1>3. Init => IInv
  BY InitIInv
<1>4. IInv /\ [Next]_vars => IInv'
  BY NextIInv
<1> QED BY <1>1, <1>2, <1>3, <1>4, PTL DEF Spec, StoreSpec, S!Spec

-----------------------------------------------------------------------------
(* Reads without the lock. *)

\* A first part of a delivered list, or none of it.
Part(ports) == ports = {} \/ \E list \in PortLists : \E k \in 1 .. Len(list) :
                                 ports = FirstRows(list, k)

PartsOf(d) == \A s \in SwitchId : Part(d.ports[s])

LEMMA FirstRowsArePart ==
    ASSUME NEW list \in PortLists, NEW k \in Nat, k <= Len(list)
    PROVE  Part(FirstRows(list, k)) /\ Part(ToSet(list))
<1>1. list \in Seq(PortRow)
  BY SharedConnAssumption
<1>2. ASSUME NEW n \in Nat, n <= Len(list) PROVE Part(FirstRows(list, n))
  <2>1. CASE n = 0
    BY <1>1, <2>1, FirstRowsProperties DEF Part
  <2>2. CASE n # 0
    <3>1. n \in 1 .. Len(list)
      BY <1>1, <1>2, <2>2
    <3> QED BY <3>1 DEF Part
  <2> QED BY <2>1, <2>2
<1>3. Len(list) \in Nat /\ FirstRows(list, Len(list)) = ToSet(list)
  BY <1>1, FirstRowsProperties
<1> QED BY <1>2, <1>3

\* What is pending has parts of lists because what is on disk has.
LEMMA PendingParts ==
    ASSUME IInv, PartsOf(disk)
    PROVE  PartsOf(work)
<1> SUFFICES ASSUME NEW s \in SwitchId PROVE Part(work.ports[s])
  BY DEF PartsOf
<1>0. disk \in Database /\ Part(disk.ports[s])
  BY DEF IInv, TypeOK, PartsOf
<1>1. CASE holder = NoThread
  BY <1>0, <1>1 DEF IInv, CleanWhenUnlocked
<1>2. CASE holder # NoThread
  <2> PICK t \in Thread : holder = t
    BY <1>2 DEF IInv, TypeOK
  <2> DEFINE c == call[t]
  <2>1. /\ work = DoneSoFar(t) /\ AllowedSoFar(t) /\ c \in Call /\ row[t] \in Nat
        /\ pc[t] # "idle" /\ pc[t] \in LocationsOf(c.op) /\ pc[t] \in Location
    BY DEF IInv, PendingIsTheCall, TypeOK, LockIsExclusive
  <2>2. CASE pc[t] = "insert_ports"
    <3>1. c.s \in SwitchId /\ c.list \in PortLists
      BY <2>1, <2>2, CallFields DEF LocationsOf
    <3>2. Part(FirstRows(c.list, row[t]))
      BY <2>1, <2>2, <3>1, FirstRowsArePart DEF AllowedSoFar
    <3>3. work.ports[s] \in {disk.ports[s], FirstRows(c.list, row[t])}
      BY <1>0, <2>1, <2>2, <3>1 DEF DoneSoFar, Database
    <3> QED BY <1>0, <3>2, <3>3
  <2>3. CASE pc[t] = "commit" /\ c.op = "replace_ports"
    <3>1. c.s \in SwitchId /\ c.list \in PortLists /\ c.list \in Seq(PortRow)
      BY <2>1, <2>3, CallFields, SharedConnAssumption
    <3>2. Part(ToSet(c.list))
      BY <3>1, FirstRowsArePart
    <3>3. work.ports[s] \in {disk.ports[s], ToSet(c.list)}
      BY <1>0, <2>1, <2>3, <3>1 DEF DoneSoFar, Result, Database
    <3> QED BY <1>0, <3>2, <3>3
  <2>4. CASE pc[t] = "commit" /\ c.op = "delete_switch"
    <3>1. work = DeleteSwitch(disk, c.s)
      BY <2>1, <2>4 DEF DoneSoFar, Result
    <3>2. work.ports[s] \in {disk.ports[s], {}}
      BY <1>0, <3>1 DEF DeleteSwitch, Database
    <3> QED BY <1>0, <3>2 DEF Part
  <2>5. CASE pc[t] = "commit" /\ c.op \notin {"replace_ports", "delete_switch"}
    <3>1. work = Result(disk, c)
      BY <2>1, <2>5 DEF DoneSoFar
    <3>2. Result(disk, c).ports = disk.ports
      <4>1. ASSUME NEW x, NEW ip, NEW method, NEW name, NEW status, NEW q, NEW list
            PROVE  /\ InsertSwitch(disk, ip, method, name).ports = disk.ports
                   /\ UpdateSwitch(disk, x, ip, method, name).ports = disk.ports
                   /\ UpdateStatus(disk, x, status, name).ports = disk.ports
                   /\ TrimSamples(InsertSample(disk, x, q), x).ports = disk.ports
                   /\ [disk EXCEPT !.counters[x] = UpsertRows(@, list)].ports = disk.ports
        BY <1>0 DEF InsertSwitch, UpdateSwitch, UpdateStatus, TrimSamples, InsertSample, Database
      <4> QED BY <2>5, <4>1 DEF Result
    <3> QED BY <1>0, <3>1, <3>2
  <2>6. CASE pc[t] \notin {"insert_ports", "commit"}
    <3>1. work.ports = disk.ports
      BY <1>0, <2>1, <2>6 DEF DoneSoFar, InsertSample, Database
    <3> QED BY <1>0, <3>1
  <2> QED BY <2>2, <2>3, <2>4, <2>5, <2>6
<1> QED BY <1>1, <1>2

\* A read that takes no lock gets a first part of one delivered list, never rows of two polls:
\* replace_ports deletes before it inserts, and nothing else inserts (get_ports).
THEOREM SharedConnReads == UniqueNames => (Spec => []AnswerOfOnePoll)
<1> SUFFICES ASSUME UniqueNames PROVE Spec => []AnswerOfOnePoll
  OBVIOUS
<1>1. Init => PartsOf(disk) /\ Part(answer)
  BY DEF Init, EmptyDatabase, PartsOf, Part
<1>2. IInv /\ PartsOf(disk) /\ Part(answer) /\ [Next]_vars => PartsOf(disk)' /\ Part(answer)'
  <2> SUFFICES ASSUME IInv, PartsOf(disk), Part(answer), [Next]_vars
               PROVE  PartsOf(disk)' /\ Part(answer)'
    OBVIOUS
  <2>0. PartsOf(work)
    BY PendingParts
  <2>1. disk' = disk \/ disk' = work
    BY OtherStepsStutter DEF Commit
  <2>2. PartsOf(disk)'
    BY <2>0, <2>1 DEF PartsOf
  <2>3. answer' = answer \/ answer' = {} \/ \E s \in SwitchId : answer' = work.ports[s]
    BY DEF Next, vars, Write, create_switch, update_switch, delete_switch, set_switch_status,
           replace_ports, add_sample, upsert_port_counters, Commit, get_ports, Crash, Enter,
           Executes, Raises, Leave
  <2>4. Part(answer)'
    BY <2>0, <2>3 DEF PartsOf, Part
  <2> QED BY <2>2, <2>4
<1>3. Part(answer) => AnswerOfOnePoll
  BY DEF Part, AnswerOfOnePoll
<1> QED BY <1>1, <1>2, <1>3, SharedConnInvariant, PTL DEF Spec
=============================================================================
