---------------------------- MODULE Poller_proofs ----------------------------
(***************************************************************************)
(* Theorems about polling, for any number of polls and switches: the types *)
(* (TypeOK), that data stays with its switch (OwnData), that a switch      *)
(* shown online has a history (OnlineIsSampled), that every step is an     *)
(* operation of Store (StoreSpec), and what holds of switches whose polls  *)
(* do not overlap (HistoryMatchesLive, CountersMoveForward).  The reason   *)
(* for the first ones is that a poll's switch, once deleted, stays         *)
(* deleted: its id is below the sequence from which new ids come.          *)
(***************************************************************************)
EXTENDS Poller, FiniteSetTheorems, TLAPS

Frames == [ip : Ip, method : Method, name : Name \cup {NULL}]

\* Foreign keys, ids within the sequence, and the address of every row among those it had.
RowsOK == \A s \in SwitchId :
              IF Exists(db, s)
              THEN s <= db.sqlite_sequence /\ db.switches[s].ip \in had[s]
              ELSE db.ports[s] = {} /\ db.samples[s] = <<>> /\ db.counters[s] = {}

\* What is committed of the ports is the switch's own too.
SavedOwn == \A s \in SwitchId :
                IF Exists(db, s)
                THEN \A r \in saved[s] :
                         {r.data.src} \cup {c.src : c \in {r.data.util} \ {NULL}} \subseteq had[s]
                ELSE saved[s] = {}

Steps == {"counters", "replace", "sample", "upsert", "online"}

\* A poll has data of an address its switch has had; past add_sample() the
\* switch has a history or is gone.
Steady(t) ==
    task[t].pc # "idle" =>
        /\ task[t].s \in SwitchId
        /\ task[t].s <= db.sqlite_sequence
        /\ task[t].row \in Frames /\ task[t].row.ip \in had[task[t].s]
        /\ task[t].pc \in Steps =>
               task[t].snap \in Reading /\ task[t].snap.src \in had[task[t].s]
        /\ task[t].util # NULL =>
               task[t].util \in Reading /\ task[t].util.src \in had[task[t].s]
        /\ task[t].pc \in {"upsert", "online"} /\ Exists(db, task[t].s) /\ Retention > 0 =>
               db.samples[task[t].s] # <<>>

Collecting == {t \in Task : task[t].pc = "collect"}

\* Every collection under way may still succeed.
ClockLeft == clock + Cardinality(Collecting) <= MaxClock

IInv == /\ TypeOK
        /\ ClockLeft
        /\ RowsOK
        /\ \A t \in Task : Steady(t)
        /\ OwnData
        /\ OnlineIsSampled
        /\ SavedOwn

-----------------------------------------------------------------------------

\* The retention trim takes its result from the sequence, and leaves something of
\* it if it may (DELETE ... NOT IN (... LIMIT ?), add_sample).
LEMMA NewestOf ==
    ASSUME NEW T, NEW q \in Seq(T), NEW n \in Int
    PROVE  /\ Newest(q, n) \in Seq(T)
           /\ \A i \in 1 .. Len(Newest(q, n)) : \E j \in 1 .. Len(q) : Newest(q, n)[i] = q[j]
           /\ n > 0 /\ q # <<>> => Newest(q, n) # <<>>
<1>1. CASE n < 0 \/ Len(q) <= n
  BY <1>1 DEF Newest
<1>2. CASE ~(n < 0 \/ Len(q) <= n)
  <2> DEFINE a == Len(q) - n + 1
  <2>1. Newest(q, n) = SubSeq(q, a, Len(q))
    BY <1>2 DEF Newest
  <2>2. a \in 1 .. Len(q) + 1 /\ a \in Int
    BY <1>2
  <2> HIDE DEF a
  <2>3. SubSeq(q, a, Len(q)) \in Seq(T)
    BY <2>2
  <2>4. Len(SubSeq(q, a, Len(q))) = Len(q) - a + 1
    BY <2>2
  <2>5. \A i \in 1 .. Len(q) - a + 1 : /\ SubSeq(q, a, Len(q))[i] = q[a + i - 1]
                                       /\ a + i - 1 \in 1 .. Len(q)
    BY <2>2
  <2>6. n > 0 => SubSeq(q, a, Len(q)) # <<>>
    <3>1. n > 0 => Len(SubSeq(q, a, Len(q))) > 0
      BY <1>2, <2>4 DEF a
    <3>2. SUFFICES ASSUME SubSeq(q, a, Len(q)) = <<>> PROVE ~(n > 0)
      OBVIOUS
    <3>3. Len(SubSeq(q, a, Len(q))) = 0
      BY <3>2
    <3> QED BY <3>1, <3>3
  <2>7. \A i \in 1 .. Len(SubSeq(q, a, Len(q))) :
            \E j \in 1 .. Len(q) : SubSeq(q, a, Len(q))[i] = q[j]
    BY <2>4, <2>5
  <2> QED BY <2>1, <2>3, <2>6, <2>7
<1> QED BY <1>1, <1>2

\* What a step must leave to the polls it does not move: addresses only come in
\* addition, a switch does not come back, and a history does not vanish under its switch.
Grows ==
    /\ db.sqlite_sequence <= db'.sqlite_sequence
    /\ \A s \in SwitchId : s <= db.sqlite_sequence =>
           /\ had[s] \subseteq had'[s]
           /\ Exists(db', s) => Exists(db, s)
           /\ Exists(db', s) /\ db.samples[s] # <<>> /\ Retention > 0 => db'.samples[s] # <<>>

LEMMA OthersSteady ==
    ASSUME TypeOK, TypeOK', Grows, NEW t \in Task, Steady(t), task'[t] = task[t]
    PROVE  Steady(t)'
<1> SUFFICES ASSUME task[t].pc # "idle" PROVE Steady(t)'
  BY DEF Steady
<1> DEFINE s == task[t].s
<1>1. /\ s \in SwitchId /\ s <= db.sqlite_sequence
      /\ db.sqlite_sequence \in Nat /\ db'.sqlite_sequence \in Nat /\ s \in Nat
  BY TablesAssumption DEF Steady, TypeOK, Database
<1>2. /\ had[s] \subseteq had'[s]
      /\ Exists(db', s) => Exists(db, s)
      /\ Exists(db', s) /\ db.samples[s] # <<>> /\ Retention > 0 => db'.samples[s] # <<>>
      /\ s <= db'.sqlite_sequence
  BY <1>1 DEF Grows
<1> HIDE DEF s
<1> QED BY <1>1, <1>2 DEF Steady, s

\* What is committed stays of its type and of its switch.
SavedFine == /\ saved' \in [SwitchId -> SUBSET PortRow] /\ partial' \subseteq SwitchId
             /\ SavedOwn'

\* A commit takes over tables that are as they must be ...
LEMMA CommitsFine ==
    ASSUME TypeOK, Commits, db' \in Database, RowsOK', OwnData'
    PROVE  SavedFine
BY DEF TypeOK, Commits, Database, RowsOK, OwnData, SavedOwn, SavedFine

\* ... and as long as no row comes or goes, what was committed may remain.
LEMMA UnsavedFine ==
    ASSUME IInv, had' = had, db'.switches = db.switches, saved' = saved, partial' \subseteq SwitchId
    PROVE  SavedFine
BY DEF IInv, TypeOK, SavedOwn, SavedFine, Exists

LEMMA InitInv == Init => IInv
<1> SUFFICES ASSUME Init PROVE IInv
  OBVIOUS
<1> USE PollerAssumption, TablesAssumption
<1>1. TypeOK
  <2>1. <<>> \in Seq(Summary)
    OBVIOUS
  <2>2. EmptyDatabase \in Database
    BY <2>1 DEF EmptyDatabase, Database
  <2>3. NoTask \in TaskState
    BY DEF NoTask, TaskState, Location
  <2>4. db \in Database
    BY <2>2 DEF Init
  <2>5. task \in [Task -> TaskState]
    BY <2>3 DEF Init
  <2>6. /\ clock \in 0 .. MaxClock /\ had \in [SwitchId -> SUBSET Ip] /\ overlap \subseteq SwitchId
        /\ saved \in [SwitchId -> SUBSET PortRow] /\ partial \subseteq SwitchId
    BY DEF Init, EmptyDatabase
  <2>7. crashes \in BOOLEAN
    BY DEF Init
  <2> QED BY <2>4, <2>5, <2>6, <2>7 DEF TypeOK
<1>2. ClockLeft
  <2>1. Collecting = {}
    BY DEF Init, Collecting, NoTask
  <2> QED BY <2>1, FS_EmptySet DEF Init, ClockLeft
<1>3. RowsOK /\ OwnData /\ OnlineIsSampled /\ SavedOwn
  BY DEF Init, EmptyDatabase, Exists, RowsOK, OwnData, OnlineIsSampled, SavedOwn
<1>4. \A t \in Task : Steady(t)
  BY DEF Init, NoTask, Steady
<1> QED BY <1>1, <1>2, <1>3, <1>4 DEF IInv

-----------------------------------------------------------------------------
(* Requests *)

LEMMA CreateInv == IInv /\ api_create_switch => IInv'
<1> SUFFICES ASSUME IInv,
                    NEW ip \in Ip, NEW method \in Method, NEW name \in Name \cup {NULL},
                    CanInsertSwitch(db, ip),
                    db' = InsertSwitch(db, ip, method, name),
                    had' = [had EXCEPT ![NextId(db)] = {ip}],
                    UNCHANGED <<task, clock, crashes, overlap>>, Commits
             PROVE  IInv'
  BY DEF api_create_switch
<1> USE TablesAssumption
<1> DEFINE n  == NextId(db)
           rw == [ip |-> ip, method |-> method, name |-> name, status |-> "unknown"]
<1>1. /\ n \in SwitchId /\ n \in Nat /\ n = db.sqlite_sequence + 1
      /\ db.sqlite_sequence \in Nat
  BY DEF CanInsertSwitch, NextId, IInv, TypeOK, Database
<1>2. rw \in SwitchRow /\ rw # NoSwitch /\ rw.ip = ip
  BY DEF SwitchRow, Status
<1>3. /\ db' = [db EXCEPT !.switches[n] = rw, !.sqlite_sequence = n]
      /\ had' = [had EXCEPT ![n] = {ip}]
  BY DEF InsertSwitch
<1> HIDE DEF n, rw
<1>4. /\ db'.switches = [db.switches EXCEPT ![n] = rw]
      /\ db'.ports = db.ports /\ db'.samples = db.samples /\ db'.counters = db.counters
      /\ db'.sqlite_sequence = n
  BY <1>3 DEF IInv, TypeOK, Database
<1>5. TypeOK'
  <2>0. db \in Database /\ had \in [SwitchId -> SUBSET Ip]
    BY DEF IInv, TypeOK
  <2>1. /\ db.switches \in [SwitchId -> SwitchRow \cup {NoSwitch}]
        /\ [db.switches EXCEPT ![n] = rw] \in [SwitchId -> SwitchRow \cup {NoSwitch}]
    BY <2>0, <1>1, <1>2 DEF Database
  <2>2. db' \in Database
    BY <2>0, <2>1, <1>1, <1>3 DEF Database
  <2>3. had' \in [SwitchId -> SUBSET Ip]
    <3>1. {ip} \in SUBSET Ip
      OBVIOUS
    <3> QED BY <3>1, <2>0, <1>1, <1>3
  <2>4. saved' \in [SwitchId -> SUBSET PortRow] /\ partial' \subseteq SwitchId
    BY <2>2 DEF Commits, Database, IInv, TypeOK
  <2> QED BY <2>2, <2>3, <2>4 DEF IInv, TypeOK
<1>6. \A s \in SwitchId :
          /\ db'.switches[s] = IF s = n THEN rw ELSE db.switches[s]
          /\ had'[s] = IF s = n THEN {ip} ELSE had[s]
          /\ s \in Nat
  BY <1>1, <1>3, <1>4 DEF IInv, TypeOK, Database
<1>7. \A s \in SwitchId : Exists(db', s) <=> s = n \/ Exists(db, s)
  BY <1>2, <1>6 DEF Exists
<1>8. ~Exists(db, n)
  BY <1>1 DEF IInv, RowsOK
<1>9. RowsOK'
  BY <1>1, <1>2, <1>4, <1>6, <1>7 DEF IInv, RowsOK
<1>10. db.ports[n] = {} /\ db.samples[n] = <<>> /\ db.counters[n] = {}
  BY <1>1, <1>8 DEF IInv, RowsOK
<1>11. OwnData'
  <2> SUFFICES ASSUME NEW s \in SwitchId, Exists(db', s)
               PROVE  /\ \A r \in db.ports[s] :
                             {r.data.src} \cup {c.src : c \in {r.data.util} \ {NULL}} \subseteq had'[s]
                      /\ \A i \in 1 .. Len(db.samples[s]) : db.samples[s][i].src \in had'[s]
                      /\ \A r \in db.counters[s] : r.value.src \in had'[s]
    BY <1>4 DEF OwnData
  <2>1. CASE s = n
    BY <2>1, <1>10
  <2>2. CASE s # n
    BY <2>2, <1>6, <1>7 DEF IInv, OwnData
  <2> QED BY <2>1, <2>2
<1>12. OnlineIsSampled'
  <2>1. rw.status = "unknown"
    BY DEF rw
  <2> QED BY <1>4, <1>6, <1>7, <2>1 DEF IInv, OnlineIsSampled
<1>13. Grows
  BY <1>1, <1>4, <1>6, <1>7 DEF Grows
<1>14. ASSUME NEW t \in Task PROVE Steady(t)'
  BY <1>5, <1>13, OthersSteady DEF IInv
<1>15. ClockLeft'
  BY DEF IInv, ClockLeft, Collecting
<1>16. SavedOwn'
  BY <1>5, <1>9, <1>11, CommitsFine DEF IInv, TypeOK, SavedFine
<1> QED BY <1>5, <1>9, <1>11, <1>12, <1>14, <1>15, <1>16 DEF IInv

\* A row that changes in place keeps what was polled under its id.
LEMMA RowChange ==
    ASSUME TypeOK, RowsOK, OwnData, OnlineIsSampled,
           NEW s \in SwitchId, Exists(db, s), NEW rw \in SwitchRow,
           rw.status = "online" /\ Retention > 0 => db.samples[s] # <<>>,
           db' = [db EXCEPT !.switches[s] = rw],
           had' = [had EXCEPT ![s] = @ \cup {rw.ip}]
    PROVE  /\ db' \in Database /\ had' \in [SwitchId -> SUBSET Ip]
           /\ RowsOK' /\ OwnData' /\ OnlineIsSampled' /\ Grows
<1> USE TablesAssumption
<1>1. /\ db \in Database /\ had \in [SwitchId -> SUBSET Ip]
      /\ db.sqlite_sequence \in Nat
  BY DEF TypeOK, Database
<1>2. /\ db'.switches = [db.switches EXCEPT ![s] = rw]
      /\ db'.ports = db.ports /\ db'.samples = db.samples /\ db'.counters = db.counters
      /\ db'.sqlite_sequence = db.sqlite_sequence
  BY <1>1 DEF Database
<1>3. db' \in Database
  <2>1. [db.switches EXCEPT ![s] = rw] \in [SwitchId -> SwitchRow \cup {NoSwitch}]
    BY <1>1 DEF Database
  <2> QED BY <1>1, <2>1 DEF Database
<1>4. had' \in [SwitchId -> SUBSET Ip]
  <2>1. had[s] \cup {rw.ip} \in SUBSET Ip
    BY <1>1 DEF SwitchRow
  <2> QED BY <1>1, <2>1
<1>5. rw # NoSwitch
  OBVIOUS
<1>6. \A r \in SwitchId :
          /\ db'.switches[r] = IF r = s THEN rw ELSE db.switches[r]
          /\ had'[r] = IF r = s THEN had[r] \cup {rw.ip} ELSE had[r]
          /\ r \in Nat
  BY <1>1, <1>2 DEF Database
<1>7. \A r \in SwitchId : (Exists(db', r) <=> Exists(db, r)) /\ had[r] \subseteq had'[r]
  BY <1>5, <1>6 DEF Exists
<1>8. RowsOK'
  BY <1>2, <1>6, <1>7 DEF RowsOK
<1>9. OwnData'
  <2> SUFFICES ASSUME NEW r \in SwitchId, Exists(db', r)
               PROVE  /\ \A q \in db.ports[r] :
                             {q.data.src} \cup {c.src : c \in {q.data.util} \ {NULL}} \subseteq had'[r]
                      /\ \A i \in 1 .. Len(db.samples[r]) : db.samples[r][i].src \in had'[r]
                      /\ \A q \in db.counters[r] : q.value.src \in had'[r]
    BY <1>2 DEF OwnData
  <2>1. Exists(db, r) /\ had[r] \subseteq had'[r]
    BY <1>7
  <2>2. /\ \A q \in db.ports[r] :
              {q.data.src} \cup {c.src : c \in {q.data.util} \ {NULL}} \subseteq had[r]
        /\ \A i \in 1 .. Len(db.samples[r]) : db.samples[r][i].src \in had[r]
        /\ \A q \in db.counters[r] : q.value.src \in had[r]
    BY <2>1 DEF OwnData
  <2> QED BY <2>1, <2>2
<1>10. OnlineIsSampled'
  BY <1>2, <1>6, <1>7 DEF OnlineIsSampled
<1>11. Grows
  BY <1>1, <1>2, <1>7 DEF Grows
<1> QED BY <1>3, <1>4, <1>8, <1>9, <1>10, <1>11

LEMMA UpdateInv == ASSUME IInv, NEW s \in SwitchId, api_update_switch(s) PROVE IInv'
<1> PICK ip \in Ip \cup {NULL}, method \in Method \cup {NULL}, name \in Name \cup {NULL} :
        /\ Exists(db, s)
        /\ db' = UpdateSwitch(db, s, ip, method, name)
        /\ had' = [had EXCEPT ![s] = @ \cup {db'.switches[s].ip}]
        /\ UNCHANGED <<task, clock, crashes, overlap>>
        /\ Commits
  BY DEF api_update_switch
<1> DEFINE rw == [ip     |-> Coalesce(ip, db.switches[s].ip),
                  method |-> Coalesce(method, db.switches[s].method),
                  name   |-> Coalesce(name, db.switches[s].name),
                  status |-> db.switches[s].status]
<1>1. db \in Database /\ db.switches[s] \in SwitchRow
  BY DEF IInv, TypeOK, Database, Exists
<1>2. rw \in SwitchRow /\ rw.status = db.switches[s].status
  BY <1>1 DEF SwitchRow, Coalesce
<1>3. db' = [db EXCEPT !.switches[s] = rw]
  BY DEF UpdateSwitch
<1> HIDE DEF rw
<1>4. had' = [had EXCEPT ![s] = @ \cup {rw.ip}]
  <2>1. db'.switches[s] = rw
    BY <1>1, <1>3 DEF Database
  <2> QED BY <2>1
<1>5. rw.status = "online" /\ Retention > 0 => db.samples[s] # <<>>
  BY <1>2 DEF IInv, OnlineIsSampled
<1>6. /\ db' \in Database /\ had' \in [SwitchId -> SUBSET Ip]
      /\ RowsOK' /\ OwnData' /\ OnlineIsSampled' /\ Grows
  BY <1>2, <1>3, <1>4, <1>5, RowChange DEF IInv
<1>10. SavedFine
  BY <1>6, CommitsFine DEF IInv
<1>7. TypeOK'
  BY <1>6, <1>10 DEF IInv, TypeOK, SavedFine
<1>8. ASSUME NEW t \in Task PROVE Steady(t)'
  BY <1>6, <1>7, OthersSteady DEF IInv
<1>9. ClockLeft'
  BY DEF IInv, ClockLeft, Collecting
<1> QED BY <1>6, <1>7, <1>8, <1>9, <1>10 DEF IInv, SavedFine

LEMMA DeleteInv == ASSUME IInv, NEW s \in SwitchId, api_delete_switch(s) PROVE IInv'
<1> USE TablesAssumption
<1>1. /\ db \in Database /\ db.sqlite_sequence \in Nat
      /\ UNCHANGED <<task, clock, had, crashes, overlap>> /\ Commits
  BY DEF api_delete_switch, IInv, TypeOK, Database
<1>2. /\ db'.switches = [db.switches EXCEPT ![s] = NoSwitch]
      /\ db'.ports = [db.ports EXCEPT ![s] = {}]
      /\ db'.samples = [db.samples EXCEPT ![s] = <<>>]
      /\ db'.counters = [db.counters EXCEPT ![s] = {}]
      /\ db'.sqlite_sequence = db.sqlite_sequence
  BY <1>1 DEF api_delete_switch, DeleteSwitch, Database
<1>3. db' \in Database
  <2>1. <<>> \in Seq(Summary)
    OBVIOUS
  <2>2. /\ [db.switches EXCEPT ![s] = NoSwitch] \in [SwitchId -> SwitchRow \cup {NoSwitch}]
        /\ [db.ports EXCEPT ![s] = {}] \in [SwitchId -> SUBSET PortRow]
        /\ [db.samples EXCEPT ![s] = <<>>] \in [SwitchId -> Seq(Summary)]
        /\ [db.counters EXCEPT ![s] = {}] \in [SwitchId -> SUBSET CounterRow]
    BY <1>1, <2>1 DEF Database
  <2> QED BY <1>1, <2>2 DEF api_delete_switch, DeleteSwitch, Database
<1>4. TypeOK'
  <2>1. saved' \in [SwitchId -> SUBSET PortRow] /\ partial' \subseteq SwitchId
    BY <1>1, <1>3 DEF Commits, Database, IInv, TypeOK
  <2> QED BY <1>1, <1>3, <2>1 DEF IInv, TypeOK
<1>5. \A r \in SwitchId :
          /\ r # s => /\ db'.switches[r] = db.switches[r] /\ db'.ports[r] = db.ports[r]
                      /\ db'.samples[r] = db.samples[r] /\ db'.counters[r] = db.counters[r]
          /\ r = s => /\ db'.switches[r] = NoSwitch /\ db'.ports[r] = {}
                      /\ db'.samples[r] = <<>> /\ db'.counters[r] = {}
  BY <1>1, <1>2 DEF Database
<1>6. \A r \in SwitchId : Exists(db', r) <=> Exists(db, r) /\ r # s
  BY <1>5 DEF Exists
<1>7. RowsOK'
  BY <1>1, <1>2, <1>5, <1>6 DEF IInv, RowsOK
<1>8. OwnData'
  BY <1>1, <1>5, <1>6 DEF IInv, OwnData
<1>9. OnlineIsSampled'
  BY <1>5, <1>6 DEF IInv, OnlineIsSampled
<1>10. Grows
  <2>1. db.sqlite_sequence <= db'.sqlite_sequence
    BY <1>1, <1>2
  <2>2. ASSUME NEW r \in SwitchId, Exists(db', r)
        PROVE  Exists(db, r) /\ db'.samples[r] = db.samples[r]
    BY <2>2, <1>5, <1>6
  <2>3. had' = had
    BY <1>1
  <2> QED BY <2>1, <2>2, <2>3 DEF Grows
<1>11. ASSUME NEW t \in Task PROVE Steady(t)'
  BY <1>1, <1>4, <1>10, OthersSteady DEF IInv
<1>12. ClockLeft'
  BY <1>1 DEF IInv, ClockLeft, Collecting
<1>13. SavedOwn'
  BY <1>1, <1>3, <1>7, <1>8, CommitsFine DEF IInv, SavedFine
<1> QED BY <1>4, <1>7, <1>8, <1>9, <1>11, <1>12, <1>13 DEF IInv

-----------------------------------------------------------------------------
(* Polls *)

LEMMA CollectingFinite == IsFiniteSet(Collecting) /\ Cardinality(Collecting) \in Nat
<1>1. Collecting \subseteq Task
  BY DEF Collecting
<1>2. IsFiniteSet(Collecting)
  BY <1>1, PollerAssumption, FS_Subset
<1> QED BY <1>2, FS_CardinalityType

\* A step of one poll, when its own frame and the tables are as they must be.
LEMMA OneMoves ==
    ASSUME IInv, NEW t \in Task, NEW f \in TaskState, task' = [task EXCEPT ![t] = f],
           db' \in Database, had' = had, crashes' = crashes, overlap' \subseteq SwitchId,
           clock' \in 0 .. MaxClock, ClockLeft', Grows,
           RowsOK', OwnData', OnlineIsSampled', SavedFine, Steady(t)'
    PROVE  IInv'
<1>1. task' \in [Task -> TaskState]
  BY DEF IInv, TypeOK
<1>2. had' \in [SwitchId -> SUBSET Ip] /\ crashes' \in BOOLEAN
  BY DEF IInv, TypeOK
<1>3. TypeOK'
  BY <1>1, <1>2 DEF TypeOK, SavedFine
<1>4. ASSUME NEW u \in Task PROVE Steady(u)'
  <2>1. CASE u = t
    BY <2>1
  <2>2. CASE u # t
    <3>1. task'[u] = task[u]
      BY <2>2 DEF IInv, TypeOK
    <3> QED BY <3>1, <1>3, OthersSteady DEF IInv
  <2> QED BY <2>1, <2>2
<1> QED BY <1>3, <1>4 DEF IInv, SavedFine

\* As long as no collection starts, as many may succeed as before.
LEMMA ClockStays ==
    ASSUME IInv, NEW t \in Task, NEW f \in TaskState, task' = [task EXCEPT ![t] = f],
           f.pc # "collect", clock' = clock
    PROVE  ClockLeft'
<1>1. Collecting' \subseteq Collecting
  BY DEF Collecting, IInv, TypeOK
<1>2. Cardinality(Collecting') <= Cardinality(Collecting) /\ Cardinality(Collecting') \in Nat
  BY <1>1, CollectingFinite, FS_Subset, FS_CardinalityType
<1> QED BY <1>2, CollectingFinite, PollerAssumption DEF IInv, TypeOK, ClockLeft

\* What holds of the tables holds as long as they do not change.
LEMMA TablesStay ==
    ASSUME IInv, db' = db, had' = had
    PROVE  db' \in Database /\ RowsOK' /\ OwnData' /\ OnlineIsSampled' /\ Grows
<1>1. db' \in Database /\ db.sqlite_sequence \in Nat
  BY DEF IInv, TypeOK, Database
<1>2. RowsOK' /\ OwnData' /\ OnlineIsSampled'
  BY DEF IInv, RowsOK, OwnData, OnlineIsSampled
<1> QED BY <1>1, <1>2 DEF Grows

\* A poll that ends leaves the others as they are.
LEMMA EndsInv ==
    ASSUME IInv, NEW t \in Task, Ends(t),
           UNCHANGED <<db, clock, had, crashes, overlap, saved, partial>>
    PROVE  IInv'
<1>1. NoTask \in TaskState /\ NoTask.pc = "idle"
  BY DEF NoTask, TaskState, Location
<1>2. task' = [task EXCEPT ![t] = NoTask]
  BY DEF Ends
<1>3. Steady(t)'
  BY <1>1, <1>2 DEF Steady, IInv, TypeOK
<1>4. ClockLeft'
  BY <1>1, <1>2, ClockStays
<1>5. SavedFine
  BY UnsavedFine DEF IInv, TypeOK
<1> QED BY <1>1, <1>2, <1>3, <1>4, <1>5, TablesStay, OneMoves DEF IInv, TypeOK

\* A crash leaves the tables with the ports that were committed.
LEMMA CrashInv == IInv /\ Crash => IInv'
<1> SUFFICES ASSUME IInv, Crash PROVE IInv'
  OBVIOUS
<1>1. NoTask \in TaskState /\ NoTask.pc = "idle"
  BY DEF NoTask, TaskState, Location
<1>2. /\ task' = [t \in Task |-> NoTask] /\ had' = had /\ clock' = clock
      /\ db \in Database /\ saved \in [SwitchId -> SUBSET PortRow]
      /\ db' = [db EXCEPT !.ports = saved] /\ UNCHANGED <<overlap, saved, partial>>
  BY DEF Crash, IInv, TypeOK
<1>3. \A t \in Task : Steady(t)'
  BY <1>1, <1>2 DEF Steady
<1>4. ClockLeft'
  <2>1. Collecting' = {}
    BY <1>1, <1>2 DEF Collecting
  <2> QED BY <2>1, <1>2, FS_EmptySet, PollerAssumption DEF IInv, TypeOK, ClockLeft
<1>5. db' \in Database
  BY <1>2 DEF Database
<1>6. TypeOK'
  <2>1. task' \in [Task -> TaskState]
    BY <1>1, <1>2
  <2>2. crashes' \in BOOLEAN
    BY DEF Crash
  <2> QED BY <1>2, <1>5, <2>1, <2>2 DEF IInv, TypeOK
<1>7. /\ db'.switches = db.switches /\ db'.samples = db.samples /\ db'.counters = db.counters
      /\ db'.sqlite_sequence = db.sqlite_sequence /\ db'.ports = saved
  BY <1>2 DEF Database
<1>8. \A s \in SwitchId : Exists(db', s) <=> Exists(db, s)
  BY <1>7 DEF Exists
<1>9. RowsOK' /\ OwnData' /\ OnlineIsSampled' /\ SavedOwn'
  BY <1>2, <1>7, <1>8 DEF IInv, RowsOK, OwnData, OnlineIsSampled, SavedOwn
<1> QED BY <1>3, <1>4, <1>6, <1>9 DEF IInv

LEMMA StartInv == ASSUME IInv, NEW t \in Task, NEW s \in SwitchId, StartPoll(t, s) PROVE IInv'
<1> USE TablesAssumption, PollerAssumption
<1> DEFINE f == [NoTask EXCEPT !.pc = "collect", !.s = s, !.row = Frame(db.switches[s])]
<1>1. /\ task[t].pc = "idle" /\ Exists(db, s)
      /\ clock + Cardinality(Collecting) < MaxClock
      /\ task' = [task EXCEPT ![t] = f]
      /\ UNCHANGED <<db, clock, had, crashes, saved, partial>>
  BY DEF StartPoll, Collecting
<1>2. Frame(db.switches[s]) \in Frames /\ Frame(db.switches[s]).ip \in had[s]
  <2>1. db.switches[s] \in SwitchRow
    BY <1>1 DEF IInv, TypeOK, Database, Exists
  <2>2. db.switches[s].ip \in had[s]
    BY <1>1 DEF IInv, RowsOK
  <2> QED BY <2>1, <2>2 DEF Frame, Frames, SwitchRow
<1>3. /\ f \in TaskState
      /\ f.pc = "collect" /\ f.s = s /\ f.util = NULL /\ f.row = Frame(db.switches[s])
  BY <1>2 DEF NoTask, TaskState, Location, Frames
<1> HIDE DEF f
<1>4. task'[t] = f
  BY <1>1 DEF IInv, TypeOK
<1>5. Steady(t)'
  BY <1>1, <1>2, <1>3, <1>4 DEF Steady, Steps, IInv, RowsOK
<1>6. ClockLeft'
  <2>1. Collecting' = Collecting \cup {t} /\ t \notin Collecting
    BY <1>1, <1>3, <1>4 DEF Collecting, IInv, TypeOK
  <2>2. Cardinality(Collecting') = Cardinality(Collecting) + 1
    BY <2>1, CollectingFinite, FS_AddElement
  <2> QED BY <1>1, <2>2, CollectingFinite DEF IInv, TypeOK, ClockLeft
<1>7. overlap' \subseteq SwitchId
  BY DEF StartPoll, IInv, TypeOK
<1>8. SavedFine
  BY <1>1, UnsavedFine DEF IInv, TypeOK
<1> QED BY <1>1, <1>3, <1>5, <1>6, <1>7, <1>8, TablesStay, OneMoves DEF IInv, TypeOK

LEMMA CollectInv == ASSUME IInv, NEW t \in Task, Collect(t) PROVE IInv'
<1> USE PollerAssumption
<1> PICK octets \in BOOLEAN :
        task' = [task EXCEPT ![t].pc = "counters",
                             ![t].snap = [src |-> task[t].row.ip, at |-> clock'],
                             ![t].octets = octets]
  BY DEF Collect
<1> DEFINE snap == [src |-> task[t].row.ip, at |-> clock']
           f == [task[t] EXCEPT !.pc = "counters", !.snap = snap, !.octets = octets]
<1>1. task[t].pc = "collect" /\ clock' = clock + 1
      /\ UNCHANGED <<db, had, crashes, overlap, saved, partial>>
  BY DEF Collect
<1>2. task[t] \in TaskState /\ task[t].row \in Frames /\ task[t].row.ip \in had[task[t].s]
  BY <1>1 DEF IInv, TypeOK, Steady
<1>3. t \in Collecting /\ Collecting' = Collecting \ {t}
  BY DEF Collecting, Collect, IInv, TypeOK, TaskState
<1>4. Cardinality(Collecting') = Cardinality(Collecting) - 1
  BY <1>3, CollectingFinite, FS_RemoveElement
<1>5. ClockLeft' /\ clock' \in 0 .. MaxClock /\ clock' \in 1 .. MaxClock
  <2>1. Cardinality(Collecting) >= 1
    BY <1>3, <1>4, CollectingFinite, FS_RemoveElement, FS_CardinalityType
  <2> QED BY <1>1, <1>4, <2>1, CollectingFinite DEF IInv, TypeOK, ClockLeft
<1>6. snap \in Reading /\ snap.src = task[t].row.ip
  BY <1>2, <1>5 DEF Reading, Frames
<1> HIDE DEF snap
<1>7. /\ f \in TaskState /\ f.pc = "counters" /\ f.snap = snap
      /\ f.s = task[t].s /\ f.row = task[t].row /\ f.util = task[t].util
  BY <1>2, <1>6 DEF TaskState, Location
<1>8. task' = [task EXCEPT ![t] = f]
  BY DEF IInv, TypeOK, TaskState, snap
<1> HIDE DEF f
<1>9. task'[t] = f
  BY <1>8 DEF IInv, TypeOK
<1>10. Steady(t)'
  BY <1>1, <1>2, <1>6, <1>7, <1>9 DEF IInv, Steady
<1>11. SavedFine
  BY <1>1, UnsavedFine DEF IInv, TypeOK
<1> QED BY <1>1, <1>5, <1>7, <1>8, <1>10, <1>11, TablesStay, OneMoves DEF IInv, TypeOK

LEMMA CollectFailsInv == ASSUME IInv, NEW t \in Task, CollectFails(t) PROVE IInv'
<1> DEFINE f == [task[t] EXCEPT !.pc = "unreachable"]
<1>1. task[t].pc = "collect" /\ UNCHANGED <<db, clock, had, crashes, overlap, saved, partial>>
  BY DEF CollectFails
<1>2. task[t] \in TaskState
  BY DEF IInv, TypeOK
<1>3. /\ f \in TaskState /\ f.pc = "unreachable"
      /\ f.s = task[t].s /\ f.row = task[t].row /\ f.util = task[t].util
  BY <1>2 DEF TaskState, Location
<1>4. task' = [task EXCEPT ![t] = f]
  BY DEF CollectFails, Goes
<1> HIDE DEF f
<1>5. task'[t] = f
  BY <1>4 DEF IInv, TypeOK
<1>6. Steady(t)'
  BY <1>1, <1>3, <1>5 DEF IInv, Steady, Steps
<1>7. ClockLeft'
  BY <1>1, <1>3, <1>4, ClockStays
<1>8. SavedFine
  BY <1>1, UnsavedFine DEF IInv, TypeOK
<1> QED BY <1>1, <1>3, <1>4, <1>6, <1>7, <1>8, TablesStay, OneMoves DEF IInv, TypeOK

\* The counters that a utilisation starts from are the switch's own.
LEMMA ApplyInv == ASSUME IInv, NEW t \in Task, ApplyCounters(t) PROVE IInv'
<1> USE PollerAssumption
<1>1. task[t].pc = "counters" /\ UNCHANGED <<db, clock, had, crashes, overlap, saved, partial>>
  BY DEF ApplyCounters
<1>2. PICK util \in {c \in {r.value : r \in {q \in db.counters[task[t].s] : q.name = p}} :
                        task[t].octets /\ c.at < task[t].snap.at} \cup {NULL} :
          task' = [task EXCEPT ![t].pc = "replace", ![t].util = util]
  BY DEF ApplyCounters
<1>3. task[t] \in TaskState /\ task[t].s \in SwitchId
  BY <1>1 DEF IInv, TypeOK, Steady
<1>4. util # NULL => util \in Reading /\ util.src \in had[task[t].s]
  <2> SUFFICES ASSUME util # NULL PROVE util \in Reading /\ util.src \in had[task[t].s]
    OBVIOUS
  <2>1. PICK r \in db.counters[task[t].s] : r.value = util
    BY <1>2
  <2>2. r \in CounterRow
    BY <1>3 DEF IInv, TypeOK, Database
  <2>3. Exists(db, task[t].s)
    BY <1>3 DEF IInv, RowsOK
  <2>4. r.value.src \in had[task[t].s]
    BY <1>3, <2>3 DEF IInv, OwnData
  <2> QED BY <2>1, <2>2, <2>4 DEF CounterRow
<1> DEFINE f == [task[t] EXCEPT !.pc = "replace", !.util = util]
<1>5. /\ f \in TaskState /\ f.pc = "replace" /\ f.util = util
      /\ f.s = task[t].s /\ f.row = task[t].row /\ f.snap = task[t].snap
  BY <1>3, <1>4 DEF TaskState, Location
<1>6. task' = [task EXCEPT ![t] = f]
  BY <1>2, <1>3 DEF IInv, TypeOK, TaskState
<1> HIDE DEF f
<1>7. task'[t] = f
  BY <1>6 DEF IInv, TypeOK
<1>8. Steady(t)'
  BY <1>1, <1>4, <1>5, <1>7 DEF IInv, Steady, Steps
<1>9. ClockLeft'
  BY <1>1, <1>5, <1>6, ClockStays
<1>10. SavedFine
  BY <1>1, UnsavedFine DEF IInv, TypeOK
<1> QED BY <1>1, <1>5, <1>6, <1>8, <1>9, <1>10, TablesStay, OneMoves DEF IInv, TypeOK

\* A status write is a change of the row, with the name given or the one it has.
LEMMA StatusChange ==
    ASSUME IInv, NEW s \in SwitchId, NEW status \in Status, NEW name \in Name \cup {NULL},
           db' = UpdateStatus(db, s, status, name), had' = had,
           Exists(db, s) /\ status = "online" /\ Retention > 0 => db.samples[s] # <<>>
    PROVE  db' \in Database /\ RowsOK' /\ OwnData' /\ OnlineIsSampled' /\ Grows
<1>1. CASE ~Exists(db, s)
  <2>1. db' = db
    BY <1>1 DEF UpdateStatus
  <2> QED BY <2>1, TablesStay
<1>2. CASE Exists(db, s)
  <2> DEFINE rw == [ip |-> db.switches[s].ip, method |-> db.switches[s].method,
                    name |-> Coalesce(name, db.switches[s].name), status |-> status]
  <2>1. db.switches[s] \in SwitchRow /\ db.switches[s].ip \in had[s]
    BY <1>2 DEF IInv, TypeOK, Database, Exists, RowsOK
  <2>2. rw \in SwitchRow /\ rw.status = status /\ rw.ip = db.switches[s].ip
    BY <2>1 DEF SwitchRow, Coalesce
  <2>3. db' = [db EXCEPT !.switches[s] = rw]
    BY <1>2 DEF UpdateStatus
  <2> HIDE DEF rw
  <2>4. had[s] \cup {rw.ip} = had[s]
    BY <2>1, <2>2
  <2>5. had' = [had EXCEPT ![s] = @ \cup {rw.ip}]
    BY <2>4 DEF IInv, TypeOK
  <2> QED BY <1>2, <2>2, <2>3, <2>5, RowChange DEF IInv
<1> QED BY <1>1, <1>2

LEMMA UnreachableInv == ASSUME IInv, NEW t \in Task, MarkUnreachable(t) PROVE IInv'
<1>1. /\ task[t].pc = "unreachable" /\ UNCHANGED <<clock, had, crashes, overlap>>
      /\ db' = UpdateStatus(db, task[t].s, "unreachable", NULL)
      /\ task' = [task EXCEPT ![t] = NoTask] /\ Commits
  BY DEF MarkUnreachable, Ends
<1>2. task[t].s \in SwitchId
  BY <1>1 DEF IInv, Steady
<1>3. db' \in Database /\ RowsOK' /\ OwnData' /\ OnlineIsSampled' /\ Grows
  BY <1>1, <1>2, StatusChange DEF Status
<1>4. NoTask \in TaskState /\ NoTask.pc = "idle"
  BY DEF NoTask, TaskState, Location
<1>5. Steady(t)'
  BY <1>1, <1>4 DEF Steady, IInv, TypeOK
<1>6. ClockLeft'
  BY <1>1, <1>4, ClockStays
<1>7. SavedFine
  BY <1>1, <1>3, CommitsFine DEF IInv
<1> QED BY <1>1, <1>3, <1>4, <1>5, <1>6, <1>7, OneMoves DEF IInv, TypeOK

LEMMA OnlineInv == ASSUME IInv, NEW t \in Task, MarkOnline(t) PROVE IInv'
<1>1. PICK name \in Name \cup {NULL} : db' = UpdateStatus(db, task[t].s, "online", name)
  BY DEF MarkOnline
<1>2. /\ task[t].pc = "online" /\ UNCHANGED <<clock, had, crashes, overlap>>
      /\ task' = [task EXCEPT ![t] = NoTask] /\ Commits
  BY DEF MarkOnline, Ends
<1>3. /\ task[t].s \in SwitchId
      /\ Exists(db, task[t].s) /\ Retention > 0 => db.samples[task[t].s] # <<>>
  BY <1>2 DEF IInv, Steady
<1>4. db' \in Database /\ RowsOK' /\ OwnData' /\ OnlineIsSampled' /\ Grows
  BY <1>1, <1>2, <1>3, StatusChange DEF Status
<1>5. NoTask \in TaskState /\ NoTask.pc = "idle"
  BY DEF NoTask, TaskState, Location
<1>6. Steady(t)'
  BY <1>2, <1>5 DEF Steady, IInv, TypeOK
<1>7. ClockLeft'
  BY <1>2, <1>5, ClockStays
<1>8. SavedFine
  BY <1>2, <1>4, CommitsFine DEF IInv
<1> QED BY <1>2, <1>4, <1>5, <1>6, <1>7, <1>8, OneMoves DEF IInv, TypeOK

\* A poll's write of rows of its switch.
LEMMA DataChange ==
    ASSUME IInv, NEW s \in SwitchId, Exists(db, s), had' = had, db' \in Database,
           db'.switches = db.switches, db'.sqlite_sequence = db.sqlite_sequence,
           \A r \in SwitchId \ {s} : /\ db'.ports[r] = db.ports[r]
                                     /\ db'.samples[r] = db.samples[r]
                                     /\ db'.counters[r] = db.counters[r],
           db.samples[s] # <<>> /\ Retention > 0 => db'.samples[s] # <<>>,
           \A q \in db'.ports[s] :
               {q.data.src} \cup {c.src : c \in {q.data.util} \ {NULL}} \subseteq had[s],
           \A i \in 1 .. Len(db'.samples[s]) : db'.samples[s][i].src \in had[s],
           \A q \in db'.counters[s] : q.value.src \in had[s]
    PROVE  RowsOK' /\ OwnData' /\ OnlineIsSampled' /\ Grows
<1>1. \A r \in SwitchId : Exists(db', r) <=> Exists(db, r)
  BY DEF Exists
<1>2. RowsOK'
  BY <1>1 DEF IInv, RowsOK
<1>3. OwnData'
  <2> SUFFICES ASSUME NEW r \in SwitchId, Exists(db', r)
               PROVE  /\ \A q \in db'.ports[r] :
                             {q.data.src} \cup {c.src : c \in {q.data.util} \ {NULL}} \subseteq had[r]
                      /\ \A i \in 1 .. Len(db'.samples[r]) : db'.samples[r][i].src \in had[r]
                      /\ \A q \in db'.counters[r] : q.value.src \in had[r]
    BY DEF OwnData
  <2>1. CASE r = s
    BY <2>1
  <2>2. CASE r # s
    BY <2>2, <1>1 DEF IInv, OwnData
  <2> QED BY <2>1, <2>2
<1>4. OnlineIsSampled'
  BY <1>1 DEF IInv, OnlineIsSampled
<1>5. Grows
  <2>1. db.sqlite_sequence <= db'.sqlite_sequence
    BY DEF IInv, TypeOK, Database
  <2> QED BY <2>1, <1>1 DEF Grows
<1> QED BY <1>2, <1>3, <1>4, <1>5

LEMMA ReplaceInv == ASSUME IInv, NEW t \in Task, ReplacePorts(t) PROVE IInv'
<1> USE PollerAssumption
<1> DEFINE s    == task[t].s
           data == [src |-> task[t].snap.src, at |-> task[t].snap.at, util |-> task[t].util]
           g    == [task[t] EXCEPT !.pc = "sample"]
<1>1. task[t].pc = "replace" /\ UNCHANGED <<clock, had, crashes, overlap>>
  BY DEF ReplacePorts
<1>2. CASE ~Exists(db, s)
  <2>1. Ends(t) /\ UNCHANGED <<db, saved, partial>>
    BY <1>2 DEF ReplacePorts
  <2> QED BY <1>1, <2>1, EndsInv
<1>3. CASE Exists(db, s)
  <2>1. /\ db' = [db EXCEPT !.ports[s] = {[name |-> p, data |-> data]}]
        /\ \/ Goes(t, "sample") /\ saved' = db'.ports /\ partial' = partial \ {s}
           \/ Ends(t) /\ UNCHANGED saved /\ partial' = partial \cup {s}
    BY <1>3 DEF ReplacePorts
  <2>2. /\ task[t] \in TaskState /\ s \in SwitchId
        /\ task[t].snap \in Reading /\ task[t].snap.src \in had[s]
        /\ task[t].util # NULL => task[t].util \in Reading /\ task[t].util.src \in had[s]
    BY <1>1 DEF IInv, TypeOK, Steady, Steps
  <2>3. data \in Readings
    BY <2>2 DEF Readings, Reading
  <2>4. /\ g \in TaskState /\ g.pc = "sample" /\ g.snap = task[t].snap
        /\ g.s = s /\ g.row = task[t].row /\ g.util = task[t].util
        /\ NoTask \in TaskState /\ NoTask.pc = "idle"
    BY <2>2 DEF TaskState, Location, NoTask
  <2>5. PICK f \in {g, NoTask} : task' = [task EXCEPT ![t] = f]
    BY <2>1 DEF Goes, Ends
  <2>6. {data.src} \cup {c.src : c \in {data.util} \ {NULL}} \subseteq had[s]
    BY <2>2
  <2> HIDE DEF data, g, NoTask
  <2>7. [name |-> p, data |-> data] \in PortRow
    BY <2>3 DEF PortRow
  <2>8. /\ db'.switches = db.switches /\ db'.sqlite_sequence = db.sqlite_sequence
        /\ db'.samples = db.samples /\ db'.counters = db.counters
        /\ db'.ports = [db.ports EXCEPT ![s] = {[name |-> p, data |-> data]}]
        /\ db.ports \in [SwitchId -> SUBSET PortRow] /\ db \in Database
    BY <2>1 DEF IInv, TypeOK, Database
  <2>9. db' \in Database
    <3>1. db'.ports \in [SwitchId -> SUBSET PortRow]
      BY <2>2, <2>7, <2>8
    <3> QED BY <2>1, <2>8, <3>1 DEF Database
  <2>10. /\ \A q \in db'.ports[s] :
                {q.data.src} \cup {c.src : c \in {q.data.util} \ {NULL}} \subseteq had[s]
         /\ \A r \in SwitchId \ {s} : db'.ports[r] = db.ports[r]
    BY <2>2, <2>6, <2>8
  <2>11. /\ \A i \in 1 .. Len(db.samples[s]) : db.samples[s][i].src \in had[s]
         /\ \A q \in db.counters[s] : q.value.src \in had[s]
    BY <1>3, <2>2 DEF IInv, OwnData
  <2>12. RowsOK' /\ OwnData' /\ OnlineIsSampled' /\ Grows
    BY <1>1, <1>3, <2>2, <2>8, <2>9, <2>10, <2>11, DataChange
  <2>13. task'[t] = f
    BY <2>5 DEF IInv, TypeOK
  <2>14. Steady(t)'
    BY <1>1, <2>2, <2>4, <2>8, <2>13 DEF IInv, Steady, Steps
  <2>15. ClockLeft'
    BY <1>1, <2>4, <2>5, ClockStays
  <2>16. SavedFine
    <3>1. partial' \subseteq SwitchId
      BY <2>1, <2>2 DEF IInv, TypeOK
    <3>2. CASE saved' = saved
      BY <1>1, <2>8, <3>1, <3>2, UnsavedFine
    <3>3. CASE saved' = db'.ports
      BY <2>9, <2>12, <3>1, <3>3 DEF Database, RowsOK, OwnData, SavedOwn, SavedFine
    <3> QED BY <2>1, <3>2, <3>3
  <2>17. f \in TaskState
    BY <2>4, <2>5
  <2> QED BY <1>1, <2>5, <2>9, <2>12, <2>14, <2>15, <2>16, <2>17, OneMoves DEF IInv, TypeOK
<1> QED BY <1>2, <1>3

LEMMA SampleInv == ASSUME IInv, NEW t \in Task, AddSample(t) PROVE IInv'
<1> USE PollerAssumption, TablesAssumption
<1> DEFINE s    == task[t].s
           q    == Append(db.samples[s], task[t].snap)
           rows == Newest(q, Retention)
           f    == [task[t] EXCEPT !.pc = IF task[t].octets THEN "upsert" ELSE "online"]
<1>1. task[t].pc = "sample" /\ UNCHANGED <<clock, had, crashes, overlap>>
  BY DEF AddSample
<1>2. CASE ~Exists(db, s)
  <2>1. Ends(t) /\ UNCHANGED <<db, saved, partial>>
    BY <1>2 DEF AddSample
  <2> QED BY <1>1, <2>1, EndsInv
<1>3. CASE Exists(db, s)
  <2>1. /\ db' = TrimSamples(InsertSample(db, s, task[t].snap), s)
        /\ Goes(t, IF task[t].octets THEN "upsert" ELSE "online") /\ Commits
    BY <1>3 DEF AddSample
  <2>2. /\ task[t] \in TaskState /\ s \in SwitchId
        /\ task[t].snap \in Reading /\ task[t].snap.src \in had[s]
    BY <1>1 DEF IInv, TypeOK, Steady, Steps
  <2>3. /\ f \in TaskState /\ f.pc \in {"upsert", "online"} /\ f.snap = task[t].snap
        /\ f.s = s /\ f.row = task[t].row /\ f.util = task[t].util
    BY <2>2 DEF TaskState, Location
  <2>4. task' = [task EXCEPT ![t] = f]
    BY <2>1 DEF Goes
  <2>5. db.samples[s] \in Seq(Summary) /\ db \in Database
    BY <2>2 DEF IInv, TypeOK, Database
  <2>6. /\ q \in Seq(Summary) /\ q # <<>> /\ Len(q) = Len(db.samples[s]) + 1
        /\ \A i \in 1 .. Len(q) :
               q[i] = IF i = Len(q) THEN task[t].snap ELSE db.samples[s][i]
    <3> DEFINE h == db.samples[s]
               x == task[t].snap
    <3>1. h \in Seq(Summary) /\ x \in Summary
      BY <2>2, <2>5
    <3> HIDE DEF h, x
    <3>2. Append(h, x) \in Seq(Summary) /\ Len(Append(h, x)) = Len(h) + 1 /\ Len(h) \in Nat
      BY <3>1
    <3>3. \A i \in 1 .. Len(h) + 1 : Append(h, x)[i] = IF i = Len(h) + 1 THEN x ELSE h[i]
      BY <3>1
    <3>4. Append(h, x) # <<>>
      BY <3>2
    <3> QED BY <3>2, <3>3, <3>4 DEF h, x
  <2>7. \A i \in 1 .. Len(q) : q[i].src \in had[s]
    <3>1. \A i \in 1 .. Len(db.samples[s]) : db.samples[s][i].src \in had[s]
      BY <1>3, <2>2 DEF IInv, OwnData
    <3>2. \A i \in 1 .. Len(q) : i = Len(q) \/ i \in 1 .. Len(db.samples[s])
      BY <2>5, <2>6
    <3> HIDE DEF q
    <3> QED BY <2>2, <2>6, <3>1, <3>2
  <2> HIDE DEF q, f
  <2>8. /\ rows \in Seq(Summary)
        /\ \A i \in 1 .. Len(rows) : \E j \in 1 .. Len(q) : rows[i] = q[j]
        /\ Retention > 0 => rows # <<>>
    BY <2>6, NewestOf
  <2>9. \A i \in 1 .. Len(rows) : rows[i].src \in had[s]
    BY <2>7, <2>8
  <2>10. /\ db'.switches = db.switches /\ db'.sqlite_sequence = db.sqlite_sequence
         /\ db'.ports = db.ports /\ db'.counters = db.counters
         /\ db'.samples = [db.samples EXCEPT ![s] = rows]
    BY <2>1, <2>2, <2>5 DEF TrimSamples, InsertSample, Database, q
  <2> HIDE DEF rows
  <2>11. db' \in Database
    <3>1. db'.samples \in [SwitchId -> Seq(Summary)]
      BY <2>2, <2>5, <2>8, <2>10 DEF Database
    <3> QED BY <2>1, <2>5, <2>10, <3>1 DEF TrimSamples, InsertSample, Database
  <2>12. /\ db'.samples[s] = rows
         /\ \A r \in SwitchId \ {s} : db'.samples[r] = db.samples[r]
    BY <2>2, <2>5, <2>10 DEF Database
  <2>13. /\ \A x \in db.ports[s] :
                {x.data.src} \cup {c.src : c \in {x.data.util} \ {NULL}} \subseteq had[s]
         /\ \A x \in db.counters[s] : x.value.src \in had[s]
    BY <1>3, <2>2 DEF IInv, OwnData
  <2>14. RowsOK' /\ OwnData' /\ OnlineIsSampled' /\ Grows
    BY <1>1, <1>3, <2>2, <2>8, <2>9, <2>10, <2>11, <2>12, <2>13, DataChange
  <2>15. task'[t] = f
    BY <2>4 DEF IInv, TypeOK
  <2>16. Steady(t)'
    BY <1>1, <2>2, <2>3, <2>8, <2>10, <2>12, <2>15 DEF IInv, Steady, Steps
  <2>17. ClockLeft'
    BY <1>1, <2>3, <2>4, ClockStays
  <2>18. SavedFine
    BY <2>1, <2>11, <2>14, CommitsFine DEF IInv
  <2> QED BY <1>1, <2>3, <2>4, <2>11, <2>14, <2>16, <2>17, <2>18, OneMoves DEF IInv, TypeOK
<1> QED BY <1>2, <1>3

LEMMA UpsertInv == ASSUME IInv, NEW t \in Task, UpsertCounters(t) PROVE IInv'
<1> USE PollerAssumption
<1> DEFINE s   == task[t].s
           row == [name |-> p, value |-> task[t].snap]
           f   == [task[t] EXCEPT !.pc = "online"]
<1>1. task[t].pc = "upsert" /\ UNCHANGED <<clock, had, crashes, overlap>>
  BY DEF UpsertCounters
<1>2. CASE ~Exists(db, s)
  <2>1. Ends(t) /\ UNCHANGED <<db, saved, partial>>
    BY <1>2 DEF UpsertCounters
  <2> QED BY <1>1, <2>1, EndsInv
<1>3. CASE Exists(db, s)
  <2>1. db' = UpsertCounter(db, s, row) /\ Goes(t, "online") /\ Commits
    BY <1>3 DEF UpsertCounters
  <2>2. /\ task[t] \in TaskState /\ s \in SwitchId
        /\ task[t].snap \in Reading /\ task[t].snap.src \in had[s]
        /\ Retention > 0 => db.samples[s] # <<>>
    BY <1>1, <1>3 DEF IInv, TypeOK, Steady, Steps
  <2>3. /\ f \in TaskState /\ f.pc = "online" /\ f.snap = task[t].snap
        /\ f.s = s /\ f.row = task[t].row /\ f.util = task[t].util
    BY <2>2 DEF TaskState, Location
  <2>4. task' = [task EXCEPT ![t] = f]
    BY <2>1 DEF Goes
  <2>5. row \in CounterRow /\ row.value = task[t].snap
    BY <2>2 DEF CounterRow
  <2> HIDE DEF row, f
  <2>6. /\ db.counters \in [SwitchId -> SUBSET CounterRow] /\ db \in Database
        /\ UpsertRow(db.counters[s], row) \subseteq db.counters[s] \cup {row}
    BY DEF IInv, TypeOK, Database, UpsertRow
  <2>7. /\ db'.switches = db.switches /\ db'.sqlite_sequence = db.sqlite_sequence
        /\ db'.ports = db.ports /\ db'.samples = db.samples
        /\ db'.counters = [db.counters EXCEPT ![s] = UpsertRow(db.counters[s], row)]
    BY <2>1, <2>6 DEF UpsertCounter, Database
  <2>8. db' \in Database
    <3>1. UpsertRow(db.counters[s], row) \in SUBSET CounterRow
      BY <2>2, <2>5, <2>6
    <3>2. db'.counters \in [SwitchId -> SUBSET CounterRow]
      BY <2>6, <2>7, <3>1
    <3> QED BY <2>1, <2>6, <2>7, <3>2 DEF UpsertCounter, Database
  <2>9. /\ db'.counters[s] \subseteq db.counters[s] \cup {row}
        /\ \A r \in SwitchId \ {s} : db'.counters[r] = db.counters[r]
    BY <2>2, <2>6, <2>7
  <2>10. /\ \A x \in db.ports[s] :
                {x.data.src} \cup {c.src : c \in {x.data.util} \ {NULL}} \subseteq had[s]
         /\ \A i \in 1 .. Len(db.samples[s]) : db.samples[s][i].src \in had[s]
         /\ \A x \in db'.counters[s] : x.value.src \in had[s]
    BY <1>3, <2>2, <2>5, <2>9 DEF IInv, OwnData
  <2>11. RowsOK' /\ OwnData' /\ OnlineIsSampled' /\ Grows
    BY <1>1, <1>3, <2>2, <2>7, <2>8, <2>9, <2>10, DataChange
  <2>12. task'[t] = f
    BY <2>4 DEF IInv, TypeOK
  <2>13. Steady(t)'
    BY <1>1, <2>2, <2>3, <2>7, <2>12 DEF IInv, Steady, Steps
  <2>14. ClockLeft'
    BY <1>1, <2>3, <2>4, ClockStays
  <2>15. SavedFine
    BY <2>1, <2>8, <2>11, CommitsFine DEF IInv
  <2> QED BY <1>1, <2>3, <2>4, <2>8, <2>11, <2>13, <2>14, <2>15, OneMoves DEF IInv, TypeOK
<1> QED BY <1>2, <1>3

-----------------------------------------------------------------------------

\* Another writer's commit takes over what is in the tables.
LEMMA CommitInv == IInv /\ OtherCommit => IInv'
<1> SUFFICES ASSUME IInv, OtherCommit PROVE IInv'
  OBVIOUS
<1>1. UNCHANGED <<db, task, clock, had, crashes, overlap>> /\ Commits
  BY DEF OtherCommit
<1>2. db' \in Database /\ RowsOK' /\ OwnData' /\ OnlineIsSampled'
  BY <1>1, TablesStay
<1>3. SavedFine
  BY <1>1, <1>2, CommitsFine DEF IInv
<1>4. TypeOK' /\ ClockLeft' /\ \A t \in Task : Steady(t)'
  BY <1>1, <1>3 DEF IInv, TypeOK, ClockLeft, Collecting, Steady, SavedFine
<1> QED BY <1>2, <1>3, <1>4 DEF IInv, SavedFine

LEMMA StepInv == IInv /\ [Next]_vars => IInv'
<1> SUFFICES ASSUME IInv, [Next]_vars PROVE IInv'
  OBVIOUS
<1>1. CASE UNCHANGED vars
  <2>1. TypeOK' /\ ClockLeft' /\ SavedOwn' /\ \A t \in Task : Steady(t)'
    BY <1>1 DEF vars, IInv, TypeOK, ClockLeft, Collecting, Steady, SavedOwn
  <2> QED BY <1>1, <2>1, TablesStay DEF vars, IInv
<1>2. CASE \E s \in SwitchId : api_update_switch(s) \/ api_delete_switch(s)
  BY <1>2, UpdateInv, DeleteInv
<1>3. ASSUME NEW t \in Task, UnsupportedMethod(t) PROVE IInv'
  BY <1>3, EndsInv DEF UnsupportedMethod
<1>4. ASSUME NEW t \in Task, PollStep(t) PROVE IInv'
  BY <1>3, <1>4, CollectFailsInv, CollectInv, UnreachableInv, ApplyInv, ReplaceInv, SampleInv,
     UpsertInv, OnlineInv DEF PollStep
<1> QED BY <1>1, <1>2, <1>4, CreateInv, StartInv, CommitInv, CrashInv DEF Next

\* A deleted switch stays deleted, its id being below the sequence: so what a poll in flight
\* has in hand belongs to the switch it was started with, or to none (poll_switch).
THEOREM PollerInv == Spec => []IInv
<1> QED BY InitInv, StepInv, PTL DEF Spec

\* The types: the database stays well formed under polls, requests and crashes, and every
\* collection under way finds a reading left.
THEOREM PollerType == Spec => []TypeOK
<1>1. IInv => TypeOK
  BY DEF IInv
<1> QED BY <1>1, PollerInv, PTL

\* For any number of polls and switches: a switch holds only data of devices at addresses
\* it has had, although polls go on with rows of switches that were deleted or readdressed.
THEOREM PollerOwnData == Spec => []OwnData
<1>1. IInv => OwnData
  BY DEF IInv
<1> QED BY <1>1, PollerInv, PTL

\* For any number of polls and switches, crashes and overlaps included: a switch shown
\* online has a history (set_switch_status comes last in poll_switch).
THEOREM PollerOnline == Spec => []OnlineIsSampled
<1>1. IInv => OnlineIsSampled
  BY DEF IInv
<1> QED BY <1>1, PollerInv, PTL

-----------------------------------------------------------------------------
(* Polling is built from the operations of Store. *)

\* A list of one row.
LEMMA OneRow ==
    ASSUME NEW row
    PROVE  /\ S!ToSet(<<row>>) = {row}
           /\ S!DistinctNames(<<row>>)
BY DEF S!ToSet, S!DistinctNames

LEMMA CreateIsStore == api_create_switch => S!Next
BY DEF api_create_switch, S!Next, S!create_switch, S!CanInsertSwitch, CanInsertSwitch,
       S!InsertSwitch, InsertSwitch, S!NextId, NextId, S!IpFree, IpFree, S!Exists, Exists

LEMMA UpdateIsStore == ASSUME NEW s \in SwitchId, api_update_switch(s) PROVE S!Next
<1>1. PICK ip \in Ip \cup {NULL}, method \in Method \cup {NULL}, name \in Name \cup {NULL} :
          /\ ip # NULL => IpFree(db, s, ip)
          /\ db' = UpdateSwitch(db, s, ip, method, name)
  BY DEF api_update_switch
<1>2. S!update_switch(s, ip, method, name)
  BY <1>1 DEF S!update_switch, S!IpFree, IpFree, S!Exists, Exists, S!UpdateSwitch, UpdateSwitch,
              S!Coalesce, Coalesce
<1> QED BY <1>2 DEF S!Next

LEMMA DeleteIsStore == ASSUME NEW s \in SwitchId, api_delete_switch(s) PROVE S!Next
BY DEF api_delete_switch, S!Next, S!delete_switch, S!DeleteSwitch, DeleteSwitch

LEMMA StatusIsStore ==
    ASSUME NEW s \in SwitchId, NEW status \in Status, NEW name \in Name \cup {NULL},
           db' = UpdateStatus(db, s, status, name)
    PROVE  S!Next
<1>1. S!set_switch_status(s, status, name)
  BY DEF S!set_switch_status, S!UpdateStatus, UpdateStatus, S!Exists, Exists, S!Coalesce, Coalesce
<1>2. status \in S!Status
  BY DEF S!Status, Status
<1> QED BY <1>1, <1>2 DEF S!Next

LEMMA ReplaceIsStore ==
    ASSUME IInv, NEW t \in Task, ReplacePorts(t), Exists(db, task[t].s) PROVE S!Next
<1> DEFINE s == task[t].s
           data == [src |-> task[t].snap.src, at |-> task[t].snap.at, util |-> task[t].util]
           row == [name |-> p, data |-> data]
<1>1. s \in SwitchId /\ task[t].snap \in Reading /\ task[t].util \in Reading \cup {NULL}
  BY DEF ReplacePorts, IInv, Steady, Steps, TypeOK, TaskState
<1>2. data \in PortData
  BY <1>1, PollerAssumption DEF Reading, Readings
<1>3. db' = [db EXCEPT !.ports[s] = {row}]
  BY DEF ReplacePorts
<1>4. <<row>> \in {<<[name |-> p, data |-> d]>> : d \in PortData}
  BY <1>2
<1> HIDE DEF row, data
<1>5. S!replace_ports(s, <<row>>)
  BY <1>3, OneRow DEF S!replace_ports, S!Exists, Exists
<1> QED BY <1>1, <1>4, <1>5 DEF S!Next

LEMMA SampleIsStore ==
    ASSUME IInv, NEW t \in Task, AddSample(t), Exists(db, task[t].s) PROVE S!Next
<1>1. task[t].s \in SwitchId /\ task[t].snap \in Summary
  BY PollerAssumption DEF AddSample, IInv, Steady, Steps
<1>2. S!add_sample(task[t].s, task[t].snap)
  BY DEF AddSample, S!add_sample, S!TrimSamples, TrimSamples, S!InsertSample, InsertSample,
         S!Newest, Newest, S!Exists, Exists
<1> QED BY <1>1, <1>2 DEF S!Next

LEMMA UpsertIsStore ==
    ASSUME IInv, NEW t \in Task, UpsertCounters(t), Exists(db, task[t].s) PROVE S!Next
<1> DEFINE s == task[t].s
           row == [name |-> p, value |-> task[t].snap]
<1>1. s \in SwitchId /\ task[t].snap \in Counter
  BY PollerAssumption DEF UpsertCounters, IInv, Steady, Steps
<1>2. db' = UpsertCounter(db, s, row)
  BY DEF UpsertCounters
<1>3. <<row>> \in {<<[name |-> p, value |-> c]>> : c \in Counter}
  BY <1>1
<1> HIDE DEF row
<1>4. S!UpsertRows(db.counters[s], {row}) = UpsertRow(db.counters[s], row)
  BY DEF S!UpsertRows, S!NamesIn, UpsertRow
<1>5. db' = [db EXCEPT !.counters[s] = S!UpsertRows(db.counters[s], S!ToSet(<<row>>))]
  BY <1>2, <1>4, OneRow DEF UpsertCounter
<1>6. S!upsert_port_counters(s, <<row>>)
  BY <1>5, OneRow DEF S!upsert_port_counters, S!Exists, Exists
<1> QED BY <1>1, <1>3, <1>6 DEF S!Next

LEMMA PollIsStore == ASSUME IInv, NEW t \in Task, PollStep(t) PROVE S!Next \/ UNCHANGED db
<1>0. task[t].pc # "idle" => task[t].s \in SwitchId
  BY DEF IInv, Steady
<1>1. ASSUME UnsupportedMethod(t) \/ CollectFails(t) \/ Collect(t) \/ ApplyCounters(t)
      PROVE  UNCHANGED db
  BY <1>1 DEF UnsupportedMethod, CollectFails, Collect, ApplyCounters
<1>2. ASSUME MarkUnreachable(t) PROVE S!Next
  BY <1>0, <1>2, StatusIsStore DEF MarkUnreachable, Status
<1>3. ASSUME MarkOnline(t) PROVE S!Next
  <2>1. PICK name \in Name \cup {NULL} : db' = UpdateStatus(db, task[t].s, "online", name)
    BY <1>3 DEF MarkOnline
  <2> QED BY <1>0, <1>3, <2>1, StatusIsStore DEF MarkOnline, Status
<1>4. ASSUME ReplacePorts(t) PROVE S!Next \/ UNCHANGED db
  BY <1>4, ReplaceIsStore DEF ReplacePorts
<1>5. ASSUME AddSample(t) PROVE S!Next \/ UNCHANGED db
  BY <1>5, SampleIsStore DEF AddSample
<1>6. ASSUME UpsertCounters(t) PROVE S!Next \/ UNCHANGED db
  BY <1>6, UpsertIsStore DEF UpsertCounters
<1> QED BY <1>1, <1>2, <1>3, <1>4, <1>5, <1>6 DEF PollStep

\* Without a list that breaks off, every call leaves what it wrote committed.
LEMMA AllSaved ==
    ASSUME UniqueNames, IInv, saved = db.ports, [Next]_vars
    PROVE  saved' = db'.ports
<1>1. CASE UNCHANGED vars
  BY <1>1 DEF vars
<1>2. ASSUME NEW t \in Task, NEW s \in SwitchId, StartPoll(t, s) PROVE saved' = db'.ports
  BY <1>2 DEF StartPoll
<1>3. Crash => saved' = db'.ports
  BY DEF Crash, IInv, TypeOK, Database
<1>4. OtherCommit => saved' = db'.ports
  BY DEF OtherCommit, Commits
<1>5. api_create_switch \/ (\E s \in SwitchId : api_update_switch(s) \/ api_delete_switch(s)) =>
          saved' = db'.ports
  BY DEF api_create_switch, api_update_switch, api_delete_switch, Commits
<1>6. ASSUME NEW t \in Task, PollStep(t) PROVE saved' = db'.ports
  <2>1. CASE UnsupportedMethod(t) \/ CollectFails(t) \/ Collect(t) \/ ApplyCounters(t)
    BY <2>1 DEF UnsupportedMethod, CollectFails, Collect, ApplyCounters
  <2>2. CASE MarkUnreachable(t) \/ MarkOnline(t)
    BY <2>2 DEF MarkUnreachable, MarkOnline, Commits
  <2>3. CASE AddSample(t) \/ UpsertCounters(t)
    BY <2>3 DEF AddSample, UpsertCounters, Commits
  <2>4. CASE ReplacePorts(t)
    BY <2>4 DEF ReplacePorts, UniqueNames
  <2> QED BY <1>6, <2>1, <2>2, <2>3, <2>4 DEF PollStep
<1> QED BY <1>1, <1>2, <1>3, <1>4, <1>5, <1>6 DEF Next

\* For any number of polls and switches whose lists name no port twice: whatever poll_switch(), the
\* switch handlers and crashes do to the database is one of repository.py's operations, as Store
\* promises them and SharedConn delivers them.
THEOREM PollerImplementsStore == ASSUME UniqueNames PROVE Spec => StoreSpec
<1> DEFINE Committed == saved = db.ports
<1>1. Init => S!Init /\ Committed
  BY DEF Init, S!Init, S!EmptyDatabase, EmptyDatabase
<1>2. IInv /\ Committed /\ [Next]_vars => Committed'
  BY AllSaved
<1>3. IInv /\ Committed /\ [Next]_vars => [S!Next]_db
  <2> SUFFICES ASSUME IInv, saved = db.ports, [Next]_vars PROVE S!Next \/ UNCHANGED db
    OBVIOUS
  <2>1. CASE UNCHANGED vars
    BY <2>1 DEF vars
  <2>2. ASSUME NEW t \in Task, NEW s \in SwitchId, StartPoll(t, s) PROVE UNCHANGED db
    BY <2>2 DEF StartPoll
  <2>3. Crash => UNCHANGED db
    BY DEF Crash, IInv, TypeOK, Database
  <2>4. OtherCommit => UNCHANGED db
    BY DEF OtherCommit
  <2> QED BY <2>1, <2>2, <2>3, <2>4, CreateIsStore, UpdateIsStore, DeleteIsStore, PollIsStore
          DEF Next
<1> HIDE DEF Committed
<1> QED BY <1>1, <1>2, <1>3, PollerInv, PTL DEF Spec, StoreSpec, S!Spec

-----------------------------------------------------------------------------
(* Polls that do not overlap. *)

\* Two polls of a switch at once are noted.
One == \A t, u \in Task :
           /\ task[t].pc # "idle" /\ task[u].pc # "idle"
           /\ task[t].s = task[u].s /\ task[t].s \notin overlap
           => t = u

\* A switch has one counter row, read no later than now.
CountersPast == \A s \in SwitchId : \A r \in db.counters[s] :
                    r.value.at <= clock /\ \A q \in db.counters[s] : q = r

\* What a poll is about to keep was read after what is kept ...
Later(t) ==
    task[t].pc \in Steps =>
        /\ task[t].snap.at <= clock
        /\ task[t].pc # "online" /\ task[t].s \notin overlap =>
               \A r \in db.counters[task[t].s] : r.value.at < task[t].snap.at

\* ... and between its two writes the ports shown are its own.
Shown(t) ==
    task[t].pc = "sample" /\ task[t].s \notin overlap =>
        \A r \in db.ports[task[t].s] :
            r.data.src = task[t].snap.src /\ r.data.at = task[t].snap.at

NoneSamples(s) == \A t \in Task : task[t].s = s => task[t].pc # "sample"

\* Outside of them the latest sample is of the ports shown, but for a list that broke off.
Matches(s) ==
    s \notin overlap \cup partial /\ Exists(db, s) /\ ~crashes /\ db.samples[s] # <<>> /\ NoneSamples(s) =>
        \A r \in db.ports[s] :
            db.samples[s][Len(db.samples[s])] = [src |-> r.data.src, at |-> r.data.at]

ApartInv == /\ One
            /\ CountersPast
            /\ \A t \in Task : Later(t) /\ Shown(t)
            /\ \A s \in SwitchId : Matches(s)

\* What the trim keeps last is what was last.
LEMMA NewestLast ==
    ASSUME NEW T, NEW q \in Seq(T), NEW n \in Int, Newest(q, n) # <<>>
    PROVE  Newest(q, n)[Len(Newest(q, n))] = q[Len(q)]
<1>1. CASE n < 0 \/ Len(q) <= n
  BY <1>1 DEF Newest
<1>2. CASE ~(n < 0 \/ Len(q) <= n)
  <2> DEFINE a == Len(q) - n + 1
             b == SubSeq(q, a, Len(q))
  <2>1. Newest(q, n) = b
    BY <1>2 DEF Newest
  <2>2. a \in 1 .. Len(q) + 1 /\ a \in Int
    BY <1>2
  <2> HIDE DEF a
  <2>3. Len(b) = Len(q) - a + 1 /\ b \in Seq(T)
    BY <2>2
  <2>4. \A i \in 1 .. Len(q) - a + 1 : b[i] = q[a + i - 1]
    BY <2>2
  <2> HIDE DEF b
  <2>5. Len(b) # 0
    <3>1. SUFFICES ASSUME Len(b) = 0 PROVE FALSE
      OBVIOUS
    <3>2. b = <<>>
      BY <2>3, <3>1
    <3> QED BY <2>1, <3>2
  <2>6. b[Len(q) - a + 1] = q[a + (Len(q) - a + 1) - 1] /\ a + (Len(q) - a + 1) - 1 = Len(q)
    BY <2>2, <2>3, <2>4, <2>5
  <2> QED BY <2>1, <2>3, <2>6
<1> QED BY <1>1, <1>2

LEMMA InitApart == Init => ApartInv
<1> SUFFICES ASSUME Init PROVE ApartInv
  OBVIOUS
<1> QED BY DEF Init, EmptyDatabase, NoTask, ApartInv, One, CountersPast, Later, Shown, Matches, Steps

\* The numbers of an invariant state.
LEMMA Times ==
    ASSUME IInv
    PROVE  /\ clock \in Nat
           /\ \A t \in Task : task[t].pc \in Steps =>
                  task[t].snap \in Reading /\ task[t].snap.at \in Nat /\ task[t].s \in SwitchId
           /\ \A s \in SwitchId : \A r \in db.counters[s] : r.value.at \in Nat /\ r.name = p
<1> USE PollerAssumption
<1>1. clock \in Nat
  BY DEF IInv, TypeOK
<1>2. \A x \in Reading : x.at \in Nat
  BY DEF Reading
<1>3. \A s \in SwitchId : db.counters[s] \subseteq CounterRow
  BY DEF IInv, TypeOK, Database
<1>4. \A r \in CounterRow : r.name = p /\ r.value \in Reading
  BY DEF CounterRow
<1>5. \A t \in Task : task[t].pc \in Steps => task[t].snap \in Reading /\ task[t].s \in SwitchId
  BY DEF IInv, Steady, Steps
<1> QED BY <1>1, <1>2, <1>3, <1>4, <1>5

\* A poll moves without writing ports, history or counters.
Moves(t) ==
    /\ task'[t].pc # "idle" => task[t].pc # "idle" /\ task'[t].s = task[t].s
    /\ task'[t].pc # "sample"
    /\ task[t].pc = "sample" => ~Exists(db', task[t].s)

\* No row comes, and a history changes only where no ports are.
FewerRows ==
    \A s \in SwitchId :
        /\ db'.counters[s] \subseteq db.counters[s]
        /\ db'.ports[s] \subseteq db.ports[s]
        /\ \/ db'.ports[s] = {}
           \/ Exists(db, s) /\ db'.samples[s] = db.samples[s]

LEMMA QuietApart ==
    ASSUME IInv, ApartInv, IInv', UNCHANGED <<crashes, overlap, partial>>, clock <= clock', FewerRows,
           \A t \in Task : task'[t] = task[t] \/ (Moves(t) /\ Later(t)')
    PROVE  ApartInv'
<1>1. One'
  BY DEF ApartInv, One, Moves
<1>2. CountersPast'
  BY Times DEF ApartInv, CountersPast, FewerRows, IInv, TypeOK
<1>3. ASSUME NEW t \in Task PROVE Later(t)'
  <2>1. CASE task'[t] = task[t]
    <3> SUFFICES ASSUME task[t].pc \in Steps
                 PROVE  /\ task[t].snap.at <= clock'
                        /\ task[t].pc # "online" /\ task[t].s \notin overlap =>
                               \A r \in db'.counters[task[t].s] : r.value.at < task[t].snap.at
      BY <2>1 DEF Later
    <3>1. Later(t) /\ task[t].snap.at \in Nat /\ task[t].s \in SwitchId
      BY Times DEF ApartInv
    <3>2. clock \in Nat /\ clock' \in Nat
      BY DEF IInv, TypeOK
    <3> QED BY <3>1, <3>2 DEF Later, FewerRows
  <2> QED BY <2>1
<1>4. ASSUME NEW t \in Task PROVE Shown(t)'
  <2>1. CASE task'[t] = task[t]
    <3>1. Shown(t) /\ (task[t].pc = "sample" => task[t].s \in SwitchId)
      BY Times DEF ApartInv, Steps
    <3> QED BY <2>1, <3>1 DEF Shown, FewerRows
  <2>2. CASE Moves(t)
    BY <2>2 DEF Shown, Moves
  <2> QED BY <2>1, <2>2
<1>5. ASSUME NEW s \in SwitchId PROVE Matches(s)'
  <2> SUFFICES ASSUME s \notin overlap \cup partial, Exists(db, s)', ~crashes, db'.samples[s] # <<>>,
                      NoneSamples(s)', NEW r \in db'.ports[s]
               PROVE  db'.samples[s][Len(db'.samples[s])] = [src |-> r.data.src, at |-> r.data.at]
    BY DEF Matches
  <2>1. Exists(db, s) /\ db'.samples[s] = db.samples[s] /\ r \in db.ports[s]
    BY DEF FewerRows
  <2>2. NoneSamples(s)
    <3> SUFFICES ASSUME NEW t \in Task, task[t].s = s, task[t].pc = "sample" PROVE FALSE
      BY DEF NoneSamples
    <3>1. task'[t] # task[t]
      BY DEF NoneSamples
    <3> QED BY <3>1 DEF Moves
  <2> QED BY <2>1, <2>2 DEF ApartInv, Matches
<1> QED BY <1>1, <1>2, <1>3, <1>4, <1>5 DEF ApartInv

LEMMA RequestApart ==
    ASSUME IInv, ApartInv, IInv',
           api_create_switch \/ \E s \in SwitchId : api_update_switch(s) \/ api_delete_switch(s)
    PROVE  ApartInv'
<1> USE TablesAssumption
<1>1. /\ db \in Database /\ UNCHANGED <<task, clock, crashes, overlap, partial>> /\ clock \in Nat
  BY DEF api_create_switch, api_update_switch, api_delete_switch, Commits, IInv, TypeOK
<1>2. ASSUME api_create_switch PROVE FewerRows
  <2>1. PICK ip \in Ip, method \in Method, name \in Name \cup {NULL} :
            CanInsertSwitch(db, ip) /\ db' = InsertSwitch(db, ip, method, name)
    BY <1>2 DEF api_create_switch
  <2>2. /\ db'.ports = db.ports /\ db'.samples = db.samples /\ db'.counters = db.counters
        /\ \A s \in SwitchId \ {NextId(db)} : db'.switches[s] = db.switches[s]
    BY <1>1, <2>1 DEF InsertSwitch, Database
  <2>3. NextId(db) \in SwitchId /\ db.ports[NextId(db)] = {}
    BY <1>1, <2>1 DEF CanInsertSwitch, NextId, Database, IInv, RowsOK
  <2>4. \A s \in SwitchId : ~Exists(db, s) => db.ports[s] = {}
    BY DEF IInv, RowsOK
  <2> QED BY <2>2, <2>3, <2>4 DEF FewerRows
<1>3. ASSUME NEW s \in SwitchId, api_update_switch(s) PROVE FewerRows
  <2>1. db'.ports = db.ports /\ db'.samples = db.samples /\ db'.counters = db.counters
    BY <1>1, <1>3 DEF api_update_switch, UpdateSwitch, Database
  <2> QED BY <2>1 DEF FewerRows, IInv, RowsOK
<1>4. ASSUME NEW s \in SwitchId, api_delete_switch(s) PROVE FewerRows
  <2>1. /\ db'.ports = [db.ports EXCEPT ![s] = {}]
        /\ db'.samples = [db.samples EXCEPT ![s] = <<>>]
        /\ db'.counters = [db.counters EXCEPT ![s] = {}]
    BY <1>1, <1>4 DEF api_delete_switch, DeleteSwitch, Database
  <2>2. \A r \in SwitchId : ~Exists(db, r) => db.ports[r] = {}
    BY DEF IInv, RowsOK
  <2> QED BY <1>1, <2>1, <2>2 DEF FewerRows, Database
<1>5. FewerRows
  BY <1>2, <1>3, <1>4
<1> QED BY <1>1, <1>5, QuietApart

\* A step of one poll that changes no table.
LEMMA FrameApart ==
    ASSUME IInv, ApartInv, IInv', NEW t \in Task, NEW f \in TaskState, task' = [task EXCEPT ![t] = f],
           UNCHANGED <<crashes, overlap, partial>>, clock <= clock', FewerRows,
           f.pc # "idle" => task[t].pc # "idle" /\ f.s = task[t].s,
           f.pc # "sample", task[t].pc = "sample" => ~Exists(db', task[t].s), Later(t)'
    PROVE  ApartInv'
<1>1. task'[t] = f /\ \A u \in Task \ {t} : task'[u] = task[u]
  BY DEF IInv, TypeOK
<1>2. Moves(t)
  BY <1>1 DEF Moves
<1> QED BY <1>1, <1>2, QuietApart

LEMMA SameRows == ASSUME IInv, UNCHANGED db PROVE FewerRows
BY DEF FewerRows, IInv, RowsOK

LEMMA EndsApart ==
    ASSUME IInv, ApartInv, IInv', NEW t \in Task, Ends(t), UNCHANGED <<clock, crashes, overlap, partial>>,
           FewerRows, task[t].pc = "sample" => ~Exists(db', task[t].s)
    PROVE  ApartInv'
<1>1. task' = [task EXCEPT ![t] = NoTask] /\ NoTask.pc = "idle" /\ clock \in Nat
  BY DEF Ends, NoTask, IInv, TypeOK
<1>2. task'[t] = NoTask /\ NoTask \in TaskState
  BY <1>1 DEF IInv, TypeOK
<1>3. Later(t)'
  BY <1>1, <1>2 DEF Later, Steps
<1> HIDE DEF NoTask
<1>4. clock <= clock' /\ UNCHANGED <<crashes, overlap, partial>>
  BY <1>1
<1>5. NoTask.pc # "idle" => task[t].pc # "idle" /\ NoTask.s = task[t].s
  BY <1>1
<1>6. NoTask.pc # "sample"
  BY <1>1
<1> QED BY <1>1, <1>2, <1>3, <1>4, <1>5, <1>6, FrameApart

LEMMA StatusApart ==
    ASSUME IInv, ApartInv, IInv', NEW t \in Task, NEW status, NEW name,
           db' = UpdateStatus(db, task[t].s, status, name), task[t].pc # "sample",
           Ends(t), UNCHANGED <<clock, crashes, overlap, partial>>
    PROVE  ApartInv'
<1>1. db \in Database
  BY DEF IInv, TypeOK
<1>2. db'.ports = db.ports /\ db'.samples = db.samples /\ db'.counters = db.counters
  BY <1>1 DEF UpdateStatus, Database
<1>3. FewerRows
  BY <1>2 DEF FewerRows, IInv, RowsOK
<1> QED BY <1>3, EndsApart

LEMMA StartApart ==
    ASSUME IInv, ApartInv, NEW t \in Task, NEW s \in SwitchId, StartPoll(t, s)
    PROVE  ApartInv'
<1> DEFINE f == [NoTask EXCEPT !.pc = "collect", !.s = s, !.row = Frame(db.switches[s])]
<1>1. /\ task' = [task EXCEPT ![t] = f] /\ UNCHANGED <<db, clock, crashes, partial>>
      /\ task[t].pc = "idle"
      /\ overlap' = IF \E u \in Task : task[u].s = s THEN overlap \cup {s} ELSE overlap
  BY DEF StartPoll
<1>2. f.pc = "collect" /\ f.s = s
  BY DEF NoTask
<1> HIDE DEF f
<1>3. task'[t] = f /\ \A u \in Task \ {t} : task'[u] = task[u]
  BY <1>1 DEF IInv, TypeOK
<1>4. One'
  BY <1>1, <1>2, <1>3 DEF ApartInv, One
<1>5. CountersPast'
  BY <1>1 DEF ApartInv, CountersPast
<1>6. ASSUME NEW u \in Task PROVE Later(u)' /\ Shown(u)'
  BY <1>1, <1>2, <1>3 DEF ApartInv, Later, Shown, Steps
<1>7. ASSUME NEW r \in SwitchId PROVE Matches(r)'
  <2>1. NoneSamples(r)' => NoneSamples(r)
    BY <1>1, <1>2, <1>3 DEF NoneSamples
  <2> QED BY <1>1, <2>1 DEF ApartInv, Matches
<1> QED BY <1>4, <1>5, <1>6, <1>7 DEF ApartInv

LEMMA CollectApart == ASSUME IInv, ApartInv, IInv', NEW t \in Task, Collect(t) PROVE ApartInv'
<1>0. task' \in [Task -> TaskState]
  BY DEF IInv, TypeOK
<1>1. /\ task[t].pc = "collect" /\ clock' = clock + 1 /\ UNCHANGED <<db, crashes, overlap, partial>>
  BY DEF Collect
<1>2. PICK octets \in BOOLEAN :
          task' = [task EXCEPT ![t].pc = "counters",
                               ![t].snap = [src |-> task[t].row.ip, at |-> clock'],
                               ![t].octets = octets]
  BY DEF Collect
<1> DEFINE f == [task[t] EXCEPT !.pc = "counters",
                                !.snap = [src |-> task[t].row.ip, at |-> clock'],
                                !.octets = octets]
<1>3. task[t] \in TaskState /\ clock \in Nat
  BY DEF IInv, TypeOK
<1>3a. task' = [task EXCEPT ![t] = f]
  BY <1>2 DEF IInv, TypeOK, TaskState
<1>4. f.pc = "counters" /\ f.s = task[t].s /\ f.snap.at = clock'
  BY <1>3 DEF TaskState
<1>5. task[t].s \in SwitchId
  BY <1>1 DEF IInv, Steady
<1> HIDE DEF f
<1>6. task'[t] = f /\ f \in TaskState
  BY <1>0, <1>3a DEF IInv, TypeOK
<1>7. \A r \in db.counters[task[t].s] : r.value.at < clock'
  BY <1>1, <1>3, <1>5, Times DEF ApartInv, CountersPast
<1>8. Later(t)'
  BY <1>1, <1>3, <1>4, <1>6, <1>7 DEF Later
<1>9. FewerRows
  BY <1>1, SameRows
<1>10. /\ clock <= clock' /\ UNCHANGED <<crashes, overlap, partial>>
       /\ f.pc # "idle" => task[t].pc # "idle" /\ f.s = task[t].s
       /\ f.pc # "sample" /\ (task[t].pc = "sample" => ~Exists(db', task[t].s))
  BY <1>1, <1>3, <1>4
<1> QED BY <1>6, <1>8, <1>9, <1>3a, <1>10, FrameApart

LEMMA ApplyApart == ASSUME IInv, ApartInv, IInv', NEW t \in Task, ApplyCounters(t) PROVE ApartInv'
<1>0. task' \in [Task -> TaskState]
  BY DEF IInv, TypeOK
<1>1. task[t].pc = "counters" /\ UNCHANGED <<db, clock, had, crashes, overlap, partial>>
  BY DEF ApplyCounters
<1>2. \E util : task' = [task EXCEPT ![t].pc = "replace", ![t].util = util]
  BY DEF ApplyCounters
<1>3. PICK util : task' = [task EXCEPT ![t].pc = "replace", ![t].util = util]
  BY <1>2
<1> DEFINE f == [task[t] EXCEPT !.pc = "replace", !.util = util]
<1>4. task[t] \in TaskState /\ clock \in Nat
  BY DEF IInv, TypeOK
<1>3a. task' = [task EXCEPT ![t] = f]
  BY <1>3 DEF IInv, TypeOK, TaskState
<1>5. f.pc = "replace" /\ f.s = task[t].s /\ f.snap = task[t].snap
  BY <1>4 DEF TaskState
<1> HIDE DEF f
<1>6. task'[t] = f /\ f \in TaskState
  BY <1>0, <1>3a DEF IInv, TypeOK
<1>7. Later(t)'
  BY <1>1, <1>5, <1>6 DEF ApartInv, Later, Steps
<1>8. FewerRows
  BY <1>1, SameRows
<1>10. /\ clock <= clock' /\ UNCHANGED <<crashes, overlap, partial>>
       /\ f.pc # "idle" => task[t].pc # "idle" /\ f.s = task[t].s
       /\ f.pc # "sample" /\ (task[t].pc = "sample" => ~Exists(db', task[t].s))
  BY <1>1, <1>4, <1>5
<1> QED BY <1>6, <1>7, <1>8, <1>3a, <1>10, FrameApart

LEMMA FailsApart ==
    ASSUME IInv, ApartInv, IInv', NEW t \in Task, CollectFails(t)
    PROVE  ApartInv'
<1> DEFINE f == [task[t] EXCEPT !.pc = "unreachable"]
<1>1. /\ task' = [task EXCEPT ![t] = f] /\ task[t] \in TaskState /\ clock \in Nat
      /\ task[t].pc = "collect" /\ UNCHANGED <<db, clock, crashes, overlap, partial>>
  BY DEF CollectFails, Goes, IInv, TypeOK
<1>2. f.pc = "unreachable" /\ f.s = task[t].s
  BY <1>1 DEF TaskState
<1> HIDE DEF f
<1>3. task'[t] = f /\ f \in TaskState
  BY <1>1 DEF IInv, TypeOK
<1>4. Later(t)'
  BY <1>2, <1>3 DEF Later, Steps
<1>5. FewerRows
  BY <1>1, SameRows
<1>10. /\ clock <= clock' /\ UNCHANGED <<crashes, overlap, partial>>
       /\ f.pc # "idle" => task[t].pc # "idle" /\ f.s = task[t].s
       /\ f.pc # "sample" /\ (task[t].pc = "sample" => ~Exists(db', task[t].s))
  BY <1>1, <1>2
<1> QED BY <1>1, <1>3, <1>4, <1>5, <1>10, FrameApart

\* What a poll that writes to its switch need not care about: other polls of the switch, if
\* there are any, are noted, and other switches are as they were.
LEMMA Alone ==
    ASSUME ApartInv, NEW t \in Task, NEW u \in Task, u # t,
           task[t].pc # "idle", task[u].pc # "idle", task[u].s = task[t].s
    PROVE  task[t].s \in overlap
BY DEF ApartInv, One

LEMMA ReplaceApart == ASSUME IInv, ApartInv, IInv', NEW t \in Task, ReplacePorts(t) PROVE ApartInv'
<1> DEFINE s == task[t].s
           data == [src |-> task[t].snap.src, at |-> task[t].snap.at, util |-> task[t].util]
           row == [name |-> p, data |-> data]
           g == [task[t] EXCEPT !.pc = "sample"]
<1>1. /\ task[t].pc = "replace" /\ UNCHANGED <<clock, had, crashes, overlap>>
      /\ s \in SwitchId /\ task[t] \in TaskState /\ db \in Database
  BY DEF ReplacePorts, IInv, Steady, Steps, TypeOK
<1>2. CASE ~Exists(db, s)
  BY <1>1, <1>2, SameRows, EndsApart DEF ReplacePorts
<1>3. CASE Exists(db, s)
  <2>1. PICK f \in {g, NoTask} :
            /\ db' = [db EXCEPT !.ports[s] = {row}] /\ task' = [task EXCEPT ![t] = f]
            /\ \/ f = g /\ partial' = partial \ {s}
               \/ f = NoTask /\ partial' = partial \cup {s}
    BY <1>3 DEF ReplacePorts, Goes, Ends
  <2>2. row.data.src = task[t].snap.src /\ row.data.at = task[t].snap.at
    OBVIOUS
  <2>3. \/ f.pc = "sample" /\ f.s = s /\ f.snap = task[t].snap /\ partial' = partial \ {s}
        \/ f.pc = "idle" /\ partial' = partial \cup {s}
    BY <1>1, <2>1 DEF TaskState, NoTask
  <2> HIDE DEF row, data, g
  <2>4. task'[t] = f /\ \A u \in Task \ {t} : task'[u] = task[u]
    BY <2>1 DEF IInv, TypeOK
  <2>5. /\ db'.switches = db.switches /\ db'.samples = db.samples /\ db'.counters = db.counters
        /\ db'.ports[s] = {row} /\ \A r \in SwitchId \ {s} : db'.ports[r] = db.ports[r]
    BY <1>1, <2>1 DEF Database
  <2>6. One'
    BY <1>1, <2>3, <2>4 DEF ApartInv, One
  <2>7. CountersPast'
    BY <1>1, <2>5 DEF ApartInv, CountersPast
  <2>8. ASSUME NEW u \in Task PROVE Later(u)'
    BY <1>1, <2>3, <2>4, <2>5 DEF ApartInv, Later, Steps
  <2>9. ASSUME NEW u \in Task PROVE Shown(u)'
    <3>1. CASE u = t
      BY <2>2, <2>3, <2>4, <2>5, <3>1 DEF Shown
    <3>2. CASE u # t
      <4> SUFFICES ASSUME task[u].pc = "sample", task[u].s \notin overlap PROVE Shown(u)'
        BY <1>1, <2>4, <3>2 DEF Shown
      <4>1. task[u].s # s /\ task[u].s \in SwitchId
        BY <1>1, <3>2, Alone, Times DEF Steps
      <4> QED BY <1>1, <2>4, <2>5, <3>2, <4>1 DEF ApartInv, Shown
    <3> QED BY <3>1, <3>2
  <2>10. ASSUME NEW r \in SwitchId PROVE Matches(r)'
    <3>1. CASE r = s
      BY <1>1, <2>3, <2>4, <3>1 DEF Matches, NoneSamples
    <3>2. CASE r # s
      <4>1. NoneSamples(r)' => NoneSamples(r)
        BY <2>3, <2>4, <3>2 DEF NoneSamples
      <4> QED BY <1>1, <2>3, <2>5, <3>2, <4>1 DEF ApartInv, Matches, Exists
    <3> QED BY <3>1, <3>2
  <2> QED BY <2>6, <2>7, <2>8, <2>9, <2>10 DEF ApartInv
<1> QED BY <1>2, <1>3

LEMMA SampleApart == ASSUME IInv, ApartInv, IInv', NEW t \in Task, AddSample(t) PROVE ApartInv'
<1> DEFINE s == task[t].s
           q == Append(db.samples[s], task[t].snap)
           rows == Newest(q, Retention)
           f == [task[t] EXCEPT !.pc = IF task[t].octets THEN "upsert" ELSE "online"]
<1>1. /\ task[t].pc = "sample" /\ UNCHANGED <<clock, had, crashes, overlap, partial>>
      /\ s \in SwitchId /\ task[t] \in TaskState /\ db \in Database /\ task[t].snap \in Reading
  BY DEF AddSample, Commits, IInv, Steady, Steps, TypeOK
<1>2. CASE ~Exists(db, s)
  <2>1. Ends(t) /\ UNCHANGED db
    BY <1>2 DEF AddSample
  <2>2. ~Exists(db', s)
    BY <1>2, <2>1
  <2> QED BY <1>1, <1>2, <2>1, <2>2, SameRows, EndsApart
<1>3. CASE Exists(db, s)
  <2>1. /\ db' = TrimSamples(InsertSample(db, s, task[t].snap), s)
        /\ task' = [task EXCEPT ![t] = f]
    BY <1>3 DEF AddSample, Goes
  <2>2. f.pc \in {"upsert", "online"} /\ f.s = s /\ f.snap = task[t].snap
    BY <1>1 DEF TaskState
  <2>3. q \in Seq(Summary) /\ q[Len(q)] = task[t].snap
    <3> DEFINE h == db.samples[s]
               x == task[t].snap
    <3>1. h \in Seq(Summary) /\ x \in Summary
      BY <1>1, PollerAssumption DEF Database
    <3> HIDE DEF h, x
    <3>2. Append(h, x) \in Seq(Summary) /\ Append(h, x)[Len(Append(h, x))] = x
      BY <3>1
    <3> QED BY <3>2 DEF h, x
  <2> HIDE DEF f, q
  <2>4. rows # <<>> => rows[Len(rows)] = task[t].snap
    BY <2>3, NewestLast, TablesAssumption
  <2>5. task'[t] = f /\ \A u \in Task \ {t} : task'[u] = task[u]
    BY <2>1 DEF IInv, TypeOK
  <2>6. /\ db'.switches = db.switches /\ db'.ports = db.ports /\ db'.counters = db.counters
        /\ db'.samples[s] = rows /\ \A r \in SwitchId \ {s} : db'.samples[r] = db.samples[r]
    BY <1>1, <2>1 DEF TrimSamples, InsertSample, Database, q
  <2> HIDE DEF rows
  <2>7. One'
    BY <1>1, <2>2, <2>5 DEF ApartInv, One
  <2>8. CountersPast'
    BY <1>1, <2>6 DEF ApartInv, CountersPast
  <2>9. ASSUME NEW u \in Task PROVE Later(u)' /\ Shown(u)'
    BY <1>1, <2>2, <2>5, <2>6 DEF ApartInv, Later, Shown, Steps
  <2>10. ASSUME NEW r \in SwitchId PROVE Matches(r)'
    <3>1. CASE r = s
      <4> SUFFICES ASSUME s \notin overlap, rows # <<>>, NEW x \in db.ports[s]
                   PROVE  rows[Len(rows)] = [src |-> x.data.src, at |-> x.data.at]
        BY <1>1, <2>6, <3>1 DEF Matches
      <4>1. x.data.src = task[t].snap.src /\ x.data.at = task[t].snap.at
        BY <1>1 DEF ApartInv, Shown
      <4> QED BY <1>1, <2>4, <4>1 DEF Reading
    <3>2. CASE r # s
      <4>1. NoneSamples(r)' => NoneSamples(r)
        BY <2>2, <2>5, <3>2 DEF NoneSamples
      <4> QED BY <1>1, <2>6, <3>2, <4>1 DEF ApartInv, Matches, Exists
    <3> QED BY <3>1, <3>2
  <2> QED BY <2>7, <2>8, <2>9, <2>10 DEF ApartInv
<1> QED BY <1>2, <1>3

\* The one counter row of a switch gives way to the poll's.
LEMMA OneCounter ==
    ASSUME IInv, NEW t \in Task, UpsertCounters(t), Exists(db, task[t].s)
    PROVE  /\ task[t].pc = "upsert" /\ task[t].s \in SwitchId
           /\ db'.switches = db.switches /\ db'.ports = db.ports /\ db'.samples = db.samples
           /\ db'.counters[task[t].s] = {[name |-> p, value |-> task[t].snap]}
           /\ \A r \in SwitchId \ {task[t].s} : db'.counters[r] = db.counters[r]
<1> DEFINE row == [name |-> p, value |-> task[t].snap]
           s == task[t].s
<1>1. task[t].pc = "upsert" /\ s \in SwitchId /\ db \in Database
  BY DEF UpsertCounters, IInv, TypeOK, Steady, Steps
<1>2. db' = UpsertCounter(db, s, row) /\ row.name = p
  BY DEF UpsertCounters
<1> HIDE DEF row
<1>3. UpsertRow(db.counters[s], row) = {row}
  BY <1>1, <1>2, Times DEF UpsertRow
<1>4. db' = [db EXCEPT !.counters = [db.counters EXCEPT ![s] = {row}]]
  BY <1>1, <1>2, <1>3 DEF UpsertCounter, Database
<1>5. /\ db'.switches = db.switches /\ db'.ports = db.ports /\ db'.samples = db.samples
      /\ db'.counters = [db.counters EXCEPT ![s] = {row}]
  BY <1>1, <1>4 DEF Database
<1>6. db'.counters[s] = {row} /\ \A r \in SwitchId \ {s} : db'.counters[r] = db.counters[r]
  BY <1>1, <1>5 DEF Database
<1> QED BY <1>1, <1>5, <1>6 DEF row

LEMMA UpsertApart == ASSUME IInv, ApartInv, IInv', NEW t \in Task, UpsertCounters(t) PROVE ApartInv'
<1> DEFINE s == task[t].s
           row == [name |-> p, value |-> task[t].snap]
           f == [task[t] EXCEPT !.pc = "online"]
<1>1. /\ task[t].pc = "upsert" /\ UNCHANGED <<clock, had, crashes, overlap, partial>>
      /\ s \in SwitchId /\ task[t] \in TaskState /\ task[t].snap \in Reading
  BY DEF UpsertCounters, Commits, IInv, Steady, Steps, TypeOK
<1>2. CASE ~Exists(db, s)
  BY <1>1, <1>2, SameRows, EndsApart DEF UpsertCounters
<1>3. CASE Exists(db, s)
  <2>1. task' = [task EXCEPT ![t] = f]
    BY <1>3 DEF UpsertCounters, Goes
  <2>2. f.pc = "online" /\ f.s = s /\ f.snap = task[t].snap /\ row.value = task[t].snap
    BY <1>1 DEF TaskState
  <2>3. /\ db'.switches = db.switches /\ db'.ports = db.ports /\ db'.samples = db.samples
        /\ db'.counters[s] = {row} /\ \A r \in SwitchId \ {s} : db'.counters[r] = db.counters[r]
    BY <1>3, OneCounter
  <2> HIDE DEF f, row
  <2>4. task'[t] = f /\ \A u \in Task \ {t} : task'[u] = task[u]
    BY <2>1 DEF IInv, TypeOK
  <2>5. One'
    BY <1>1, <2>2, <2>4 DEF ApartInv, One
  <2>6. task[t].snap.at <= clock
    BY <1>1 DEF ApartInv, Later, Steps
  <2>7. CountersPast'
    BY <1>1, <2>2, <2>3, <2>6 DEF ApartInv, CountersPast
  <2>8. ASSUME NEW u \in Task PROVE Later(u)'
    <3>1. CASE u = t
      BY <1>1, <2>2, <2>4, <2>6, <3>1 DEF Later
    <3>2. CASE u # t
      <4> SUFFICES ASSUME task[u].pc \in Steps PROVE Later(u)'
        BY <2>4, <3>2 DEF Later
      <4>1. Later(u) /\ task[u].s \in SwitchId /\ task[u].pc # "idle"
        BY Times DEF ApartInv, Steps
      <4>2. task[u].s = s => s \in overlap
        BY <1>1, <3>2, <4>1, Alone
      <4>3. task[u].s # s => db'.counters[task[u].s] = db.counters[task[u].s]
        BY <2>3, <4>1
      <4> QED BY <1>1, <2>4, <3>2, <4>1, <4>2, <4>3 DEF Later
    <3> QED BY <3>1, <3>2
  <2>9. ASSUME NEW u \in Task PROVE Shown(u)'
    BY <1>1, <2>2, <2>3, <2>4 DEF ApartInv, Shown
  <2>10. ASSUME NEW r \in SwitchId PROVE Matches(r)'
    <3>1. NoneSamples(r)' => NoneSamples(r)
      BY <1>1, <2>2, <2>4 DEF NoneSamples
    <3> QED BY <1>1, <2>3, <3>1 DEF ApartInv, Matches, Exists
  <2> QED BY <2>5, <2>7, <2>8, <2>9, <2>10 DEF ApartInv
<1> QED BY <1>2, <1>3

LEMMA CrashApart == ASSUME IInv, ApartInv, Crash PROVE ApartInv'
<1>1. /\ \A t \in Task : task'[t].pc = "idle"
      /\ crashes' = TRUE /\ UNCHANGED <<clock, overlap>> /\ db'.counters = db.counters
  BY DEF Crash, NoTask, IInv, TypeOK, Database
<1> QED BY <1>1 DEF ApartInv, One, CountersPast, Later, Shown, Matches, Steps

LEMMA StepApart == IInv /\ ApartInv /\ [Next]_vars => ApartInv'
<1> SUFFICES ASSUME IInv, ApartInv, [Next]_vars PROVE ApartInv'
  OBVIOUS
<1>0. IInv'
  BY StepInv
<1>1. CASE UNCHANGED vars
  BY <1>1 DEF vars, ApartInv, One, CountersPast, Later, Shown, Matches, NoneSamples
<1>2. ASSUME NEW t \in Task, UnsupportedMethod(t) PROVE ApartInv'
  BY <1>0, <1>2, SameRows, EndsApart DEF UnsupportedMethod
<1>3. ASSUME NEW t \in Task, MarkUnreachable(t) \/ MarkOnline(t) PROVE ApartInv'
  BY <1>0, <1>3, StatusApart DEF MarkUnreachable, MarkOnline, Commits
<1>4. ASSUME NEW t \in Task, PollStep(t) PROVE ApartInv'
  BY <1>0, <1>2, <1>3, <1>4, CollectApart, FailsApart, ApplyApart, ReplaceApart, SampleApart,
     UpsertApart DEF PollStep
<1>5. OtherCommit => ApartInv'
  BY DEF OtherCommit, Commits, ApartInv, One, CountersPast, Later, Shown, Matches, NoneSamples
<1> QED BY <1>0, <1>1, <1>4, <1>5, RequestApart, StartApart, CrashApart DEF Next

\* As long as no two polls of a switch overlap, whatever polls of other switches and requests do,
\* the newest sample of a switch sums up the ports shown, unless its last list broke off at a port
\* named twice: for any number of polls and switches and any retention (poll_switch, replace_ports and
\* add_sample being two commits).
THEOREM PollerHistory == Spec => []HistoryMatchesLive
<1>1. IInv /\ ApartInv => HistoryMatchesLive
  <2> SUFFICES ASSUME ApartInv, NEW s \in SwitchId \ (overlap \cup partial), Exists(db, s), Settled(s),
                      ~crashes,
                      db.samples[s] # <<>>, NEW r \in db.ports[s]
               PROVE  db.samples[s][Len(db.samples[s])] = [src |-> r.data.src, at |-> r.data.at]
    BY DEF HistoryMatchesLive
  <2>1. NoneSamples(s)
    BY DEF Settled, NoneSamples
  <2> QED BY <2>1 DEF ApartInv, Matches
<1> QED BY InitInv, StepInv, InitApart, StepApart, <1>1, PTL DEF Spec

\* As long as no two polls of a switch overlap, its stored counters never go back to an earlier
\* reading, for any number of polls and switches (_apply_counter_utilization).
THEOREM PollerCounters == Spec => CountersMoveForward
<1> DEFINE Forward ==
      \A s \in SwitchId \ overlap :
          \A r \in db.counters[s], q \in db'.counters[s] :
              r.name = q.name => q.value.at >= r.value.at
<1>1. IInv /\ ApartInv /\ [Next]_vars => [Forward]_vars
  <2> SUFFICES ASSUME IInv, ApartInv, Next, NEW s \in SwitchId, s \notin overlap,
                      NEW r \in db.counters[s], NEW q \in db'.counters[s]
               PROVE  q.value.at >= r.value.at
    OBVIOUS
  <2>0. r.value.at \in Nat /\ \A x \in db.counters[s] : x = r
    BY Times DEF ApartInv, CountersPast
  <2>1. CASE db'.counters[s] \subseteq db.counters[s]
    <3>1. q = r
      BY <2>0, <2>1
    <3> QED BY <2>0, <3>1
  <2>2. ASSUME NEW t \in Task, UpsertCounters(t), task[t].s = s, Exists(db, s)
        PROVE  q.value.at >= r.value.at
    <3>1. q = [name |-> p, value |-> task[t].snap] /\ task[t].pc = "upsert"
      BY <2>2, OneCounter
    <3>2. r.value.at < task[t].snap.at /\ task[t].snap.at \in Nat
      BY <2>2, <3>1, Times DEF ApartInv, Later, Steps
    <3> QED BY <2>0, <3>1, <3>2
  <2>3. ASSUME NEW t \in Task, UpsertCounters(t), ~(task[t].s = s /\ Exists(db, s))
        PROVE  db'.counters[s] \subseteq db.counters[s]
    BY <2>3, OneCounter DEF UpsertCounters
  <2>4. (\A t \in Task : ~UpsertCounters(t)) => db'.counters[s] \subseteq db.counters[s]
    <3>1. db \in Database
      BY DEF IInv, TypeOK
    <3>2. ASSUME api_create_switch PROVE db'.counters = db.counters
      BY <3>1, <3>2 DEF api_create_switch, InsertSwitch, Database
    <3>3. ASSUME NEW x \in SwitchId, api_update_switch(x) PROVE db'.counters = db.counters
      BY <3>1, <3>3 DEF api_update_switch, UpdateSwitch, Database
    <3>4. ASSUME NEW x \in SwitchId, api_delete_switch(x)
          PROVE  db'.counters = [db.counters EXCEPT ![x] = {}]
      BY <3>1, <3>4 DEF api_delete_switch, DeleteSwitch, Database
    <3>5. ASSUME NEW t \in Task, PollStep(t), ~UpsertCounters(t)
          PROVE  db'.counters = db.counters
      <4>1. CASE MarkUnreachable(t) \/ MarkOnline(t)
        BY <3>1, <4>1 DEF MarkUnreachable, MarkOnline, UpdateStatus, Database
      <4>2. CASE ReplacePorts(t)
        BY <3>1, <4>2 DEF ReplacePorts, Database
      <4>3. CASE AddSample(t)
        BY <3>1, <4>3 DEF AddSample, TrimSamples, InsertSample, Database
      <4> QED BY <3>5, <4>1, <4>2, <4>3 DEF PollStep, UnsupportedMethod, CollectFails, Collect,
                                            ApplyCounters
    <3>6. (\E t \in Task, x \in SwitchId : StartPoll(t, x)) \/ OtherCommit \/ Crash =>
              db'.counters = db.counters
      BY <3>1 DEF StartPoll, OtherCommit, Crash, Database
    <3>7. db.counters \in [SwitchId -> SUBSET CounterRow]
      BY <3>1 DEF Database
    <3> QED BY <3>2, <3>3, <3>4, <3>5, <3>6, <3>7 DEF Next
  <2> QED BY <2>1, <2>2, <2>3, <2>4
<1> QED BY InitInv, StepInv, InitApart, StepApart, <1>1, PTL DEF Spec, CountersMoveForward
=============================================================================
