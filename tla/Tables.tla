------------------------------- MODULE Tables -------------------------------
(***************************************************************************)
(* The tables of backend/app/db.py that polling and switch administration  *)
(* share, and what each SQL statement of backend/app/repository.py does to *)
(* them.  A database is a value: every operator below takes a database d   *)
(* and returns the database after one statement.  Whether d is what        *)
(* readers see or what is committed is the business of SharedConn.         *)
(*                                                                         *)
(* A table is a function of the switch id: the foreign key of every row.   *)
(* Columns no property tells apart (location, credentials, model, optics)  *)
(* are left out, the readings of a port are one value of PortData.         *)
(***************************************************************************)
EXTENDS Integers, Sequences, SequencesExt

CONSTANTS
    SwitchId,    \* values of switches.id that AUTOINCREMENT may reach
    Ip,          \* management addresses, UNIQUE in switches
    Method,      \* collection methods
    Name,        \* switch names
    PortName,    \* port names, UNIQUE per switch in ports
    PortData,    \* the other columns of a port
    Summary,     \* what summarize_ports returns for a port list
    Counter,     \* octet counters of a port and the time they were read
    Retention,   \* SAMPLE_RETENTION
    NULL,        \* SQL NULL, and a field a request leaves out
    NoSwitch     \* no row with this id

Status == {"unknown", "online", "unreachable"}

SwitchRow  == [ip : Ip, method : Method, name : Name \cup {NULL}, status : Status]
PortRow    == [name : PortName, data : PortData]
CounterRow == [name : PortName, value : Counter]

\* AUTOINCREMENT counts from 1; a row is never the absence of a row; NULL is
\* not a column value.
ASSUME TablesAssumption ==
    /\ SwitchId \subseteq Nat \ {0}
    /\ Retention \in Int
    /\ NoSwitch \notin SwitchRow
    /\ NULL \notin Ip \cup Method \cup Name

Database ==
    [ switches : [SwitchId -> SwitchRow \cup {NoSwitch}],
      ports    : [SwitchId -> SUBSET PortRow],
      samples  : [SwitchId -> Seq(Summary)],
      counters : [SwitchId -> SUBSET CounterRow],
      sqlite_sequence : Nat ]

\* init_db() on a new file.
EmptyDatabase ==
    [ switches |-> [s \in SwitchId |-> NoSwitch],
      ports    |-> [s \in SwitchId |-> {}],
      samples  |-> [s \in SwitchId |-> <<>>],
      counters |-> [s \in SwitchId |-> {}],
      sqlite_sequence |-> 0 ]

Exists(d, s) == d.switches[s] # NoSwitch

\* Mutant: a field the request leaves out overwrites the column.
CoalesceForgotten(new, old) == new

\* COALESCE(new, old), and "None fields are skipped" of update_switch.
Coalesce(new, old) == IF new = NULL THEN old ELSE new

-----------------------------------------------------------------------------
(* switches *)

\* UNIQUE(ip): no other row than s has the address.
IpFree(d, s, ip) ==
    \A r \in SwitchId \ {s} : Exists(d, r) => d.switches[r].ip # ip

\* Mutant: INTEGER PRIMARY KEY without AUTOINCREMENT, the first id above those in use.
NextIdInUse(d) == CHOOSE n \in 1 .. d.sqlite_sequence + 1 :
                      /\ \A s \in SwitchId : Exists(d, s) => s < n
                      /\ n = 1 \/ \E s \in SwitchId : Exists(d, s) /\ s = n - 1

\* The id AUTOINCREMENT gives the next row: above every id ever given.
NextId(d) == d.sqlite_sequence + 1

CanInsertSwitch(d, ip) == /\ NextId(d) \in SwitchId
                          /\ IpFree(d, NextId(d), ip)

InsertSwitch(d, ip, method, name) ==
    [d EXCEPT !.switches[NextId(d)] =
                  [ip |-> ip, method |-> method, name |-> name, status |-> "unknown"],
              !.sqlite_sequence = NextId(d)]

\* UPDATE switches SET ... WHERE id = s: no row, no effect.
UpdateSwitch(d, s, ip, method, name) ==
    IF Exists(d, s)
    THEN [d EXCEPT !.switches[s] =
              [ip     |-> Coalesce(ip, @.ip),
               method |-> Coalesce(method, @.method),
               name   |-> Coalesce(name, @.name),
               status |-> @.status]]
    ELSE d

UpdateStatus(d, s, status, name) ==
    IF Exists(d, s)
    THEN [d EXCEPT !.switches[s] =
              [ip |-> @.ip, method |-> @.method, name |-> Coalesce(name, @.name),
               status |-> status]]
    ELSE d

\* Mutant: port_counters is declared without ON DELETE CASCADE.
DeleteSwitchKeepingCounters(d, s) ==
    [d EXCEPT !.switches[s] = NoSwitch, !.ports[s] = {}, !.samples[s] = <<>>]

\* ON DELETE CASCADE takes every dependent row along.
DeleteSwitch(d, s) ==
    [d EXCEPT !.switches[s] = NoSwitch,
              !.ports[s]    = {},
              !.samples[s]  = <<>>,
              !.counters[s] = {}]

-----------------------------------------------------------------------------
(* ports *)

\* Mutant: replace_ports only adds.
DeleteNoPorts(d, s) == d

DeletePorts(d, s) == [d EXCEPT !.ports[s] = {}]

\* REFERENCES switches(id), UNIQUE(switch_id, name)
CanInsertPort(d, s, row) == /\ Exists(d, s)
                            /\ \A r \in d.ports[s] : r.name # row.name

InsertPort(d, s, row) == [d EXCEPT !.ports[s] = @ \cup {row}]

-----------------------------------------------------------------------------
(* samples: a sequence in the order of samples.id *)

InsertSample(d, s, x) == [d EXCEPT !.samples[s] = Append(@, x)]

\* Mutant: `<` for `<=`.
NewestOffByOne(q, n) == IF n < 0 \/ Len(q) < n THEN q ELSE SubSeq(q, Len(q) - n + 2, Len(q))

\* Mutant: ORDER BY id without DESC.
NewestAscending(q, n) == IF n < 0 \/ Len(q) <= n THEN q ELSE SubSeq(q, 1, n)

\* LIMIT n keeps the n newest; a negative LIMIT is no limit.
Newest(q, n) == IF n < 0 \/ Len(q) <= n THEN q
                ELSE SubSeq(q, Len(q) - n + 1, Len(q))

TrimSamples(d, s) == [d EXCEPT !.samples[s] = Newest(@, Retention)]

-----------------------------------------------------------------------------
(* port_counters: ON CONFLICT(switch_id, name) DO UPDATE *)

UpsertRow(rows, row) == {r \in rows : r.name # row.name} \cup {row}

UpsertCounter(d, s, row) == [d EXCEPT !.counters[s] = UpsertRow(@, row)]

NamesIn(rows) == {r.name : r \in rows}

\* A list that names no port twice.
DistinctNames(list) == \A i, j \in DOMAIN list : list[i].name = list[j].name => i = j

\* The first k rows of a list, as a table holds them.
FirstRows(list, k) == {list[i] : i \in 1..k}

\* What upserting a list of rows leaves, whatever its order.
UpsertRows(rows, new) == {r \in rows : r.name \notin NamesIn(new)} \cup new

-----------------------------------------------------------------------------
(* What the schema promises of a database. *)

\* Foreign keys: a row of a dependent table has its switch.
ReferentialIntegrity(d) ==
    \A s \in SwitchId :
        ~Exists(d, s) => /\ d.ports[s] = {}
                         /\ d.samples[s] = <<>>
                         /\ d.counters[s] = {}

\* UNIQUE(ip) and UNIQUE(switch_id, name) in both tables.
UniqueKeys(d) ==
    /\ \A s \in SwitchId : Exists(d, s) => IpFree(d, s, d.switches[s].ip)
    /\ \A s \in SwitchId : \A p, q \in d.ports[s] : p.name = q.name => p = q
    /\ \A s \in SwitchId : \A p, q \in d.counters[s] : p.name = q.name => p = q

\* AUTOINCREMENT: sqlite_sequence is at least every id in use, so the next
\* row gets an id no row had before.
SequenceAhead(d) == \A s \in SwitchId : Exists(d, s) => s <= d.sqlite_sequence

\* SAMPLE_RETENTION bounds the history of every switch.
Retained(d) == Retention >= 0 => \A s \in SwitchId : Len(d.samples[s]) <= Retention

Consistent(d) == /\ ReferentialIntegrity(d)
                 /\ UniqueKeys(d)
                 /\ SequenceAhead(d)
                 /\ Retained(d)
=============================================================================
