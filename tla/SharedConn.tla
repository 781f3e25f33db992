----------------------------- MODULE SharedConn -----------------------------
(***************************************************************************)
(* The one sqlite connection of backend/app/db.py, as the functions of     *)
(* backend/app/repository.py drive it from several worker threads at once. *)
(*                                                                         *)
(*  - A write takes the lock, executes its statements one at a time,       *)
(*    commits and releases the lock.                                       *)
(*  - Every thread shares the connection, so it shares the transaction:    *)
(*    a read, which takes no lock, sees what is not committed yet, and a   *)
(*    commit commits whatever is pending.                                  *)
(*  - A statement that fails has no effect of its own, but the exception   *)
(*    leaves the `with lock()` block without a rollback: the statements    *)
(*    before it stay pending.                                              *)
(*  - A crash loses what is pending.                                       *)
(*                                                                         *)
(* `work` is the database seen through the connection, `disk` the last     *)
(* committed one.                                                          *)
(***************************************************************************)
EXTENDS Tables

CONSTANTS
    Thread,       \* threads of asyncio.to_thread, and the event loop's own
    PortLists,    \* port lists collectors deliver: sequences of PortRow
    CounterLists, \* counter lists derived from them: sequences of CounterRow
    NoThread

ASSUME SharedConnAssumption ==
    /\ NoThread \notin Thread
    /\ PortLists \subseteq Seq(PortRow)
    /\ CounterLists \subseteq Seq(CounterRow)

VARIABLES
    work,     \* the tables as every statement on the connection sees them
    disk,     \* the tables as committed
    holder,   \* the thread inside `with lock()`
    pc,       \* pc[t]: the statement thread t executes next
    call,     \* call[t]: what thread t was called with
    row,      \* row[t]: how many rows of executemany are done
    answer    \* what the last get_ports returned

vars == <<work, disk, holder, pc, call, row, answer>>

NoCall == [op |-> "none"]

Call ==
    [op : {"none"}]
    \cup [op : {"create_switch"}, ip : Ip, method : Method, name : Name \cup {NULL}]
    \cup [op : {"update_switch"}, s : SwitchId, ip : Ip \cup {NULL},
          method : Method \cup {NULL}, name : Name \cup {NULL}]
    \cup [op : {"delete_switch"}, s : SwitchId]
    \cup [op : {"set_switch_status"}, s : SwitchId, status : Status, name : Name \cup {NULL}]
    \cup [op : {"replace_ports"}, s : SwitchId, list : PortLists]
    \cup [op : {"add_sample"}, s : SwitchId, x : Summary]
    \cup [op : {"upsert_port_counters"}, s : SwitchId, list : CounterLists]

Location == {"idle", "create", "update", "delete", "status", "delete_ports",
             "insert_ports", "insert_sample", "trim_samples", "upsert", "commit"}

TypeOK ==
    /\ work \in Database
    /\ disk \in Database
    /\ holder \in Thread \cup {NoThread}
    /\ pc \in [Thread -> Location]
    /\ call \in [Thread -> Call]
    /\ row \in [Thread -> Nat]
    /\ answer \in SUBSET PortRow

Init ==
    /\ work = EmptyDatabase
    /\ disk = EmptyDatabase
    /\ holder = NoThread
    /\ pc = [t \in Thread |-> "idle"]
    /\ call = [t \in Thread |-> NoCall]
    /\ row = [t \in Thread |-> 0]
    /\ answer = {}

-----------------------------------------------------------------------------
(* Control shared by the write functions. *)

\* Mutant: the function does not take the lock.
EnterUnlocked(t, c, first) ==
    /\ pc[t] = "idle"
    /\ holder' = t
    /\ call' = [call EXCEPT ![t] = c]
    /\ pc' = [pc EXCEPT ![t] = first]
    /\ row' = [row EXCEPT ![t] = 0]
    /\ UNCHANGED <<work, disk, answer>>

\* A function is called and gets the lock.  A call that waits for the lock
\* changes nothing, so the wait is not a state.
Enter(t, c, first) ==
    /\ holder = NoThread
    /\ pc[t] = "idle"
    /\ holder' = t
    /\ call' = [call EXCEPT ![t] = c]
    /\ pc' = [pc EXCEPT ![t] = first]
    /\ row' = [row EXCEPT ![t] = 0]
    /\ UNCHANGED <<work, disk, answer>>

\* A statement succeeds and the function goes on to `next`.
Executes(t, d, next) ==
    /\ work' = d
    /\ pc' = [pc EXCEPT ![t] = next]
    /\ UNCHANGED <<disk, holder, call, answer>>

\* The function is left, by return or by exception, and so is `with lock()`.
Leave(t) ==
    /\ holder' = NoThread
    /\ pc' = [pc EXCEPT ![t] = "idle"]
    /\ call' = [call EXCEPT ![t] = NoCall]
    /\ row' = [row EXCEPT ![t] = 0]
    /\ UNCHANGED answer

\* A statement fails with sqlite3.IntegrityError: no rollback, no commit.
Raises(t) == Leave(t) /\ UNCHANGED <<work, disk>>

\* Mutant: conn.commit() is forgotten.
CommitForgotten(t) ==
    /\ pc[t] = "commit"
    /\ Leave(t)
    /\ UNCHANGED <<work, disk>>

\* conn.commit(): everything pending on the connection.
Commit(t) ==
    /\ pc[t] = "commit"
    /\ disk' = work
    /\ Leave(t)
    /\ UNCHANGED work

-----------------------------------------------------------------------------
(* The write functions of repository.py, statement by statement. *)

create_switch(t) ==
    \/ \E ip \in Ip, method \in Method, name \in Name \cup {NULL} :
           /\ NextId(work) \in SwitchId     \* bound of the model
           /\ Enter(t, [op |-> "create_switch", ip |-> ip, method |-> method, name |-> name],
                    "create")
    \/ /\ pc[t] = "create"
       /\ IF IpFree(work, NextId(work), call[t].ip)
          THEN /\ Executes(t, InsertSwitch(work, call[t].ip, call[t].method, call[t].name),
                           "commit")
               /\ UNCHANGED row
          ELSE Raises(t)

update_switch(t) ==
    \/ \E s \in SwitchId, ip \in Ip \cup {NULL}, method \in Method \cup {NULL},
          name \in Name \cup {NULL} :
           \* `if not fields: return`
           /\ <<ip, method, name>> # <<NULL, NULL, NULL>>
           /\ Enter(t, [op |-> "update_switch", s |-> s, ip |-> ip, method |-> method,
                        name |-> name], "update")
    \/ /\ pc[t] = "update"
       /\ IF \/ call[t].ip = NULL
             \/ ~Exists(work, call[t].s)
             \/ IpFree(work, call[t].s, call[t].ip)
          THEN /\ Executes(t, UpdateSwitch(work, call[t].s, call[t].ip, call[t].method,
                                           call[t].name), "commit")
               /\ UNCHANGED row
          ELSE Raises(t)

delete_switch(t) ==
    \/ \E s \in SwitchId : Enter(t, [op |-> "delete_switch", s |-> s], "delete")
    \/ /\ pc[t] = "delete"
       /\ Executes(t, DeleteSwitch(work, call[t].s), "commit")
       /\ UNCHANGED row

set_switch_status(t) ==
    \/ \E s \in SwitchId, status \in Status \ {"unknown"}, name \in Name \cup {NULL} :
           Enter(t, [op |-> "set_switch_status", s |-> s, status |-> status, name |-> name],
                 "status")
    \/ /\ pc[t] = "status"
       /\ Executes(t, UpdateStatus(work, call[t].s, call[t].status, call[t].name), "commit")
       /\ UNCHANGED row

\* executemany: one sqlite statement per row.
replace_ports(t) ==
    \/ \E s \in SwitchId, list \in PortLists :
           Enter(t, [op |-> "replace_ports", s |-> s, list |-> list], "delete_ports")
    \/ /\ pc[t] = "delete_ports"
       /\ Executes(t, DeletePorts(work, call[t].s), "insert_ports")
       /\ UNCHANGED row
    \/ /\ pc[t] = "insert_ports"
       /\ row[t] < Len(call[t].list)
       /\ LET r == call[t].list[row[t] + 1]
          IN  IF CanInsertPort(work, call[t].s, r)
              THEN /\ Executes(t, InsertPort(work, call[t].s, r), "insert_ports")
                   /\ row' = [row EXCEPT ![t] = @ + 1]
              ELSE Raises(t)
    \/ /\ pc[t] = "insert_ports"
       /\ row[t] = Len(call[t].list)
       /\ Executes(t, work, "commit")
       /\ UNCHANGED row

add_sample(t) ==
    \/ \E s \in SwitchId, x \in Summary :
           Enter(t, [op |-> "add_sample", s |-> s, x |-> x], "insert_sample")
    \/ /\ pc[t] = "insert_sample"
       /\ IF Exists(work, call[t].s)
          THEN /\ Executes(t, InsertSample(work, call[t].s, call[t].x), "trim_samples")
               /\ UNCHANGED row
          ELSE Raises(t)
    \/ /\ pc[t] = "trim_samples"
       /\ Executes(t, TrimSamples(work, call[t].s), "commit")
       /\ UNCHANGED row

\* `if not counters: return`
upsert_port_counters(t) ==
    \/ \E s \in SwitchId, list \in CounterLists :
           /\ list # <<>>
           /\ Enter(t, [op |-> "upsert_port_counters", s |-> s, list |-> list], "upsert")
    \/ /\ pc[t] = "upsert"
       /\ row[t] < Len(call[t].list)
       /\ IF Exists(work, call[t].s)
          THEN /\ Executes(t, UpsertCounter(work, call[t].s, call[t].list[row[t] + 1]), "upsert")
               /\ row' = [row EXCEPT ![t] = @ + 1]
          ELSE Raises(t)
    \/ /\ pc[t] = "upsert"
       /\ row[t] = Len(call[t].list)
       /\ Executes(t, work, "commit")
       /\ UNCHANGED row

\* A read takes no lock.
get_ports(s) ==
    /\ answer' = work.ports[s]
    /\ UNCHANGED <<work, disk, holder, pc, call, row>>

\* The process dies and is started again: get_conn() opens the file anew.
Crash ==
    /\ work' = disk
    /\ holder' = NoThread
    /\ pc' = [t \in Thread |-> "idle"]
    /\ call' = [t \in Thread |-> NoCall]
    /\ row' = [t \in Thread |-> 0]
    /\ answer' = {}
    /\ UNCHANGED disk

Write(t) == \/ create_switch(t)
            \/ update_switch(t)
            \/ delete_switch(t)
            \/ set_switch_status(t)
            \/ replace_ports(t)
            \/ add_sample(t)
            \/ upsert_port_counters(t)
            \/ Commit(t)

Next == \/ \E t \in Thread : Write(t)
        \/ \E s \in SwitchId : get_ports(s)
        \/ Crash

Spec == Init /\ [][Next]_vars

-----------------------------------------------------------------------------
(* Properties. *)

\* What collectors deliver when they deliver every port once.
UniqueNames ==
    \A list \in PortLists \cup CounterLists : DistinctNames(list)

\* The lock is what it is for: only the thread that holds it is between two
\* statements (`with lock()`).
LockIsExclusive == \A t \in Thread : pc[t] # "idle" <=> holder = t

\* Nothing is pending on the connection while nobody holds the lock: what a
\* crash would lose, or the next commit would commit, is the current call's.
CleanWhenUnlocked == holder = NoThread => work = disk

\* The constraints of the schema hold on disk, whatever failed in between.
SchemaHolds == Consistent(disk)

\* A read, although it takes no lock, never mixes the ports of two polls: it
\* is a first part of one delivered list (replace_ports deletes first).
AnswerOfOnePoll ==
    answer = {} \/ \E list \in PortLists : \E k \in 1 .. Len(list) :
                       answer = FirstRows(list, k)

\* A set of ports is a delivered list, or that of a switch not yet polled.
Whole(ports) == ports = {} \/ \E list \in PortLists : ports = ToSet(list)

\* replace_ports replaces the port list of a switch as a whole: that is what
\* is on disk.
DiskListsWhole == \A s \in SwitchId : Whole(disk.ports[s])

\* The calls that commit are the atomic operations of Store, one after the
\* other; a call that raises, a read and a crash change nothing.
S == INSTANCE Store WITH db <- disk
StoreSpec == S!Spec

\* An id is never given twice, crashes and failed inserts included.
IdsNeverReused == S!IdsNeverReused

-----------------------------------------------------------------------------
(* The inductive invariant behind CleanWhenUnlocked and StoreSpec: what is *)
(* pending is exactly the part of the holder's call done so far.           *)

\* The statements a call executes, by its function.
LocationsOf(op) ==
    CASE op = "none"              -> {"idle"}
      [] op = "create_switch"     -> {"create", "commit"}
      [] op = "update_switch"     -> {"update", "commit"}
      [] op = "delete_switch"     -> {"delete", "commit"}
      [] op = "set_switch_status" -> {"status", "commit"}
      [] op = "replace_ports"     -> {"delete_ports", "insert_ports", "commit"}
      [] op = "add_sample"        -> {"insert_sample", "trim_samples", "commit"}
      [] OTHER                    -> {"upsert", "commit"}

\* The call's result, and the constraints under which it succeeds.
Result(d, c) ==
    CASE c.op = "create_switch"     -> InsertSwitch(d, c.ip, c.method, c.name)
      [] c.op = "update_switch"     -> UpdateSwitch(d, c.s, c.ip, c.method, c.name)
      [] c.op = "delete_switch"     -> DeleteSwitch(d, c.s)
      [] c.op = "set_switch_status" -> UpdateStatus(d, c.s, c.status, c.name)
      [] c.op = "replace_ports"     -> [d EXCEPT !.ports[c.s] = ToSet(c.list)]
      [] c.op = "add_sample"        -> TrimSamples(InsertSample(d, c.s, c.x), c.s)
      [] OTHER                      -> [d EXCEPT !.counters[c.s] = UpsertRows(@, ToSet(c.list))]

Allowed(d, c) ==
    CASE c.op = "create_switch" -> CanInsertSwitch(d, c.ip)
      [] c.op = "update_switch" -> c.ip = NULL \/ ~Exists(d, c.s) \/ IpFree(d, c.s, c.ip)
      [] c.op = "replace_ports" -> Exists(d, c.s) \/ c.list = <<>>
      [] c.op \in {"add_sample", "upsert_port_counters"} -> Exists(d, c.s)
      [] OTHER -> TRUE

\* The database between two statements of the call of thread t.
DoneSoFar(t) ==
    CASE pc[t] = "insert_ports" ->
             [disk EXCEPT !.ports[call[t].s] = FirstRows(call[t].list, row[t])]
      [] pc[t] = "trim_samples" -> InsertSample(disk, call[t].s, call[t].x)
      [] pc[t] = "upsert" ->
             [disk EXCEPT !.counters[call[t].s] = UpsertRows(@, FirstRows(call[t].list, row[t]))]
      [] pc[t] = "commit" -> Result(disk, call[t])
      [] OTHER -> disk

AllowedSoFar(t) ==
    /\ pc[t] = "create" => NextId(disk) \in SwitchId
    /\ pc[t] = "delete_ports" => row[t] = 0
    /\ pc[t] = "insert_ports" => row[t] <= Len(call[t].list)
    /\ pc[t] = "insert_ports" /\ row[t] > 0 => Exists(disk, call[t].s)
    /\ pc[t] = "trim_samples" => Exists(disk, call[t].s)
    /\ pc[t] = "upsert" => row[t] <= Len(call[t].list) /\ call[t].list # <<>>
    /\ pc[t] = "upsert" /\ row[t] > 0 => Exists(disk, call[t].s)
    /\ pc[t] = "commit" => Allowed(disk, call[t])

PendingIsTheCall ==
    \A t \in Thread : holder = t => work = DoneSoFar(t) /\ AllowedSoFar(t)

IInv == /\ TypeOK
        /\ LockIsExclusive
        /\ \A t \in Thread : pc[t] \in LocationsOf(call[t].op)
        /\ CleanWhenUnlocked
        /\ PendingIsTheCall
        /\ ReferentialIntegrity(disk)
=============================================================================
