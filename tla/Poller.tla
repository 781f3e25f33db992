------------------------------- MODULE Poller -------------------------------
(***************************************************************************)
(* Polling (backend/app/poller.py) against switch administration           *)
(* (backend/app/main.py): any number of poll_switch() coroutines, started  *)
(* by the poller loop, by "poll now" requests and by switch creation, run  *)
(* interleaved at their awaits with each other and with requests that      *)
(* create, change and delete switches.                                     *)
(*                                                                         *)
(* Each database call is one step: SharedConn shows that a call on the     *)
(* shared connection is atomic, as Store states it.                        *)
(*                                                                         *)
(* A reading of a device is its address and the time it was taken: enough  *)
(* to tell whose data a row holds and which of two rows is newer.  Every   *)
(* device has one port, which its list may name twice.                     *)
(***************************************************************************)
EXTENDS Tables, FiniteSets

CONSTANTS
    Task,         \* poll_switch() calls that may be in flight at once
    Supported,    \* methods get_collector knows
    DemoMethod,   \* the method whose collector has no octet counters
    Twice,        \* whether a device's list may name its port twice: {FALSE} or BOOLEAN
    MaxClock,     \* bound: how many collections succeed
    p             \* the port

\* What is read from a device at `src` at time `at`; as a port row it also
\* has the bandwidth utilisation, computed from the counters it followed.
Reading == [src : Ip, at : 1 .. MaxClock]
Readings == [src : Ip, at : 1 .. MaxClock, util : Reading \cup {NULL}]

ASSUME PollerAssumption ==
    /\ MaxClock \in Nat
    /\ IsFiniteSet(Task)
    /\ Supported \subseteq Method
    /\ Twice \subseteq BOOLEAN
    /\ PortName = {p}
    /\ Summary = Reading
    /\ Counter = Reading
    /\ PortData = Readings

VARIABLES
    db,      \* the database
    task,    \* the poll_switch() calls in flight
    clock,   \* how many collections have succeeded
    had,     \* history variable: the addresses a switch's row has had
    crashes, \* history variable: whether the process ever died
    overlap, \* history variable: the switches of which two polls ever ran at once
    saved,   \* the ports as they were last committed
    partial  \* history variable: the switches whose last port list broke off

vars == <<db, task, clock, had, crashes, overlap, saved, partial>>

Location == {"idle", "collect", "unreachable", "counters", "replace", "sample",
             "upsert", "online"}

\* A coroutine's frame: the row it was called with, the snapshot it collected
\* (NULL before), whether that has octet counters, and the utilisation.
NoTask == [pc |-> "idle", s |-> 0, row |-> NoSwitch, snap |-> NULL, octets |-> FALSE,
           util |-> NULL]

\* The columns of the row that polling uses.
Frame(row) == [ip |-> row.ip, method |-> row.method, name |-> row.name]

TaskState == [pc : Location, s : SwitchId \cup {0},
              row : [ip : Ip, method : Method, name : Name \cup {NULL}] \cup {NoSwitch},
              snap : Reading \cup {NULL}, octets : BOOLEAN, util : Reading \cup {NULL}]

Init ==
    /\ db = EmptyDatabase
    /\ task = [t \in Task |-> NoTask]
    /\ clock = 0
    /\ had = [s \in SwitchId |-> {}]
    /\ crashes = FALSE
    /\ overlap = {}
    /\ saved = db.ports
    /\ partial = {}

-----------------------------------------------------------------------------
(* Requests.  Every call commits, on a connection all share: what a call that *)
(* raised has left is committed by the next one.                           *)

Commits == saved' = db'.ports /\ UNCHANGED partial

\* POST /api/switches; the poll that follows is a StartPoll.
api_create_switch ==
    \E ip \in Ip, method \in Method, name \in Name \cup {NULL} :
        /\ CanInsertSwitch(db, ip)
        /\ db' = InsertSwitch(db, ip, method, name)
        /\ had' = [had EXCEPT ![NextId(db)] = {ip}]
        /\ UNCHANGED <<task, clock, crashes, overlap>>
        /\ Commits

\* PUT /api/switches/{id}
api_update_switch(s) ==
    \E ip \in Ip \cup {NULL}, method \in Method \cup {NULL}, name \in Name \cup {NULL} :
        /\ Exists(db, s)
        /\ ip # NULL => IpFree(db, s, ip)
        /\ db' = UpdateSwitch(db, s, ip, method, name)
        /\ had' = [had EXCEPT ![s] = @ \cup {db'.switches[s].ip}]
        /\ UNCHANGED <<task, clock, crashes, overlap>>
        /\ Commits

\* DELETE /api/switches/{id}
api_delete_switch(s) ==
    /\ Exists(db, s)
    /\ db' = DeleteSwitch(db, s)
    /\ UNCHANGED <<task, clock, had, crashes, overlap>>
    /\ Commits

-----------------------------------------------------------------------------
(* poll_switch(), one step between two awaits. *)

Goes(t, pc) == task' = [task EXCEPT ![t].pc = pc]

\* The coroutine returns or raises; gather() keeps the exception to itself.
Ends(t) == task' = [task EXCEPT ![t] = NoTask]

\* poll_switch(row): the row is the one list_switches(), get_switch() or
\* create_switch() returned, and is not read again.
StartPoll(t, s) ==
    /\ task[t].pc = "idle"
    /\ Exists(db, s)
    /\ clock + Cardinality({u \in Task : task[u].pc = "collect"}) < MaxClock   \* bound
    /\ task' = [task EXCEPT ![t] = [NoTask EXCEPT !.pc = "collect", !.s = s,
                                                  !.row = Frame(db.switches[s])]]
    /\ overlap' = IF \E u \in Task : task[u].s = s THEN overlap \cup {s} ELSE overlap
    /\ UNCHANGED <<db, clock, had, crashes, saved, partial>>

\* get_collector() raises ValueError: the row stays as it is.
UnsupportedMethod(t) ==
    /\ task[t].pc = "collect"
    /\ task[t].row.method \notin Supported
    /\ Ends(t)
    /\ UNCHANGED <<db, clock, had, crashes, overlap, saved, partial>>

\* collect() always returns a snapshot, here of an unreachable device (none of
\* the demo collector's is) ...
CollectFails(t) ==
    /\ task[t].pc = "collect"
    /\ task[t].row.method \in Supported \ {DemoMethod}
    /\ Goes(t, "unreachable")
    /\ UNCHANGED <<db, clock, had, crashes, overlap, saved, partial>>

\* ... here of the device at the row's address; `now` is taken on return.
Collect(t) ==
    /\ task[t].pc = "collect"
    /\ task[t].row.method \in Supported
    /\ clock' = clock + 1
    /\ \E octets \in BOOLEAN :
           /\ octets => task[t].row.method # DemoMethod
           /\ task' = [task EXCEPT ![t].pc = "counters",
                                   ![t].snap = [src |-> task[t].row.ip, at |-> clock'],
                                   ![t].octets = octets]
    /\ UNCHANGED <<db, had, crashes, overlap, saved, partial>>

MarkUnreachable(t) ==
    /\ task[t].pc = "unreachable"
    /\ db' = UpdateStatus(db, task[t].s, "unreachable", NULL)
    /\ Ends(t)
    /\ UNCHANGED <<clock, had, crashes, overlap>>
    /\ Commits

\* _apply_counter_utilization: the delta to the counters in the database, if
\* the port has both, time has passed and the delta is not negative.  Whether
\* it is negative is open: devices reset, and addresses change devices.
ApplyCounters(t) ==
    /\ task[t].pc = "counters"
    /\ LET prev == {r.value : r \in {q \in db.counters[task[t].s] : q.name = p}}
           span == {c \in prev : task[t].octets /\ c.at < task[t].snap.at}
       IN  \E util \in span \cup {NULL} :
               task' = [task EXCEPT ![t].pc = "replace", ![t].util = util]
    /\ UNCHANGED <<db, clock, had, crashes, overlap, saved, partial>>

\* replace_ports(): a row of a deleted switch violates the foreign key ...
ReplacePorts(t) ==
    /\ task[t].pc = "replace"
    /\ LET s == task[t].s
           data == [src |-> task[t].snap.src, at |-> task[t].snap.at, util |-> task[t].util]
       IN  \/ /\ ~Exists(db, s)
              /\ Ends(t) /\ UNCHANGED <<db, saved, partial>>
           \/ /\ Exists(db, s)
              /\ db' = [db EXCEPT !.ports[s] = {[name |-> p, data |-> data]}]
              /\ \/ /\ FALSE \in Twice
                    /\ Goes(t, "sample")
                    /\ saved' = db'.ports
                    /\ partial' = partial \ {s}
                 \* ... and a name a second time UNIQUE(switch_id, name), after the
                 \* DELETE and the first row, which stay as they are uncommitted.
                 \/ /\ TRUE \in Twice /\ task[t].row.method # DemoMethod
                    /\ Ends(t)
                    /\ UNCHANGED saved
                    /\ partial' = partial \cup {s}
    /\ UNCHANGED <<clock, had, crashes, overlap>>

\* Mutant: a violated foreign key is retried.
AddSampleRetrying(t) ==
    /\ task[t].pc = "sample"
    /\ Exists(db, task[t].s)
    /\ db' = TrimSamples(InsertSample(db, task[t].s, task[t].snap), task[t].s)
    /\ Goes(t, IF task[t].octets THEN "upsert" ELSE "online")
    /\ UNCHANGED <<clock, had, crashes, overlap>>
    /\ Commits

\* add_sample(summarize_ports(...)); no counters, no upsert.
AddSample(t) ==
    /\ task[t].pc = "sample"
    /\ LET s == task[t].s
       IN  IF Exists(db, s)
           THEN /\ db' = TrimSamples(InsertSample(db, s, task[t].snap), s)
                /\ Goes(t, IF task[t].octets THEN "upsert" ELSE "online")
                /\ Commits
           ELSE Ends(t) /\ UNCHANGED <<db, saved, partial>>
    /\ UNCHANGED <<clock, had, crashes, overlap>>

\* Mutant: the switch is looked up by the address that was polled, not by its id.
UpsertCountersByAddress(t) ==
    /\ task[t].pc = "upsert"
    /\ LET there == {s \in SwitchId : Exists(db, s) /\ db.switches[s].ip = task[t].row.ip}
       IN  IF there # {}
           THEN /\ \E s \in there :
                      db' = UpsertCounter(db, s, [name |-> p, value |-> task[t].snap])
                /\ Goes(t, "online")
                /\ Commits
           ELSE Ends(t) /\ UNCHANGED <<db, saved, partial>>
    /\ UNCHANGED <<clock, had, crashes, overlap>>

UpsertCounters(t) ==
    /\ task[t].pc = "upsert"
    /\ LET s == task[t].s
       IN  IF Exists(db, s)
           THEN /\ db' = UpsertCounter(db, s, [name |-> p, value |-> task[t].snap])
                /\ Goes(t, "online")
                /\ Commits
           ELSE Ends(t) /\ UNCHANGED <<db, saved, partial>>
    /\ UNCHANGED <<clock, had, crashes, overlap>>

\* The demo collector reports the captured row's name (or one made from the
\* address), others the device's.
MarkOnline(t) ==
    /\ task[t].pc = "online"
    /\ \E name \in Name \cup {NULL} :
           /\ task[t].row.method = DemoMethod /\ task[t].row.name # NULL =>
                  name = task[t].row.name
           /\ db' = UpdateStatus(db, task[t].s, "online", name)
    /\ Ends(t)
    /\ UNCHANGED <<clock, had, crashes, overlap>>
    /\ Commits

\* Another writer of the process (add_audit(), create_alert(), ...) commits.
OtherCommit ==
    /\ saved # db.ports
    /\ UNCHANGED <<db, task, clock, had, crashes, overlap>>
    /\ Commits

\* The process dies; its coroutines are gone, of the database what is committed stays.
Crash ==
    /\ task' = [t \in Task |-> NoTask]
    /\ crashes' = TRUE
    /\ db' = [db EXCEPT !.ports = saved]
    /\ UNCHANGED <<clock, had, overlap, saved, partial>>

PollStep(t) == \/ UnsupportedMethod(t)
               \/ CollectFails(t)
               \/ Collect(t)
               \/ MarkUnreachable(t)
               \/ ApplyCounters(t)
               \/ ReplacePorts(t)
               \/ AddSample(t)
               \/ UpsertCounters(t)
               \/ MarkOnline(t)

Next == \/ api_create_switch
        \/ \E s \in SwitchId : api_update_switch(s) \/ api_delete_switch(s)
        \/ \E t \in Task, s \in SwitchId : StartPoll(t, s)
        \/ \E t \in Task : PollStep(t)
        \/ OtherCommit
        \/ Crash

\* Every await of a poll returns, a database call after its statements and
\* collect() after HTTP_TIMEOUT or SNMP_TIMEOUT for each of its requests.  That
\* httpx starts the timeout anew with every piece of an answer is left out.
Fairness == \A t \in Task : WF_vars(PollStep(t))

Spec == Init /\ [][Next]_vars /\ Fairness

-----------------------------------------------------------------------------
(* Properties. *)

TypeOK ==
    /\ db \in Database
    /\ task \in [Task -> TaskState]
    /\ clock \in 0 .. MaxClock
    /\ had \in [SwitchId -> SUBSET Ip]
    /\ crashes \in BOOLEAN
    /\ overlap \subseteq SwitchId
    /\ saved \in [SwitchId -> SUBSET PortRow]
    /\ partial \subseteq SwitchId

\* Whatever polls were in flight when switches were deleted, created and
\* readdressed, a switch holds only data of devices at addresses it has had:
\* ports, history, counters and utilisations of one never turn up under
\* another.
OwnData ==
    \A s \in SwitchId : Exists(db, s) =>
        /\ \A r \in db.ports[s] : {r.data.src} \cup {c.src : c \in {r.data.util} \ {NULL}}
                                    \subseteq had[s]
        /\ \A i \in 1 .. Len(db.samples[s]) : db.samples[s][i].src \in had[s]
        /\ \A r \in db.counters[s] : r.value.src \in had[s]

\* A switch shown online has been polled to the end once: it has a history,
\* and a crash or a failing call between the steps of a poll cannot leave it
\* online without one.
OnlineIsSampled ==
    Retention > 0 =>
        \A s \in SwitchId :
            Exists(db, s) /\ db.switches[s].status = "online" => db.samples[s] # <<>>

\* Every step of polling and administration is an operation of Store, if no list
\* names a port twice (UniqueNames).
UniqueNames == Twice = {FALSE}
S == INSTANCE Store WITH
         PortLists    <- {<<[name |-> p, data |-> d]>> : d \in PortData},
         CounterLists <- {<<[name |-> p, value |-> c]>> : c \in Counter}
StoreSpec == S!Spec

\* A poll is never stuck: whatever its device answers, a deleted switch or a failing
\* call included, it has a step left until it returns or raises.  As no step
\* leads back to an earlier one, a poll that starts ends if its awaits do, and
\* poll_all(), which gathers all of them, does too.
NeverStuck == \A t \in Task : task[t].pc # "idle" => ENABLED PollStep(t)

\* No poll of the switch has anything left to write.
Settled(s) == \A t \in Task : task[t].s = s => task[t].pc \in {"collect", "unreachable"}

\* As long as no two polls of a switch overlap, whatever polls of other switches
\* do, its latest sample sums up the ports shown
\* (test_history_endpoint_no_inflation), but for a list that broke off because it
\* names a port twice: then the ports differ until a poll gives a whole one.
HistoryMatchesLive ==
    \A s \in SwitchId \ (overlap \cup partial) :
        Exists(db, s) /\ Settled(s) /\ ~crashes /\ db.samples[s] # <<>> =>
            \A r \in db.ports[s] :
                db.samples[s][Len(db.samples[s])] = [src |-> r.data.src, at |-> r.data.at]

\* As long as no two polls of a switch overlap, the counters kept for its next
\* delta are the last ones read: a later row never gives way to an earlier one.
CountersMoveForward ==
    [][\A s \in SwitchId \ overlap :
           \A r \in db.counters[s], q \in db'.counters[s] :
               r.name = q.name => q.value.at >= r.value.at]_vars
=============================================================================
