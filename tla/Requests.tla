------------------------------ MODULE Requests ------------------------------
(***************************************************************************)
(* The request handlers of backend/app/main.py that check, change, log and *)
(* answer, one step between two awaits, for any number of clients.  Poller *)
(* has create, change and delete as single steps; here a switch may go,    *)
(* and its address be taken, between any two awaits of a request.          *)
(*                                                                         *)
(* Rows keep what a handler decides on: address, region, method.  The      *)
(* process may die at any time; at the next start lifespan() seeds an      *)
(* empty table and rebuilds the demo links, if SEED_DEMO is on then.       *)
(***************************************************************************)
EXTENDS Topology, Sequences

CONSTANTS
    Client,
    SwitchId,     \* values of switches.id that AUTOINCREMENT may reach
    Ip, Region, Method,
    Supported,    \* methods get_collector knows
    DemoMethod,
    Demo,         \* _DEMO_SWITCHES, a sequence of rows
    Creates,      \* bodies of POST /api/switches: rows
    Updates,      \* bodies of PUT /api/switches/{id}, see Body
    User, Role,   \* user names, and roles a body may have
    RuleId,       \* values of alert_rules.id
    Asked,        \* the ids that requests name
    MaxRequests,  \* bound: how many requests are sent
    NULL,         \* a field left out, a value not read yet
    NoSwitch      \* None, for a row that is not there

Roles == {"admin", "operator", "viewer"}
Row  == [ip : Ip, region : Region, method : Method]
Body == [ip : Ip \cup {NULL}, region : Region \cup {NULL}, method : Method \cup {NULL},
         geo : BOOLEAN]
Graph == [nodes : SUBSET SwitchId, edges : SUBSET (SwitchId \X SwitchId)]

\* None is neither a row nor an answer.
ASSUME RequestsAssumption ==
    /\ SwitchId \subseteq Nat \ {0} /\ RuleId \subseteq Nat \ {0}
    /\ Demo \in Seq(Row) /\ Len(Demo) \in SwitchId \cup {0}
    /\ Asked \subseteq SwitchId
    /\ NULL \notin SwitchId
    /\ NoSwitch \notin Row \cup Graph \cup {NULL}
    /\ Creates \subseteq Row
    /\ Updates \subseteq Body
    /\ MaxRequests \in Nat

OfSwitch == {"api_get_switch", "api_poll_switch", "api_backup_switch", "api_update_switch",
             "api_delete_switch"}
Query == [kind : OfSwitch \ {"api_update_switch"}, arg : Asked, body : {NULL}]
    \cup [kind : {"api_update_switch"}, arg : Asked, body : Updates]
    \cup [kind : {"api_create_switch"}, arg : {NULL}, body : Creates]
    \cup [kind : {"api_create_user"}, arg : User, body : Role]
    \cup [kind : {"api_delete_user"}, arg : User, body : {NULL}]
    \cup [kind : {"api_create_alert_rule", "api_topology", "api_upgrade_apply"},
          arg : {NULL}, body : {NULL}]
    \cup [kind : {"api_delete_alert_rule"}, arg : Asked \cap RuleId, body : {NULL}]

VARIABLES
    switches,   \* by id
    sequence,   \* sqlite_sequence of switches and of alert_rules
    isl,        \* the rows of isl_links
    backups,    \* the switches that have config_backups
    records,    \* users, by name, and alert_rules, by id
    audit,      \* the clients whose request in hand has its entry in audit_log
    script,     \* scripts/upgrade.sh as started by a client's request
    req,        \* the request of each client, being handled or answered
    count,      \* how many requests were sent
    absent,     \* history variable: the clients whose request's row was missing meanwhile
    taken       \* history variable: ... whose request's key another row had meanwhile

tables == <<switches, sequence, isl, backups, records>>
vars == <<tables, audit, script, req, count, absent, taken>>

\* arg is the id or name asked for, or the id inserted; row what was read; done
\* whether the statement that the request is about took effect.
NoRequest == [kind |-> "none", arg |-> NULL, body |-> NULL, pc |-> "idle", row |-> NULL,
              done |-> FALSE, code |-> 0]

Exists(s) == switches[s] # NoSwitch

IpFree(s, ip) == \A t \in SwitchId \ {s} : Exists(t) => switches[t].ip # ip

\* Mutant: AUTOINCREMENT is forgotten, an id is the highest in use plus one.
NextSwitchInUse == 1 + Max({0} \cup {s \in SwitchId : Exists(s)})

NextSwitch == sequence.switches + 1
NextRule == sequence.alert_rules + 1

-----------------------------------------------------------------------------
(* lifespan() *)

\* _seed_demo() on a table without rows, with the ids from n + 1 on.
Seeded(n) == [s \in SwitchId |-> IF s - n \in DOMAIN Demo THEN Demo[s - n] ELSE NoSwitch]

\* _rebuild_demo_topology(): the links of every switch are replaced.
Rebuilt(sw, links) ==
    LET there == {s \in SwitchId : sw[s] # NoSwitch}
    IN  IF \E s \in there : sw[s].method = DemoMethod
        THEN build_demo_isl([s \in there |-> sw[s].region])
        ELSE links

Init ==
    /\ \E n \in {0, Len(Demo)} :    \* without and with SEED_DEMO
           /\ switches = IF n = 0 THEN [s \in SwitchId |-> NoSwitch] ELSE Seeded(0)
           /\ sequence = [switches |-> n, alert_rules |-> 0]
    /\ isl = Rebuilt(switches, {})
    /\ backups = {} /\ records = {} /\ audit = {}
    /\ script = [c \in Client |-> "none"]
    /\ req = [c \in Client |-> NoRequest]
    /\ count = 0
    /\ absent = {} /\ taken = {}

\* The process dies, and its requests with it, ...
Dies ==
    /\ audit' = {}
    /\ script' = [c \in Client |-> "none"]
    /\ req' = [c \in Client |-> NoRequest]
    /\ UNCHANGED <<backups, records, count>>

\* ... and is started again, without SEED_DEMO ...
RestartUnseeded == Dies /\ UNCHANGED <<switches, sequence, isl>>

\* ... and with it.
Restart ==
    /\ Dies
    /\ IF \E s \in SwitchId : Exists(s)
       THEN UNCHANGED <<switches, sequence>>
       ELSE /\ sequence.switches + Len(Demo) \in SwitchId \cup {0}    \* bound
            /\ switches' = Seeded(sequence.switches)
            /\ sequence' = [sequence EXCEPT !.switches = @ + Len(Demo)]
    /\ isl' = Rebuilt(switches', isl)

-----------------------------------------------------------------------------
(* Steps of a handler. *)

At(c, kinds, pc) == req[c].kind \in kinds /\ req[c].pc = pc

Await(c, f, pc) == req' = [req EXCEPT ![c] = [f EXCEPT !.pc = pc]]
Answer(c, f, code) == req' = [req EXCEPT ![c] = [f EXCEPT !.pc = "answered", !.code = code]]

\* _switch_with_summary(None) and created["username"] raise, without a handler.
Respond(c, f) == Answer(c, f, IF f.row = NoSwitch THEN 500 ELSE 200)

Done(c) == [req[c] EXCEPT !.done = TRUE]

Send(c) ==
    /\ req[c].pc \in {"idle", "answered"}
    /\ count < MaxRequests
    /\ count' = count + 1
    /\ \E q \in Query :
           Await(c, [NoRequest EXCEPT !.kind = q.kind, !.arg = q.arg, !.body = q.body], "begin")
    /\ audit' = audit \ {c}
    /\ script' = [script EXCEPT ![c] = "none"]
    /\ UNCHANGED tables

\* `row = get_switch(id)`, `if not row: 404`.
Get(c) ==
    /\ At(c, OfSwitch \ {"api_delete_switch"}, "begin")
    /\ LET f == [req[c] EXCEPT !.row = switches[req[c].arg]]
       IN  \/ f.row = NoSwitch /\ Answer(c, f, 404)
           \/ /\ f.row # NoSwitch
              /\ \/ f.kind = "api_get_switch" /\ Respond(c, f)
                 \/ f.kind = "api_poll_switch" /\ Await(c, f, "poll")
                 \/ f.kind \in {"api_backup_switch", "api_update_switch"} /\ Await(c, f, "write")
    /\ UNCHANGED <<tables, audit, script, count>>

\* add_audit(), then the answer, or the first poll of a new switch, or the script.
AddAudit(c) ==
    /\ \/ req[c].pc = "audit"
       \/ At(c, {"api_upgrade_apply"}, "begin")
    /\ audit' = audit \cup {c}
    /\ \/ req[c].kind = "api_create_switch" /\ Await(c, req[c], "poll")
       \/ req[c].kind = "api_upgrade_apply" /\ Await(c, req[c], "script")
       \/ /\ req[c].kind \notin {"api_create_switch", "api_upgrade_apply"}
          /\ Respond(c, req[c])
    /\ UNCHANGED <<tables, script, count>>

-----------------------------------------------------------------------------
(* Switches *)

\* repo.create_switch() up to the end of its lock; UNIQUE(ip) becomes a 400.
InsertSwitch(c) ==
    /\ At(c, {"api_create_switch"}, "begin")
    /\ LET s == NextSwitch
       IN  /\ s \in SwitchId    \* bound
           /\ IF IpFree(s, req[c].body.ip)
              THEN /\ switches' = [switches EXCEPT ![s] = req[c].body]
                   /\ sequence' = [sequence EXCEPT !.switches = s]
                   /\ Await(c, [Done(c) EXCEPT !.arg = s], "read")
              ELSE Answer(c, req[c], 400) /\ UNCHANGED <<switches, sequence>>
    /\ UNCHANGED <<isl, backups, records, audit, script, count>>

\* Mutant: the id is asked for after the lock, when another may have inserted.
ReadSwitchLate(c) ==
    /\ At(c, {"api_create_switch", "api_update_switch"}, "read")
    /\ LET id == IF req[c].kind = "api_create_switch" THEN sequence.switches ELSE req[c].arg
           f == [req[c] EXCEPT !.arg = id, !.row = switches[id]]
       IN  Await(c, f, IF f.kind = "api_update_switch" /\ f.body.geo THEN "geo" ELSE "audit")
    /\ UNCHANGED <<tables, audit, script, count>>

\* The get_switch() at the end of create_switch() and update_switch(), unlocked.
ReadSwitch(c) ==
    /\ At(c, {"api_create_switch", "api_update_switch"}, "read")
    /\ LET f == [req[c] EXCEPT !.row = switches[req[c].arg]]
       IN  Await(c, f, IF f.kind = "api_update_switch" /\ f.body.geo THEN "geo" ELSE "audit")
    /\ UNCHANGED <<tables, audit, script, count>>

\* A poll raises on None, on a method without collector, on rows of a switch
\* that is gone, and on a device that lists a port name twice; ...
MayRaise(f) == f.row # NoSwitch /\ f.row.method = DemoMethod => ~Exists(f.arg)

\* ... it returns if it wrote its rows, or did not reach the device.
MayReturn(f) == /\ f.row # NoSwitch
                /\ f.row.method \in Supported
                /\ f.row.method # DemoMethod \/ Exists(f.arg)

\* Mutant: the first poll of a new switch is not in a try.
PollRaisesUncaught(c) ==
    /\ At(c, {"api_create_switch", "api_poll_switch"}, "poll")
    /\ MayRaise(req[c])
    /\ Answer(c, req[c], 500)
    /\ UNCHANGED <<tables, audit, script, count>>

\* A new switch is answered as it was read before; "poll now" fails.
PollRaises(c) ==
    /\ At(c, {"api_create_switch", "api_poll_switch"}, "poll")
    /\ MayRaise(req[c])
    /\ IF req[c].kind = "api_create_switch" THEN Respond(c, req[c]) ELSE Answer(c, req[c], 500)
    /\ UNCHANGED <<tables, audit, script, count>>

PollReturns(c) ==
    /\ At(c, {"api_create_switch", "api_poll_switch"}, "poll")
    /\ MayReturn(req[c])
    /\ IF req[c].kind = "api_create_switch"
       THEN Await(c, req[c], "reread")
       ELSE Respond(c, req[c])
    /\ UNCHANGED <<tables, audit, script, count>>

\* The row as the poll, or set_switch_geo(), left it.
Reread(c) ==
    /\ At(c, {"api_create_switch", "api_update_switch"}, "reread")
    /\ LET f == [req[c] EXCEPT !.row = switches[req[c].arg]]
       IN  IF f.kind = "api_create_switch" THEN Respond(c, f) ELSE Await(c, f, "audit")
    /\ UNCHANGED <<tables, audit, script, count>>

Given(new, old) == IF new = NULL THEN old ELSE new

\* repo.update_switch() up to its last read.  Fields left out stay; the address
\* of another row is no 400 here; a row that is gone is not missed yet.
UpdateSwitch(c) ==
    /\ At(c, {"api_update_switch"}, "write")
    /\ LET s == req[c].arg
           b == req[c].body
           changes == {b.ip, b.region, b.method} # {NULL}
       IN  IF changes /\ Exists(s) /\ ~IpFree(s, b.ip)
           THEN Answer(c, req[c], 500) /\ UNCHANGED switches
           ELSE /\ switches' = IF Exists(s)
                               THEN [switches EXCEPT ![s] =
                                       [ip     |-> Given(b.ip, @.ip),
                                        region |-> Given(b.region, @.region),
                                        method |-> Given(b.method, @.method)]]
                               ELSE switches
                /\ Await(c, [req[c] EXCEPT !.done = changes /\ Exists(s)], "read")
    /\ UNCHANGED <<sequence, isl, backups, records, audit, script, count>>

\* set_switch_geo(); coordinates are left out.
SetGeo(c) ==
    /\ At(c, {"api_update_switch"}, "geo")
    /\ Await(c, [req[c] EXCEPT !.done = @ \/ Exists(req[c].arg)], "reread")
    /\ UNCHANGED <<tables, audit, script, count>>

\* `existing` (kept in body), for the audit log only.
GetExisting(c) ==
    /\ At(c, {"api_delete_switch"}, "begin")
    /\ Await(c, [req[c] EXCEPT !.body = switches[req[c].arg]], "write")
    /\ UNCHANGED <<tables, audit, script, count>>

\* Mutant: config_backups is declared without ON DELETE CASCADE.
CascadeLinks(s) == /\ switches' = [switches EXCEPT ![s] = NoSwitch]
                   /\ isl' = {l \in isl : l[1] # s}
                   /\ UNCHANGED backups

\* ON DELETE CASCADE; remote_switch_id is no foreign key.
Cascade(s) == /\ switches' = [switches EXCEPT ![s] = NoSwitch]
              /\ isl' = {l \in isl : l[1] # s}
              /\ backups' = backups \ {s}

\* Mutant: `if not existing` for `if not ok`.
DeleteSwitchSeen(c) ==
    /\ At(c, {"api_delete_switch"}, "write")
    /\ Cascade(req[c].arg)
    /\ IF req[c].body # NoSwitch
       THEN Await(c, [req[c] EXCEPT !.done = Exists(req[c].arg)], "audit")
       ELSE Answer(c, req[c], 404)
    /\ UNCHANGED <<sequence, records, audit, script, count>>

\* rowcount decides, not what was read before.
DeleteSwitch(c) ==
    /\ At(c, {"api_delete_switch"}, "write")
    /\ Cascade(req[c].arg)
    /\ IF Exists(req[c].arg) THEN Await(c, Done(c), "audit") ELSE Answer(c, req[c], 404)
    /\ UNCHANGED <<sequence, records, audit, script, count>>

\* The foreign key, and then the row read back, may find the switch gone.
InsertBackup(c) ==
    /\ At(c, {"api_backup_switch"}, "write")
    /\ IF Exists(req[c].arg)
       THEN backups' = backups \cup {req[c].arg} /\ Await(c, Done(c), "read")
       ELSE Answer(c, req[c], 500) /\ UNCHANGED backups
    /\ UNCHANGED <<switches, sequence, isl, records, audit, script, count>>

ReadBackup(c) ==
    /\ At(c, {"api_backup_switch"}, "read")
    /\ IF req[c].arg \in backups THEN Await(c, req[c], "audit") ELSE Answer(c, req[c], 500)
    /\ UNCHANGED <<tables, audit, script, count>>

\* Mutant: the links are listed first.
api_topology_links_first(c) ==
    /\ \/ /\ At(c, {"api_topology"}, "begin")
          /\ Await(c, [req[c] EXCEPT !.row = isl], "list")
       \/ /\ At(c, {"api_topology"}, "list")
          /\ Respond(c, [req[c] EXCEPT !.row = graph({s \in SwitchId : Exists(s)}, @)])
    /\ UNCHANGED <<tables, audit, script, count>>

\* list_switches(), then list_isl().
api_topology(c) ==
    /\ \/ /\ At(c, {"api_topology"}, "begin")
          /\ Await(c, [req[c] EXCEPT !.row = {s \in SwitchId : Exists(s)}], "list")
       \/ /\ At(c, {"api_topology"}, "list")
          /\ Respond(c, [req[c] EXCEPT !.row = graph(@, isl)])
    /\ UNCHANGED <<tables, audit, script, count>>

-----------------------------------------------------------------------------
(* Users and alert rules *)

\* The role is checked, UNIQUE(username) becomes a 400.
InsertUser(c) ==
    /\ At(c, {"api_create_user"}, "begin")
    /\ IF req[c].body \in Roles /\ req[c].arg \notin records
       THEN records' = records \cup {req[c].arg} /\ Await(c, Done(c), "read")
       ELSE Answer(c, req[c], 400) /\ UNCHANGED records
    /\ UNCHANGED <<switches, sequence, isl, backups, audit, script, count>>

InsertRule(c) ==
    /\ At(c, {"api_create_alert_rule"}, "begin")
    /\ NextRule \in RuleId    \* bound
    /\ records' = records \cup {NextRule}
    /\ sequence' = [sequence EXCEPT !.alert_rules = NextRule]
    /\ Await(c, [Done(c) EXCEPT !.arg = NextRule], "read")
    /\ UNCHANGED <<switches, isl, backups, audit, script, count>>

\* The row inserted, if it is still there: dict(None) raises for a rule, None for a
\* user is missed after the audit entry.
ReadInserted(c) ==
    /\ At(c, {"api_create_user", "api_create_alert_rule"}, "read")
    /\ \/ req[c].arg \in records /\ Await(c, req[c], "audit")
       \/ /\ req[c].arg \notin records
          /\ IF req[c].kind = "api_create_user"
             THEN Await(c, [req[c] EXCEPT !.row = NoSwitch], "audit")
             ELSE Answer(c, req[c], 500)
    /\ UNCHANGED <<tables, audit, script, count>>

\* delete_user(), delete_alert_rule(): rowcount decides.
DeleteRecord(c) ==
    /\ At(c, {"api_delete_user", "api_delete_alert_rule"}, "begin")
    /\ records' = records \ {req[c].arg}
    /\ IF req[c].arg \in records THEN Await(c, Done(c), "audit") ELSE Answer(c, req[c], 404)
    /\ UNCHANGED <<switches, sequence, isl, backups, audit, script, count>>

-----------------------------------------------------------------------------
(* upgrade.py *)

\* The script is started, or refused: not allowed, not there, no process.
StartScript(c) ==
    /\ At(c, {"api_upgrade_apply"}, "script")
    /\ \/ Respond(c, req[c]) /\ UNCHANGED script
       \/ Await(c, req[c], "wait") /\ script' = [script EXCEPT ![c] = "running"]
    /\ UNCHANGED <<tables, audit, count>>

\* It may also hang, and goes on after its request was answered.
ScriptExits(c) ==
    /\ script[c] = "running"
    /\ \E end \in {"applied", "failed"} : script' = [script EXCEPT ![c] = end]
    /\ UNCHANGED <<tables, audit, req, count>>

\* Mutant: communicate() is awaited without a time limit.
ScriptAwaited(c) ==
    /\ At(c, {"api_upgrade_apply"}, "wait")
    /\ script[c] # "running"
    /\ Respond(c, [req[c] EXCEPT !.done = script[c] = "applied"])
    /\ UNCHANGED <<tables, audit, script, count>>

\* communicate() returns when it has ended, or after 300 s.
ScriptReported(c) ==
    /\ At(c, {"api_upgrade_apply"}, "wait")
    /\ Respond(c, [req[c] EXCEPT !.done = script[c] = "applied"])
    /\ UNCHANGED <<tables, audit, script, count>>

-----------------------------------------------------------------------------

Step(c) == \/ Get(c) \/ AddAudit(c)
           \/ InsertSwitch(c) \/ ReadSwitch(c) \/ PollRaises(c) \/ PollReturns(c) \/ Reread(c)
           \/ UpdateSwitch(c) \/ SetGeo(c)
           \/ GetExisting(c) \/ DeleteSwitch(c)
           \/ InsertBackup(c) \/ ReadBackup(c)
           \/ api_topology(c)
           \/ InsertUser(c) \/ InsertRule(c) \/ ReadInserted(c) \/ DeleteRecord(c)
           \/ StartScript(c) \/ ScriptReported(c)

\* The row that a request asks for, or has inserted, is not there.
Missing(c) ==
    LET f == req[c]
    IN  /\ f.kind \in OfSwitch \cup {"api_delete_user", "api_delete_alert_rule"} \/ f.done
        /\ IF f.kind \in OfSwitch \cup {"api_create_switch"} THEN ~Exists(f.arg)
           ELSE f.arg \in User \cup RuleId /\ f.arg \notin records

\* Another row has the key that a request wants to give.
Taken(c) ==
    LET f == req[c]
    IN  \/ f.kind \in {"api_create_switch", "api_update_switch"} /\ ~IpFree(f.arg, f.body.ip)
        \/ f.kind = "api_create_user" /\ f.arg \in records

\* The history variables take note of every state from the first to the answer.
Since(c, then) == c \in then /\ req'[c].pc # "idle" /\ (req'[c].pc = "begin" => req[c].pc = "begin")
Answered(c) == req[c].pc = "answered"
Watch ==
    /\ absent' = {c \in Client : Since(c, absent) \/ (Missing(c)' /\ ~(Answered(c) /\ Answered(c)'))}
    /\ taken'  = {c \in Client : Since(c, taken) \/ (Taken(c)' /\ ~(Answered(c) /\ Answered(c)'))}

Next == /\ \/ Restart \/ RestartUnseeded
           \/ \E c \in Client : Send(c) \/ Step(c) \/ ScriptExits(c)
        /\ Watch

\* The event loop runs every handler whose await is over, and every await ends:
\* database calls, polls by the time-outs of their requests (see Poller), the
\* script by wait_for().
Fairness == \A c \in Client : WF_vars(Step(c) /\ Watch)

Spec == Init /\ [][Next]_vars /\ Fairness

-----------------------------------------------------------------------------
(* Properties. *)

TypeOK ==
    /\ switches \in [SwitchId -> Row \cup {NoSwitch}]
    /\ sequence \in [switches : SwitchId \cup {0}, alert_rules : RuleId \cup {0}]
    /\ isl \subseteq SwitchId \X SwitchId
    /\ backups \subseteq {s \in SwitchId : Exists(s)}
    /\ \A l \in isl : Exists(l[1])
    /\ records \subseteq User \cup {r \in RuleId : r <= sequence.alert_rules}
    /\ \A s \in SwitchId : Exists(s) => s <= sequence.switches
    /\ \A c \in Client : /\ req[c].pc \in {"idle", "begin", "poll", "write", "read", "geo", "reread",
                                          "audit", "list", "script", "wait", "answered"}
                         /\ req[c].code \in {0, 200, 400, 404, 500}

Changing == {"api_create_switch", "api_update_switch", "api_delete_switch", "api_backup_switch",
             "api_create_user", "api_delete_user", "api_create_alert_rule", "api_delete_alert_rule"}

\* A request only fails for a reason, whatever the others do: 404 because the
\* row was not there at some moment of the request, 400 because of the role or
\* because another row had the key, 500 because the row was deleted meanwhile, the new
\* address was taken, or a poll on request failed.
FailuresExplained ==
    \A c \in Client : Answered(c) =>
        /\ req[c].code = 404 => c \in absent
        /\ req[c].code = 400 =>
               \/ c \in taken
               \/ req[c].kind = "api_create_user" /\ req[c].body \notin Roles
        /\ req[c].code = 500 =>
               \/ c \in absent
               \/ req[c].kind = "api_update_switch" /\ c \in taken
               \/ req[c].kind = "api_poll_switch" /\ req[c].row.method # DemoMethod

AsksNothing(f) == f.kind = "api_update_switch" /\ ~f.body.geo
                     /\ {f.body.ip, f.body.region, f.body.method} = {NULL}

\* audit_log is the history of changes (db.py:86, README.md:20): a change that took
\* effect has its entry when its request is answered, unless what was made
\* was deleted at once; and there is no entry for a change that had no effect, except
\* of a PUT that asks for none or whose switch was deleted meanwhile.
AuditTrail ==
    \A c \in Client : Answered(c) /\ req[c].kind \in Changing =>
        /\ req[c].done /\ c \notin audit => c \in absent /\ req[c].code = 500
        /\ c \in audit /\ ~req[c].done => \/ AsksNothing(req[c])
                                          \/ c \in absent /\ req[c].kind = "api_update_switch"
        /\ req[c].code = 200 => c \in audit

\* Creations that run at the same time each answer with a switch of their own:
\* lastrowid is the shared connection's, and read before the lock is left.
CreatedApart ==
    \A c, d \in Client :
        /\ req[c].kind = "api_create_switch" /\ req[c].done
        /\ req[d].kind = "api_create_switch" /\ req[d].done
        /\ c # d /\ Answered(c) /\ Answered(d)
        => req[c].arg # req[d].arg

\* A link whose far end was deleted never gets another end: remote_switch_id has no
\* foreign key, only ids that are given once keep a new switch from inheriting links.
NothingInherited ==
    [][\A l \in isl \cap isl' : ~Exists(l[2]) => ~Exists(l[2])']_vars

\* After a start with SEED_DEMO, if one switch is a demo switch, every region is one
\* ring, of two switches one link (test_topology_ring_and_graph,
\* test_topology_two_nodes_single_link).
IsRings ==
    LET there == {s \in SwitchId : Exists(s)}
        edges == graph(there, isl).edges
        group(s) == {t \in there : switches[t].region = switches[s].region}
    IN  (\E s \in there : switches[s].method = DemoMethod) =>
            /\ \A e \in edges : e[2] \in group(e[1]) \ {e[1]}
            /\ \A s \in there :
                   Degree(edges, s) = CASE Cardinality(group(s)) = 1 -> 0
                                        [] Cardinality(group(s)) = 2 -> 1
                                        [] OTHER                     -> 2
RebuiltAsRings == [][Restart => IsRings']_vars

\* The graph answered starts every edge at one of its nodes, although nodes and
\* links are two queries and switches are deleted between them.
EdgesStartAtNodes ==
    \A c \in Client : Answered(c) /\ req[c].kind = "api_topology" =>
        \A e \in req[c].row.edges : e[1] \in req[c].row.nodes

\* Every request is answered, or its process dies: also when what it is about goes away
\* under it, its poll fails, or the upgrade script hangs.
EveryRequestAnswered ==
    \A c \in Client : req[c].pc # "idle" ~> req[c].pc \in {"idle", "answered"}
=============================================================================
