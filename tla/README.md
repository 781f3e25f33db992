# san_sw: a TLA+ model of the SAN switch manager

san_sw is one Python process (FastAPI on uvicorn, one asyncio event loop, a pool of worker
threads, one SQLite connection) that polls Brocade switches, keeps their ports, history and
octet counters, evaluates alert rules and serves a web page.  This directory models its
backend, `src/backend/app`, in TLA+: the modules are translated from the code, checked with
TLC on small instances, and the theorems are proved with TLAPS for all instances.

Contents: [the system](#the-system) - [modules](#modules) - [runs](#runs) -
[disagreements found](#disagreements-found) - [proofs](#proofs) - [what is not modelled](#what-is-not-modelled) -
[plan](#plan)

## The system

| Component (file) | State | Operations | Correct if |
|---|---|---|---|
| Schema, connection (`db.py`) | the tables; one connection shared by all threads; an `RLock` | `get_conn`, `init_db`, `lock` | what is pending on the connection is always the current caller's |
| Repository (`repository.py`) | none of its own | writes: lock, statements, commit; reads: no lock | every write is all or nothing, ids and keys are sound, readers see one poll |
| Polling (`poller.py`) | coroutine frames between awaits | `poll_switch`, `poll_all`, `poller_loop` | data stays with its switch, live ports, history and counters agree, polls and loop go on |
| Life cycle (`main.py`) | the `stop_event`, the two tasks of `lifespan` | start-up with seeding, shutdown | deleted defaults stay deleted, a shutdown ends |
| Request handlers (`main.py`, `auth.py`) | frames between awaits; `users`, `audit_log`, `isl_links`, `config_backups` | check, change, log, answer | a failure has a reason, a change its entry, an answer always comes |
| Alerts (`alerts.py`) | `alert_rules`, `alerts` | `evaluate_and_notify`, overlapping | one alert per rule, switch and window; none passed over; ends |
| Passwords (`crypto.py`, `secrets.py`) | `_fernet`, the key file, the password column | key creation, `encrypt`, `decrypt`, `resolve_password` | a password comes back as it was entered, after a restart too |
| Statistics, trend (`stats.py`, `get_global_history`) | none | `summarize_ports`, `merge_summaries`, buckets per minute | every port counted once, every switch once in a bucket |
| Collectors (`collectors/`) | a session with a device | `collect`: login, requests, walks, logout | returns a snapshot, true and whole or of an unreachable device; leaves no session |
| Utilisation (`util_calc.py`) | none | `bandwidth_util_pct` | `None` rather than a guess; never more than was carried |
| Topology (`topology.py`) | none (`isl_links`) | `build_demo_isl`, `graph` | a ring per region; edges start at nodes |
| Reports (`reports.py`, `metrics.py`) | a thread reading query after query | `capacity_report`, `render`, `_trend` | each row was true when read, totals are those of the rows |
| Firmware, versions (`firmware.py`, `version.py`) | none | `inventory`, `classify`, `is_newer`, `check_latest` | ages and updates as the tables say |
| Upgrade (`upgrade.py`) | an external script | `apply_upgrade` | answers within the time limit |

How they interact.  Coroutines (requests, the loop, the cycle that `lifespan` starts) call the
repository in worker threads, `asyncio.to_thread`, so that calls of several coroutines run at
the same time, on one connection.  `evaluate_and_notify` calls it on the event loop itself.
Polls, cycles and evaluations overlap freely: nothing excludes a second poll of a switch
while one is in flight.  The process may die between any two steps (`deploy/san_sw.service`
restarts it), and then only committed rows and the key file are left.

What makes that hard: statements that fail half way on a shared connection; reads without a
lock; rows read before an await and used after it (a poll goes on with the switch it was started
with while that is deleted or readdressed); overlapping polls that write in two orders;
the check-then-insert of alerts across overlapping evaluations; checks, changes and audit entries that
are separate calls of one request; devices that answer half of a collection; a key created on first use by
whichever thread is first; a cancellation that Python 3.11's `wait_for` may lose.
`PROJECT.json` lists these hazards, each at its line with the properties that cover it.

## Modules

    Tables <- Store <- Store_proofs, MCStore        Alerts  <- Alerts_proofs
       ^        ^ ^                                 Secrets <- Secrets_proofs
       |        | +-- SharedConn <- SharedConn_proofs, MCSharedConn
       |        |     (implements Store)
       +--------+---- Poller <- Poller_proofs, MCPoller
                      (implements Store)

    Topology <- Requests <--+                       Utilisation <- Collectors <-+
                Service  <--+- Main_proofs                   Collectors_proofs -+
                (MCRequests, MCService)                      MCCollectors ------+

    History <- Reports  <---+
               Versions <---+- Reports_proofs, MCReports

Main_proofs has the theorems about both halves of `main.py`, Requests and Service; Collectors_proofs also those about
Utilisation, Reports_proofs those about History and Versions.

* **Tables**: rows of `switches`, `ports`, `samples`, `port_counters`, and what each SQL
  statement does to them: `ON DELETE CASCADE`, `UNIQUE`, `AUTOINCREMENT`, `COALESCE`,
  the retention trim.  Operators only.  A port's data, a summary and a counter pair are opaque.
* **Store**: what the repository promises, one atomic action per write function
  (`create_switch`, `update_switch`, `delete_switch`, `set_switch_status`, `replace_ports`,
  `add_sample`, `upsert_port_counters`).  The abstract specification.
* **SharedConn**: how the promise is kept.  Each function takes the lock, executes its
  statements one by one (`pc`, `row`) on `work`, the state of the connection, and commits it to
  `disk`.  A statement that violates a constraint leaves the function by an exception, without
  rollback, as the code does; `get_ports` reads `work` without the lock; `Crash` leaves `disk`.
  `Store` is implemented with `db <- disk`.
* **Poller**: `poll_switch` with one step between two awaits (`pc` names the next step), many at
  a time, against create, update and delete requests and crashes.  A reading is the address it
  was taken from and when, which is what the properties tell apart.  Database calls are single
  steps, which is what SharedConn shows, but for the one that may break off: a `replace_ports` that is given a
  port twice (`Twice`) leaves its rows in `db` and not in `saved`, until any call commits (`Commits`, `OtherCommit`)
  or a crash takes them back; `partial` notes the switch.  If no list does so (`UniqueNames`), every step is an
  operation of `Store`.
* **Service**: `lifespan`, seeding of empty tables, `poll_all`, `poller_loop`, shutdown with its
  event and its cancellation, crash and restart.  A poll and an evaluation are single steps.
* **Alerts**: `evaluate_and_notify` as coroutines that share the event loop: `loop` is the
  evaluation that has it and gives it up only at the webhook.  Worker threads and the clock do
  not wait.  What metrics say of a port list is left open (any answer, at any time).
* **Secrets**: `encrypt`, `decrypt`, `_get_fernet`, `_load_key` step by step, with the key file's
  truncation and write as two steps, `resolve_password`, restarts.  A token is a record of key
  and text; the notations of the column (plain, `enc:`, `vault:`) are its forms.  `creators` notes whether two threads
  of the process generated a key before either had opened the file (`Rivals`), and a token, who created its key.
* **Requests**: the handlers of `main.py` that check, change, log and answer, one step per
  await, with a frame per client (`req`): switches, users, alert rules, backups, the graph, the upgrade.
  What Poller has as single steps (create, change, delete) is opened here: a row may go, and its address be
  taken, between any two awaits.  A PUT may have no field at all: nothing is changed, and logged all the same.
  `Restart` is `lifespan` with `SEED_DEMO`: demo seed and links; `RestartUnseeded` is that without it; either may be
  the first start, too.  `absent` and `taken` note whether, at some moment of a request, its row was missing or its key another's.
* **Topology**: `build_demo_isl` and `graph` as operators.
* **Utilisation**: `bandwidth_util_pct` and its caller, in integers, and what a counter of any width shows after
  a wrap or a reset.
* **Collectors**: `collect()` request by request.  The device is a table from `ifIndex` to port that may lose
  ports or be renumbered between two requests; any request may fail (`HTTPError`, another
  exception, cancellation), lose its answer or be answered without a list, which the code reads as an empty one
  (`bare` notes for what).  A counter's value is the port it counts.
* **History**: `summarize_ports`, `merge_summaries`, `api_summary` and
  `get_global_history` as functions of ports and samples, over polls, moves between data
  centres, deletions and minutes, for any retention and any limit: SQLite's `LIMIT` is none if it is negative.
* **Reports**: a reader that lists the switches and then reads their ports one query at a time
  (`capacity_report`, `render`), while History goes on, and `_trend`.
* **Versions**: `firmware.py` and `version.py` as operators.  Digits and parts of a version are sequence elements.

Operators whose comment starts with "Mutant:" are plausible bugs of the definition that
follows them; each property is known to catch at least one.

Abstractions to know of.  A call that waits for the lock changes nothing, so waiting is not a
state.  `datetime('now')` does not go back.  In Poller a damaged key file, which would make
`decrypted_switch` raise before the poll begins, is left out (it is in Secrets); in Requests, likewise, that such a key
makes a POST of a switch a 400 (`main.py:210` turns any exception into one).  Devices may
reset their counters and addresses may change hands, so whether a counter difference is negative is open.

## Runs

| Run | What it shows | Instance |
|---|---|---|
| Store | type, schema (foreign and unique keys, retention, ids within the sequence), ids never reused | 2 switches, 2 addresses, 2 ports, retention 1 |
| SharedConn | SharedConn implements Store; nothing pending while the lock is free; a reader's ports are of one poll | 2 threads, 2 switches, 2 addresses, two lists of one or two ports |
| SharedConnPartialCommit | *violation*: part of a list gets to disk | 1 switch, a list that names a port twice |
| Poller | data stays with its switch; online switches have a history; newest sample = live ports of every switch whose polls never overlapped and whose last list was stored whole; counters move forward without overlap; no poll is left without a step | 2 polls, 2 switches, 2 addresses, 2 readings, a known and an unknown method, lists that name the port once or twice; polls and addresses symmetric |
| Service | the loop goes on, a shutdown ends, deleted defaults stay deleted | 3 configurations, 3 cycles, 2 demo switches, 1 database error |
| Alerts | deduplication, no alert passed over, evaluations end | 2 evaluations, 1 switch, 1 rule, 4 ticks, window 1, with and without webhook |
| Secrets | passwords come back, after restarts too, but for keys made by two threads at once | 2 threads, 2 rows, 2 passwords, 2 keys; `SANSW_SECRET_KEY` set or not |
| SecretsRace | *violation*: two threads create the key at once | 2 threads, 2 rows, 1 password, 2 keys |
| SecretsVault | *violation*: a vault reference is not looked up | 1 thread, 1 row |
| Requests | failures have a reason, changes their audit entry, creations a switch of their own; links, graph and rebuilt rings fit the switches; every request is answered | 2 clients, 3 requests of 12 kinds, restarts, with and without demo switches |
| Collectors | sessions closed, snapshots whole or without ports, counters of the right port, a snapshot on every way out; a bounded check of Utilisation | 3 ports, 3 methods, any failure or empty answer at any request |
| History | roll-ups, buckets, newest bucket; rows and totals of a report read meanwhile; bounded checks of `_trend` and Versions | 2 switches, 2 data centres, 3 minutes, retention 2, limits -1, 0 and 2, 2 samples, 2 changes |

Bounds, and why they are enough.  Two of what may interfere (threads, polls, evaluations) show
every pairwise race, and no code path counts them.  Two switches with two addresses
give address clashes and id reuse after deletion; ids end when `SwitchId` is used up.   In Alerts there is one switch and one rule, so that no
row is created while an alert exists: what is to be said of that, `NewRowUnsuppressed`, is proved and not run.  Likewise proved only: that steps of Poller are
operations of Store (`StoreSpec` of Poller), and what Poller says of the demo collector, whose method is not in its instance.  Two ports
make a list that can be half written.  Retention 1 or 2 with up to three samples makes the trim
bite at once.  `MaxClock`, `MaxMinute`, `MaxKeys`, `MaxFaults`, `MaxRequests`, `MaxSamples` and `MaxChanges` cap clocks and
counters and appear in the guards of `StartPoll`, `Tick`, `Check`, `ListFails`, `Send`, `Meanwhile` and `Otherwise`; alert times reach twice
past the window.  In SharedConn names, and in History utilisation, are left out
because no guard depends on them.  Requests names switches and rules by `Asked`, so that
ids exist which no request asks for; three requests of two clients are one that is overtaken and two in a row
that overtake it.  Collectors has three ports, so that one may go, two may be exchanged and a neighbour stay; between
collections (`Rewire`) the table may become anything.  The reader of Reports sees every pair of a list and a port
query, with two polls and two changes of switches in between.  `BoundedUtilisation`, `TrendIsEarned`, `FirmwareAges` and `UpdateOffered` are
assumptions of the MC modules that TLC evaluates: functions on all short inputs.
In History the data centres are symmetric.  `DedupWindow` compares times, so it cannot tell two alerts of one second, which
are equal rows without their ids; that the check still holds at the insert, `StillNone` of `AlertsInvariant`, excludes them.

Fairness.  *Poller*: every await of a poll returns, because collectors are bounded by
`HTTP_TIMEOUT` and `SNMP_TIMEOUT` and database calls by their statements: weak fairness of each
poll's step, nothing about its start.  No property rests on it, the run checks safety: `NeverStuck`, that a poll always has a
step left, is what polling itself has to do for its end.  (That is an idealisation: httpx applies `HTTP_TIMEOUT` to each operation of a request,
so a device that sends a byte now and then can hold one for longer; so it is for the webhook and for the other modules below.)  *Alerts*: calls on the loop return (weak); the webhook
answers or times out and asyncio runs ready coroutines first come first served, while "ready" comes and
goes with the other evaluation: strong fairness of `Resume`.  *Service*: the same for the steps of
a cycle, the loop's timer and the exit; nothing about crashes, requests, shutdown, start or the clock.
*Requests*: every await of a handler ends (a database call by its statements, a poll by the
time-outs of the collectors, the script by `wait_for`); nothing about clients, the script or restarts.  *Collectors*: every request ends, by `HTTP_TIMEOUT` or
`SNMP_TIMEOUT`; nothing about the device.  Store, SharedConn, Secrets and History state safety only.  No run switches the deadlock check off.

## Disagreements found

All but the second have a run that shows them; `PROJECT.json` quotes the lines.  The second follows from
Poller, whose properties say when it does not happen.

1. *Partial lists are committed* (`repository.py:132`): `replace_ports` raises on a port named twice
   and does not roll back; the next commit of any thread keeps the delete and the first rows.  The poll ends there, before
   its sample: `HistoryMatchesLive` excuses the switch (`partial`) until a poll gives a whole list.
2. *Overlapping polls* (`poller.py:72`): the ports of one and the sample of another poll may remain, so the
   newest history entry is not what the switch page shows.  `lifespan` itself starts two cycles.  `HistoryMatchesLive`
   holds of every switch two polls of which never ran at once (`overlap`).
3. *Key race* (`crypto.py:41`): two threads may each generate a key, and what one of them sealed is lost (run
   SecretsRace).  `RoundTrip` and `OpensAfterRestart` say that nothing else loses a password.
4. *Vault references* (`repository.py:50`): they are encrypted when saved, and then never looked up.

Seen while modelling, and shown by no run: a start with `SEED_DEMO` and a demo switch replaces the links of every switch
(`main.py:88`), also of those its comment (`main.py:84`) does not mean, and `RebuiltAsRings` says so of all of them; readers may get the first rows of a list
that is being replaced (`get_ports` takes no lock, and `db.py` promises it to writers only);
the newest bucket of the trend leaves out switches that were not polled in its minute
(`NewestBucketIsLive` says when it is the live total); after a PUT of an address a
utilisation may span two devices, which `OwnData` bounds to addresses the row has had; overlapping polls may put
older counters back (`CountersMoveForward` holds without overlap); a process that dies
inside a seed leaves a table that is never completed; a PUT of one coordinate erases the
other (`main.py:241`); a PUT without fields gets an audit entry, and so does one of a switch that is deleted meanwhile,
which is answered 500 (`AuditTrail` allows it there only); an exception or a crash between a change and its entry leaves
one without the other, which `AuditTrail`, about requests that are answered, does not see; an answer of a device without a
list empties its ports while it counts as reached (`fos_rest.py:207`; `WholeSnapshot`: none or all, never some); and one of an address in use is a 500, where a POST
is a 400 (`FailuresExplained`).

## Proofs

| Theorem | Of | Argument |
|---|---|---|
| `StoreType`, `StoreSchema`, `StoreIds` | Store, and so SharedConn's disk | `Consistent` is inductive; one lemma per statement of Tables |
| `SharedConnInvariant`, `SharedConnClean` | SharedConn | `IInv`, below |
| `SharedConnImplementsStore` | SharedConn => Store | a commit maps to the operation of the call, everything else to a stutter |
| `SharedConnReads` | SharedConn | disk holds first parts of lists, so by `IInv` does what is pending |
| `UtilisationEarned` | Utilisation | cases of the counter: went on, wrapped, reset; rounding is monotone |
| `CollectorsInv` | Collectors | `IInv`, below |
| `SessionClosedAlways`, `SnapshotsWhole`, `SnapshotsOfPorts` | Collectors | consequences of `IInv` |
| `AlertsInvariant` | Alerts | `IInv`, below |
| `AlertsDedup`, `AlertsDue`, `AlertsFresh` | Alerts | consequences of `IInv` |
| `PollerInv` | Poller | `IInv`, below |
| `PollerType`, `PollerOwnData`, `PollerOnline` | Poller | consequences of `IInv` |
| `PollerImplementsStore` | Poller => Store | each step that changes the database is one operation; `IInv` gives its arguments |
| `PollerHistory`, `PollerCounters` | Poller | `ApartInv`, below |
| `SecretsType` | Secrets | `BaseInv`, below |
| `SecretsKept`, `SecretsOpen` | Secrets | `KeyInv`, below |
| `ServiceType`, `ServiceSeeds` | Service | `LifeInv`, below |
| `RequestsInv` | Requests | `IInv`, below |
| `RequestsType`, `RequestsExplained`, `RequestsAudit`, `RequestsApart`, `RequestsEdges` | Requests | consequences of `IInv` |
| `RequestsLinks`, `RequestsRings` | Requests | steps from `IInv`; degrees in a ring |
| `ReportsInv` | Reports and History | `IInv`, below |
| `ReportsType`, `ReportsRows`, `ReportsNewest`, `ReportsBuckets` | Reports and History | consequences of `IInv`; sums and ranks |
| `ReportsRollups`, `ReportsAddUp` | Reports and History | sums over the parts of a finite set |
| `TrendEarned` | Reports (`trend`) | thirds whose minutes are close have sums that are close |
| `NewerIsAnOrder`, `UpdateIsNewer`, `FirmwareAgesOnly`, `InventoryCountsOnce` | Versions | the order of tuples written out; cases of the date; sums of ones |

They hold for all values of the constants that satisfy the modules' named assumptions.  Those about
SharedConn have the hypothesis `UniqueNames`: no delivered list names a port twice, which
is what the first disagreement is about and cannot be dropped, and so has `PollerImplementsStore` (`Twice` is only FALSE).  No other
theorem has a hypothesis: lists that break off, keys made twice and answers without a list are states of the models, which the
properties name (`partial`, `by`, `bare`).

*SharedConn.*  `CleanWhenUnlocked` (nothing pending while nobody has the lock) is not inductive: a commit
makes `work` and `disk` equal, but whether it is *Store's* step depends on what was executed before.
`IInv` therefore says what is pending: `PendingIsTheCall`, that `work` is `disk` with exactly
the statements done so far of the lock holder's call (`DoneSoFar`), and that the
constraints they needed hold (`AllowedSoFar`).  With it a function can only raise at its first
statement, when nothing is pending.

*Alerts.*  `DedupWindow` needs to know, at the insert, that the check still holds.  `IInv` adds that an
evaluation between its awaits has the event loop (`LoopOwned`), so that no other inserts; that
an evaluation about to insert was told of no recent alert and this is still true, since
only the loop's owner inserts and the clock only makes alerts older (`StillNone`,
`NotFromFuture`); and that an evaluation about to notify has its alert in the table (`Stored`).  `IdsGiven`
(ids in use are at most the sequence) gives `AlertsFresh`.

*Collectors.*  That a snapshot is whole and true is about its end, while the device changes at every step before.  `IInv`
says which collector may await which request, where a session may be open and where an exception may be under
way (`Protocol`), and of what was read: by name, that keys are the names, a counter is that of its key and
the steady ports are listed before the statistics are asked for, unless there was no list (`ReadByName`); by index, that unless the device
renumbered, an index listed is of the same port or vacant by now, and that after the walk of the names every steady
port is listed at its index, unless the agent has no names (`ReadByIndex`).  It holds for any set of indices and any failures.

*Poller.*  A poll goes on with a row read long ago, so `OwnData` depends on what may have happened to that switch
since.  `IInv` says that the id of a poll's switch is below the sequence (`Steady`) and that a missing row has no
dependents (`RowsOK`): so either the row is still the one the poll was started with, or nothing of the poll
can be written any more.  `Steady` also says that past `add_sample` the switch has a history or is gone, which gives
`OnlineIsSampled`.  `ClockLeft` is about the bound on collections.  `ApartInv` adds what holds of switches whose
polls never overlapped: two polls at work on one switch are noted in `overlap` (`One`); between its two commits the
ports are those of the poll that is about to write the sample (`Shown`), otherwise those of the last sample (`Matches`), but for
a list that broke off; `SavedOwn` says of the ports last committed what `OwnData` says of those seen, since a crash brings them back;
and what a poll is about to keep was read after what is kept (`Later`).

*Secrets.*  `BaseInv` says what each frame holds at each step and that a row stands for what was typed.  `KeyInv` says
that everything sealed, stored or in hand, is sealed with the key of this and every later process (`Current`: the
environment's or the file's), if one thread created that key.  It survives the two steps that change the file because a creator
that opens it found none, so nothing can be sealed yet, and because a second creator is noted in `creators` before the
first can go on.  A crash leaves an empty file at worst, again before anything is sealed.

*Service.*  `LifeInv` says that while the process starts, a table that was found with rows keeps rows (`FoundKept`), and the table
being seeded was found empty, also after its first row made it non-empty; before `lifespan` yields there is
neither loop nor cycle (`NoTaskYet`).

*Requests.*  Whether an answer is explained, or a change is in the log, is decided at the last step of a request from
what earlier ones read, while other requests and restarts change the tables.  `IInv` says of a request under way which step may come
next, with what argument and whether its statement was executed (`Staged`); that a row that went away under it was noted
(`Noted`); whether it has its entry yet (`Logged`); that nodes listed include the starts of all links, which stays true since
links are only made at a start (`Listed`); and of an answered one what the properties say (`Closed`).  Ids given to two
requests differ because both are at most the sequence when given (`Apart`, `Tables`).  `RequestsLinks` follows from links ending at ids
that were given (`Tables`).  The rings of `RequestsRings` hold for any number of regions and switches: each switch of
a region has one successor and one predecessor by rank, and they are the same switch only if the region has two.

*Reports and History.*  Sums are folds over sets in an order that is not specified, so first comes what any order
gives: lemmas on sums (one element more, parts of a set, a sum of sums) by induction over the subsets of a finite set,
from the well-foundedness of strict inclusion, which the library states without an operator parameter; and lemmas on ranks,
that the n-th of a finite set of numbers exists, is one and comes in order.  `RollupsCountOnce` is then the sum over a partition.
For the buckets `HInv` says that samples are in the order of time and of switches that exist (`InOrder`), that the newest
sample of a switch in a minute sums up the list polled last in that minute (`Shown`), and the newest of all its present list (`OfLive`).
The trim keeps this: a row that is kept keeps all rows of its switch behind it, so that newest stays newest, and rows keep
their order.  `RowsInv` says of a report that a switch listed and not read yet has now a list it had since the listing, and
that a row read is of such a list.

What the proofs found.  *Overlapping cases*: arms of a `CASE` in Requests were not exclusive, which left the choice between
an answer and another step unspecified; they are disjuncts with exclusive guards now.  *An occupancy of 100 %* does not
mean that nothing is left: of 2000 ports or more with one free the code's `round(.., 1)` shows 100.0.  `RollupsCountOnce`, which said otherwise
and passed on small instances, now says what is so: less than a twentieth of a per cent is left.

Only model-checked: liveness (`EvaluationEnds`, `PolledAgain`, `ShutdownEnds`, `EveryRequestAnswered`,
`AlwaysSnapshot`) and `ENABLED` (`NeverStuck`), out of the prover's reach, and of `TrendIsEarned` that a trend reversed is the opposite.  Every other
safety property of the passing runs is proved, and so is what else the MC modules assume of `bandwidth_util_pct`, `trend` and
Versions on short inputs.  The type
invariants of Poller, Service, Secrets and Collectors are proved, and no run repeats them.

## What is not modelled

* Arithmetic of alert metrics and comparators (any answer is allowed, at any time); average utilisation, speed
  distribution, floating point (utilisation is in tenths of a per cent, halves excepted).
* The collectors' parsing of values: speeds, states, optics, names from WWNs.
* Password hashing, roles and session tokens: no state besides the key that Secrets has.
* Geo coordinates, and handlers that return one query as it is (`list_users`, `list_alerts`, `list_audit`, `list_backups`).
* The location of the running version; labels and text of metrics, CSV layout.
* Column migration (only adds columns), request validation, front end, deployment files: text or I/O.

## Plan

The order was: what everything rests on first (Tables, Store, SharedConn), then what users see of it
(Poller, Alerts), then Secrets, History and Service, then what surrounds them (Requests, Collectors, Utilisation, Reports, Versions).  Next:

1. *Proofs*: that the single steps of Requests are operations of Store, as Poller's are.
2. *Alert metrics* and comparators as functions of ports.
3. Requests over SharedConn instead of atomic calls, for one handler with several writes.
