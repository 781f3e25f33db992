------------------------------- MODULE Service -------------------------------
(***************************************************************************)
(* The life of the process: lifespan() in backend/app/main.py, which seeds *)
(* empty tables and starts the pollers, poll_all() and poller_loop() in    *)
(* backend/app/poller.py, shutdown, crashes and restarts.                  *)
(*                                                                         *)
(* A cycle is a call of poll_all(): by lifespan() once, by poller_loop()   *)
(* again and again, and by POST /api/poll.  A poll of a switch is one step *)
(* and so is an evaluation of the alert rules (Poller and Alerts are about *)
(* them); what they change of a row is left out.                           *)
(***************************************************************************)
EXTENDS Naturals, FiniteSets, Sequences, SequencesExt

CONSTANTS
    Configurations,  \* the settings the process may be started with
    Defaults,        \* by table: the rows it is seeded with, a sequence
    Request,         \* POST /api/poll requests
    MaxFaults        \* bound: how many times list_switches() raises

\* bootstrap_admin(), seed_default_rules() and _seed_demo(), in this order.
Stages == <<"users", "alert_rules", "switches">>
Table  == Range(Stages)

Configuration == [AUTH_ENABLED : BOOLEAN, SEED_DEMO : BOOLEAN, POLL_INTERVAL : Nat,
                  ALERT_EVAL_ON_POLL : BOOLEAN]

ASSUME ServiceAssumption ==
    /\ Configurations \subseteq Configuration
    /\ \A t \in Table : /\ Defaults[t] \in Seq(Range(Defaults[t]))
                       /\ IsInjective(Defaults[t]) /\ Defaults[t] # <<>>
    /\ {"startup", "loop"} \cap Request = {}
    /\ MaxFaults \in Nat

Cycle == {"startup", "loop"} \cup Request
DefaultRow(t) == Range(Defaults[t])

VARIABLES
    conf,     \* the environment of the process
    rows,     \* the rows of each table
    found,    \* history variable: the tables with rows when the process started
    proc,     \* "down", in lifespan() before its yield, "up", or after it
    seed,     \* the stage of lifespan(), and how many rows it has inserted
    stop,     \* stop_event
    cancel,   \* a task.cancel() of the loop that has not been delivered
    loop,     \* where poller_loop() is
    cycle,    \* the calls of poll_all()
    faults    \* how many times list_switches() raised

serviceVars == <<conf, rows, found, proc, seed, stop, cancel, loop, cycle, faults>>
process == <<conf, found, proc, seed>>

NoCycle == [pc |-> "none", todo |-> {}]
Listing == [pc |-> "list", todo |-> {}]

\* None of it outlives the process.
NoTasks ==
    /\ stop' = FALSE
    /\ cancel' = FALSE
    /\ loop' = "none"
    /\ cycle' = [c \in Cycle |-> NoCycle]

ServiceInit ==
    /\ conf \in Configurations
    /\ rows = [t \in Table |-> {}]
    /\ found = {}
    /\ proc = "down"
    /\ seed = [stage |-> 1, inserted |-> 0]
    /\ stop = FALSE /\ cancel = FALSE
    /\ loop = "none"
    /\ cycle = [c \in Cycle |-> NoCycle]
    /\ faults = 0

-----------------------------------------------------------------------------
(* lifespan() *)

\* The process starts: init_db() creates what tables there are not.
Start ==
    /\ proc = "down"
    /\ proc' = "starting"
    /\ seed' = [stage |-> 1, inserted |-> 0]
    /\ found' = {t \in Table : rows[t] # {}}
    /\ NoTasks
    /\ UNCHANGED <<conf, rows, faults>>

Stage == Stages[seed.stage]

Wanted(t) == CASE t = "users"    -> conf.AUTH_ENABLED
               [] t = "switches" -> conf.SEED_DEMO
               [] OTHER          -> TRUE

NextStage == seed' = [stage |-> seed.stage + 1, inserted |-> 0]

\* Mutant: a table is seeded if its defaults are not all there.
SeedableIfMissing(t) == Wanted(t) /\ rows[t] # DefaultRow(t)

\* Only an empty table is seeded.
Seedable(t) == Wanted(t) /\ rows[t] = {}

\* Nothing to do for a table, or its next row; each is committed by itself.
Seed ==
    /\ proc = "starting"
    /\ seed.stage <= Len(Stages)
    /\ \/ /\ seed.inserted = 0
          /\ ~Seedable(Stage)
          /\ NextStage
          /\ UNCHANGED rows
       \/ /\ seed.inserted > 0 \/ Seedable(Stage)
          /\ seed.inserted < Len(Defaults[Stage])
          /\ rows' = [rows EXCEPT ![Stage] = @ \cup {Defaults[Stage][seed.inserted + 1]}]
          /\ seed' = [seed EXCEPT !.inserted = @ + 1]
       \/ /\ seed.inserted = Len(Defaults[Stage])
          /\ NextStage
          /\ UNCHANGED rows
    /\ UNCHANGED <<conf, found, proc, stop, cancel, loop, cycle, faults>>

\* create_task(poll_all()), create_task(poller_loop()), and yield.
Serve ==
    /\ proc = "starting"
    /\ seed.stage > Len(Stages)
    /\ proc' = "up"
    /\ loop' = "test"
    /\ cycle' = [cycle EXCEPT !["startup"] = Listing]
    /\ UNCHANGED <<conf, rows, found, seed, stop, cancel, faults>>

\* The server is told to stop and has answered its requests.
Shutdown ==
    /\ proc = "up"
    /\ \A r \in Request : cycle[r].pc = "none"
    /\ proc' = "stopping"
    /\ stop' = TRUE
    /\ cancel' = TRUE
    /\ UNCHANGED <<conf, rows, found, seed, loop, cycle, faults>>

\* asyncio.run() cancels what is left, the cycle of lifespan(), and ends when
\* poller_loop() has ended.
Exit ==
    /\ proc = "stopping"
    /\ loop = "ended"
    /\ proc' = "down"
    /\ NoTasks
    /\ UNCHANGED <<conf, rows, found, seed, faults>>

Crash ==
    /\ proc # "down"
    /\ proc' = "down"
    /\ NoTasks
    /\ UNCHANGED <<conf, rows, found, seed, faults>>

-----------------------------------------------------------------------------
(* Requests *)

create(t, row) == /\ proc = "up"
                  /\ row \notin rows[t]
                  /\ rows' = [rows EXCEPT ![t] = @ \cup {row}]
                  /\ UNCHANGED <<process, stop, cancel, loop, cycle, faults>>

delete(t, row) == /\ proc = "up"
                  /\ row \in rows[t]
                  /\ rows' = [rows EXCEPT ![t] = @ \ {row}]
                  /\ UNCHANGED <<process, stop, cancel, loop, cycle, faults>>

api_poll_all(r) == /\ proc = "up"
                   /\ cycle[r].pc = "none"
                   /\ cycle' = [cycle EXCEPT ![r] = Listing]
                   /\ UNCHANGED <<process, rows, stop, cancel, loop, faults>>

-----------------------------------------------------------------------------
(* poll_all() *)

Goes(c, pc, todo) == /\ cycle' = [cycle EXCEPT ![c] = [pc |-> pc, todo |-> todo]]
                     /\ UNCHANGED loop

\* It returns or raises.
Ends(c) == /\ cycle' = [cycle EXCEPT ![c] = NoCycle]
           /\ loop' = IF c = "loop" THEN "wait" ELSE loop

List(c) ==
    /\ cycle[c].pc = "list"
    /\ IF rows["switches"] = {} THEN Ends(c) ELSE Goes(c, "gather", rows["switches"])
    /\ UNCHANGED <<process, rows, stop, cancel, faults>>

\* Mutant: poller_loop() does not catch it.
ListFailsUncaught(c) ==
    /\ cycle[c].pc = "list"
    /\ faults < MaxFaults
    /\ faults' = faults + 1
    /\ cycle' = [cycle EXCEPT ![c] = NoCycle]
    /\ loop' = IF c = "loop" THEN "ended" ELSE loop
    /\ UNCHANGED <<process, rows, stop, cancel>>

\* list_switches() raises (the database is locked); poller_loop() logs it.
ListFails(c) ==
    /\ cycle[c].pc = "list"
    /\ faults < MaxFaults
    /\ faults' = faults + 1
    /\ Ends(c)
    /\ UNCHANGED <<process, rows, stop, cancel>>

\* A poll_switch() returned or raised; gather() waits for the others.
Polled(c) ==
    \E s \in cycle[c].todo :
        /\ cycle[c].pc = "gather"
        /\ Goes(c, "gather", cycle[c].todo \ {s})
        /\ UNCHANGED <<process, rows, stop, cancel, faults>>

Gathered(c) ==
    /\ cycle[c].pc = "gather"
    /\ cycle[c].todo = {}
    /\ IF conf.ALERT_EVAL_ON_POLL THEN Goes(c, "alerts", {}) ELSE Ends(c)
    /\ UNCHANGED <<process, rows, stop, cancel, faults>>

\* evaluate_and_notify() returned, or raised, which is logged.
Evaluated(c) ==
    /\ cycle[c].pc = "alerts"
    /\ Ends(c)
    /\ UNCHANGED <<process, rows, stop, cancel, faults>>

CycleStep(c) == \/ List(c)
                \/ ListFails(c)
                \/ Polled(c)
                \/ Gathered(c)
                \/ Evaluated(c)

-----------------------------------------------------------------------------
(* poller_loop() *)

\* Mutant: `while True`.
TestNothing ==
    /\ loop = "test"
    /\ ~cancel
    /\ IF conf.POLL_INTERVAL = 0
       THEN loop' = "ended" /\ UNCHANGED cycle
       ELSE loop' = "cycle" /\ cycle' = [cycle EXCEPT !["loop"] = Listing]
    /\ UNCHANGED <<process, rows, stop, cancel, faults>>

\* `POLL_INTERVAL <= 0` at the start and `while not stop_event.is_set()`.
Test ==
    /\ loop = "test"
    /\ ~cancel
    /\ IF conf.POLL_INTERVAL = 0 \/ stop
       THEN loop' = "ended" /\ UNCHANGED cycle
       ELSE loop' = "cycle" /\ cycle' = [cycle EXCEPT !["loop"] = Listing]
    /\ UNCHANGED <<process, rows, stop, cancel, faults>>

\* wait_for(stop_event.wait()) timed out or returned.
Woken ==
    /\ loop = "wait"
    /\ loop' = "test"
    /\ UNCHANGED <<process, rows, stop, cancel, cycle, faults>>

\* The CancelledError is no Exception: it ends the loop, in a cycle too, whose
\* polls gather() cancels.  wait_for() of Python 3.11 returns instead if
\* stop_event.wait() is done by then, as it is: stop_event was set first.
Cancelled ==
    /\ cancel
    /\ cancel' = FALSE
    /\ loop' = IF loop = "wait" THEN "test" ELSE "ended"
    /\ cycle' = [cycle EXCEPT !["loop"] = NoCycle]
    /\ UNCHANGED <<process, rows, stop, faults>>

LoopStep == Test \/ Woken \/ Cancelled

-----------------------------------------------------------------------------

ServiceNext ==
    \/ Start \/ Seed \/ Serve \/ Shutdown \/ Exit \/ Crash
    \/ \E t \in Table : \E row \in DefaultRow(t) : create(t, row) \/ delete(t, row)
    \/ \E r \in Request : api_poll_all(r)
    \/ \E c \in Cycle : CycleStep(c)
    \/ LoopStep

\* What is awaited comes to an end: the steps of a cycle by their timeouts, the
\* wait after POLL_INTERVAL; and the event loop runs every task that is ready.
ServiceFairness ==
    /\ \A c \in Cycle : WF_serviceVars(CycleStep(c))
    /\ WF_serviceVars(LoopStep)
    /\ WF_serviceVars(Exit)

ServiceSpec == ServiceInit /\ [][ServiceNext]_serviceVars /\ ServiceFairness

-----------------------------------------------------------------------------
(* Properties. *)

CycleState == [pc : {"none", "list", "gather", "alerts"}, todo : SUBSET DefaultRow("switches")]

ServiceTypeOK ==
    /\ conf \in Configurations
    /\ \A t \in Table : rows[t] \subseteq DefaultRow(t)
    /\ found \subseteq Table
    /\ proc \in {"down", "starting", "up", "stopping"}
    /\ seed.stage \in 1 .. Len(Stages) + 1
    /\ stop \in BOOLEAN /\ cancel \in BOOLEAN
    /\ loop \in {"none", "test", "cycle", "wait", "ended"}
    /\ cycle \in [Cycle -> CycleState]
    /\ loop = "cycle" <=> cycle["loop"].pc # "none"

\* Seeding is for empty databases: a default account, rule or demo switch that
\* was deleted does not come back at a restart beside the rows that were kept.
DeletedStaysDeleted ==
    [][\A t \in Table : proc = "starting" /\ rows'[t] # rows[t] => t \notin found]_serviceVars

\* While the process is up a switch is polled again and again, whatever a
\* cycle runs into: poller_loop() does not die and does not get stuck.
PolledAgain ==
    \A s \in DefaultRow("switches") :
        <>[](proc = "up" /\ conf.POLL_INTERVAL > 0 /\ s \in rows["switches"]) =>
            []<>(s \in cycle["loop"].todo)

\* A shutdown comes to an end wherever it meets poller_loop(), although
\* cancelling it may fail: then the event is what ends it.
ShutdownEnds == proc = "stopping" ~> proc = "down"
=============================================================================
