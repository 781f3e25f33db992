------------------------------- MODULE Alerts -------------------------------
(***************************************************************************)
(* Threshold alerts (backend/app/alerts.py): any number of                 *)
(* evaluate_and_notify() coroutines, started after poll cycles and by POST *)
(* /api/alerts/evaluate, against worker threads that change switches and   *)
(* rules, the clock, and a process that may die.                           *)
(*                                                                         *)
(* An evaluation calls the repository on the event loop itself, so no      *)
(* other coroutine runs until it awaits the webhook: `loop` is the         *)
(* evaluation that has the event loop.  Worker threads and the clock do    *)
(* not wait for it.                                                        *)
(*                                                                         *)
(* A rule is on switch_unreachable or on a metric of the port list.  What  *)
(* a port list says is left open, for polls rewrite it at any time and an  *)
(* unlocked read may see half of it (SharedConn).                          *)
(***************************************************************************)
EXTENDS Integers, FiniteSets

CONSTANTS
    Evaluation,     \* evaluate_and_notify() calls that may be in flight
    SwitchId,       \* ids switches may get
    RuleId,         \* ids alert_rules may get
    Window,         \* _DEDUP_WINDOW, in ticks of the clock
    MaxClock,       \* bound: how long the clock runs
    NoRow,          \* no row with this id
    Nobody          \* the event loop runs no evaluation

Status == {"unknown", "online", "unreachable"}
Metric == {"switch_unreachable", "ports"}
Rule   == [metric : Metric, enabled : BOOLEAN]

Alert == [rule : RuleId, switch : SwitchId, ts : 0 .. MaxClock]

\* A switch row as list_switches() returned it and a rule to hold against it.
Pair == [switch : SwitchId, status : Status, rule : RuleId, metric : Metric]

ASSUME AlertsAssumption ==
    /\ SwitchId \subseteq Nat \ {0}
    /\ RuleId \subseteq Nat \ {0}
    /\ Window \in Nat
    /\ MaxClock \in Nat
    /\ Nobody \notin Evaluation
    /\ NoRow \notin Status \cup Rule \cup Pair

VARIABLES
    switches,   \* the status column of switches, by id
    rules,      \* alert_rules by id
    alerts,     \* the rows of alerts
    sequence,   \* sqlite_sequence of switches and alert_rules
    clock,      \* datetime('now')
    webhook,    \* ALERT_WEBHOOK_URL is set
    loop,       \* who has the event loop
    ev          \* the evaluations' frames

vars == <<switches, rules, alerts, sequence, clock, webhook, loop, ev>>

\* pc; the rules read; the pairs of the two loops still to come, `now` the one
\* in hand; and, for the properties, the pairs done and when it all began.
Frame == [pc : {"idle", "switches", "each", "add", "notify", "post"},
          rules : SUBSET [rule : RuleId, metric : Metric], todo : SUBSET Pair,
          now : Pair \cup {NoRow}, done : SUBSET Pair, began : 0 .. MaxClock]

NoFrame == [pc |-> "idle", rules |-> {}, todo |-> {}, now |-> NoRow, done |-> {},
            began |-> 0]

Init ==
    /\ switches = [s \in SwitchId |-> NoRow]
    /\ rules = [r \in RuleId |-> NoRow]
    /\ alerts = {}
    /\ sequence = [switches |-> 0, rules |-> 0]
    /\ clock = 0
    /\ webhook \in BOOLEAN
    /\ loop = Nobody
    /\ ev = [e \in Evaluation |-> NoFrame]

-----------------------------------------------------------------------------
(* Worker threads, and time. *)

\* AUTOINCREMENT
NextId(table, last) == last + 1

create_switch ==
    LET s == NextId(switches, sequence.switches)
    IN  /\ s \in SwitchId
        /\ switches' = [switches EXCEPT ![s] = "unknown"]
        /\ sequence' = [sequence EXCEPT !.switches = s]
        /\ UNCHANGED <<rules, alerts, clock, webhook, loop, ev>>

\* Alerts have no foreign key: they outlive the switch.
delete_switch(s) ==
    /\ switches[s] # NoRow
    /\ switches' = [switches EXCEPT ![s] = NoRow]
    /\ UNCHANGED <<rules, alerts, sequence, clock, webhook, loop, ev>>

set_switch_status(s) ==
    \E status \in {"online", "unreachable"} :
        /\ switches[s] # NoRow
        /\ switches' = [switches EXCEPT ![s] = status]
        /\ UNCHANGED <<rules, alerts, sequence, clock, webhook, loop, ev>>

create_alert_rule ==
    LET r == NextId(rules, sequence.rules)
    IN  /\ r \in RuleId
        /\ \E rule \in Rule : rules' = [rules EXCEPT ![r] = rule]
        /\ sequence' = [sequence EXCEPT !.rules = r]
        /\ UNCHANGED <<switches, alerts, clock, webhook, loop, ev>>

delete_alert_rule(r) ==
    /\ rules[r] # NoRow
    /\ rules' = [rules EXCEPT ![r] = NoRow]
    /\ UNCHANGED <<switches, alerts, sequence, clock, webhook, loop, ev>>

Tick == /\ clock < MaxClock
        /\ clock' = clock + 1
        /\ UNCHANGED <<switches, rules, alerts, sequence, webhook, loop, ev>>

-----------------------------------------------------------------------------
(* evaluate_and_notify() *)

Tables == <<switches, rules, sequence, clock, webhook>>

\* Returns, or raises: poll_all() logs it, a request answers 500.
Returns(e) == /\ loop' = Nobody
              /\ ev' = [ev EXCEPT ![e] = NoFrame]

\* list_alert_rules(enabled_only=True); no rules, nothing to do.
ReadRules(e) ==
    /\ loop = Nobody
    /\ ev[e].pc = "idle"
    /\ LET enabled == {r \in RuleId : rules[r] # NoRow /\ rules[r].enabled}
       IN  /\ enabled # {}
           /\ ev' = [ev EXCEPT ![e] = [NoFrame EXCEPT
                         !.pc = "switches", !.began = clock,
                         !.rules = {[rule |-> r, metric |-> rules[r].metric] : r \in enabled}]]
    /\ loop' = e
    /\ UNCHANGED <<alerts, Tables>>

\* list_switches(): its rows are not read again, whatever the awaits let happen.
ReadSwitches(e) ==
    /\ ev[e].pc = "switches"
    /\ LET listed == {s \in SwitchId : switches[s] # NoRow}
           pairs  == {[switch |-> s, status |-> switches[s],
                       rule |-> x.rule, metric |-> x.metric] : s \in listed, x \in ev[e].rules}
       IN  ev' = [ev EXCEPT ![e] = [ev[e] EXCEPT !.pc = "each", !.todo = pairs, !.rules = {}]]
    /\ UNCHANGED <<alerts, loop, Tables>>

\* The values _switch_metrics() and _cmp() may come to.
Exceeds(pair) == IF pair.metric = "switch_unreachable" THEN {pair.status = "unreachable"}
                 ELSE BOOLEAN

\* Mutant: the window is measured from the other side.
RecentOffByOne(pair) ==
    \E a \in alerts : a.rule = pair.rule /\ a.switch = pair.switch /\ a.ts > clock - Window

recent_alert_exists(pair) ==
    \E a \in alerts : a.rule = pair.rule /\ a.switch = pair.switch /\ a.ts >= clock - Window

\* Mutant: a suppressed alert is waited for.
ConsiderAgain(e) ==
    /\ ev[e].pc = "each"
    /\ \E pair \in ev[e].todo, exceeds \in BOOLEAN :
           /\ exceeds \in Exceeds(pair)
           /\ exceeds => ~recent_alert_exists(pair)
           /\ ev' = [ev EXCEPT ![e] =
                  IF exceeds
                  THEN [ev[e] EXCEPT !.pc = "add", !.now = pair, !.todo = ev[e].todo \ {pair}]
                  ELSE [ev[e] EXCEPT !.todo = ev[e].todo \ {pair},
                                      !.done = ev[e].done \cup {pair}]]
    /\ UNCHANGED <<alerts, loop, Tables>>

\* One turn of the inner loop up to add_alert(), or past it.
Consider(e) ==
    /\ ev[e].pc = "each"
    /\ \E pair \in ev[e].todo, exceeds \in BOOLEAN :
           /\ exceeds \in Exceeds(pair)
           /\ ev' = [ev EXCEPT ![e] =
                  IF exceeds /\ ~recent_alert_exists(pair)
                  THEN [ev[e] EXCEPT !.pc = "add", !.now = pair, !.todo = ev[e].todo \ {pair}]
                  ELSE [ev[e] EXCEPT !.todo = ev[e].todo \ {pair},
                                      !.done = ev[e].done \cup {pair}]]
    /\ UNCHANGED <<alerts, loop, Tables>>

Alerted(e) == [rule |-> ev[e].now.rule, switch |-> ev[e].now.switch, ts |-> clock]

\* add_alert(): ts is the column's default, the clock at the INSERT.
AddAlert(e) ==
    /\ ev[e].pc = "add"
    /\ alerts' = alerts \cup {Alerted(e)}
    /\ ev' = [ev EXCEPT ![e] = [ev[e] EXCEPT !.pc = "notify"]]
    /\ UNCHANGED <<loop, Tables>>

NextTurn(e) ==
    ev' = [ev EXCEPT ![e] = [ev[e] EXCEPT !.pc = "each", !.now = NoRow,
                                          !.done = ev[e].done \cup {ev[e].now}]]

\* Mutant: the error is swallowed.
AddFailsQuietly(e) ==
    /\ ev[e].pc = "add"
    /\ NextTurn(e)
    /\ UNCHANGED <<alerts, loop, Tables>>

\* add_alert() raises.
AddFails(e) ==
    /\ ev[e].pc = "add"
    /\ Returns(e)
    /\ UNCHANGED <<alerts, Tables>>

\* _notify() without a webhook does not give the event loop up ...
NoNotify(e) ==
    /\ ev[e].pc = "notify"
    /\ ~webhook
    /\ NextTurn(e)
    /\ UNCHANGED <<alerts, loop, Tables>>

\* ... the POST does.
Post(e) ==
    /\ ev[e].pc = "notify"
    /\ webhook
    /\ loop' = Nobody
    /\ ev' = [ev EXCEPT ![e] = [ev[e] EXCEPT !.pc = "post"]]
    /\ UNCHANGED <<alerts, Tables>>

\* It was answered, or raised an httpx.HTTPError, which is logged.
Posted(e) ==
    /\ ev[e].pc = "post"
    /\ loop = Nobody
    /\ loop' = e
    /\ NextTurn(e)
    /\ UNCHANGED <<alerts, Tables>>

\* It raised something else (an InvalidURL): the rest is not evaluated.
PostRaises(e) ==
    /\ ev[e].pc = "post"
    /\ loop = Nobody
    /\ Returns(e)
    /\ UNCHANGED <<alerts, Tables>>

Finish(e) ==
    /\ ev[e].pc = "each"
    /\ ev[e].todo = {}
    /\ Returns(e)
    /\ UNCHANGED <<alerts, Tables>>

\* The process dies; the tables stay.
Crash ==
    /\ loop' = Nobody
    /\ ev' = [e \in Evaluation |-> NoFrame]
    /\ UNCHANGED <<alerts, Tables>>

Proceed(e) == \/ ReadSwitches(e)
              \/ Consider(e)
              \/ AddAlert(e)
              \/ AddFails(e)
              \/ NoNotify(e)
              \/ Post(e)
              \/ Finish(e)

Resume(e) == Posted(e) \/ PostRaises(e)

Next == \/ create_switch
        \/ \E s \in SwitchId : delete_switch(s) \/ set_switch_status(s)
        \/ create_alert_rule
        \/ \E r \in RuleId : delete_alert_rule(r)
        \/ Tick
        \/ \E e \in Evaluation : ReadRules(e) \/ Proceed(e) \/ Resume(e)
        \/ Crash

\* Calls on the loop return.  The webhook's POST ends, for HTTP_TIMEOUT bounds the
\* wait for each piece of its answer (that pieces may come for ever is left out),
\* and the loop runs its ready coroutines first come first served: strong
\* fairness, for a coroutine is not ready to go on while another has the loop.
Fairness == \A e \in Evaluation : WF_vars(Proceed(e)) /\ SF_vars(Resume(e))

Spec == Init /\ [][Next]_vars /\ Fairness

-----------------------------------------------------------------------------
(* Properties. *)

TypeOK ==
    /\ switches \in [SwitchId -> Status \cup {NoRow}]
    /\ rules \in [RuleId -> Rule \cup {NoRow}]
    /\ alerts \subseteq Alert
    /\ sequence \in [switches : Nat, rules : Nat]
    /\ clock \in 0 .. MaxClock
    /\ webhook \in BOOLEAN
    /\ loop \in Evaluation \cup {Nobody}
    /\ ev \in [Evaluation -> Frame]

\* alerts.py line 10: a rule raises no second alert for a switch within the
\* window, however many evaluations overlap, wait for the webhook and die.
DedupWindow ==
    \A a, b \in alerts :
        a.rule = b.rule /\ a.switch = b.switch /\ a.ts < b.ts => b.ts - a.ts > Window

\* An evaluation passes nothing over: a pair it is done with, the switch listed
\* as unreachable, has an alert no older than the window was when it began,
\* though another evaluation may have raised it.
DueAlerted ==
    \A e \in Evaluation : \A pair \in ev[e].done :
        pair.metric = "switch_unreachable" /\ pair.status = "unreachable" =>
            \E a \in alerts : /\ a.rule = pair.rule
                              /\ a.switch = pair.switch
                              /\ a.ts >= ev[e].began - Window

\* Alerts outlive their switch and rule, but never silence a new one: when a
\* row is created no alert bears its id, and no evaluation has it in hand.
NewRowUnsuppressed ==
    [][/\ \A s \in SwitchId : switches[s] = NoRow /\ switches'[s] # NoRow =>
              /\ \A a \in alerts : a.switch # s
              /\ \A e \in Evaluation : \A pair \in ev[e].todo \cup ev[e].done : pair.switch # s
       /\ \A r \in RuleId : rules[r] = NoRow /\ rules'[r] # NoRow =>
              /\ \A a \in alerts : a.rule # r
              /\ \A e \in Evaluation : \A pair \in ev[e].todo \cup ev[e].done : pair.rule # r]_vars

\* What DedupWindow, DueAlerted and NewRowUnsuppressed rest on.
InHand(e) == ev[e].pc \in {"add", "notify", "post"}

\* Between its awaits an evaluation has the event loop.
LoopOwned == \A e \in Evaluation :
                 ev[e].pc \in {"switches", "each", "add", "notify"} => loop = e

\* A frame in mid-turn has a pair in hand, and began in the past.
HandFull == \A e \in Evaluation : InHand(e) => ev[e].now \in Pair

NotFromFuture == /\ \A a \in alerts : a.ts <= clock
                 /\ \A e \in Evaluation : ev[e].began <= clock

\* What recent_alert_exists() denied still holds at the INSERT.
StillNone == \A e \in Evaluation : ev[e].pc = "add" =>
                 \A a \in alerts : a.rule = ev[e].now.rule /\ a.switch = ev[e].now.switch =>
                     clock - a.ts > Window

\* The webhook is called for an alert that is in the table.
Stored == \A e \in Evaluation : ev[e].pc \in {"notify", "post"} =>
              \E a \in alerts : /\ a.rule = ev[e].now.rule
                               /\ a.switch = ev[e].now.switch
                               /\ a.ts >= ev[e].began

\* Every id in any table or frame was given out.
IdsGiven ==
    /\ \A s \in SwitchId : switches[s] # NoRow => s <= sequence.switches
    /\ \A r \in RuleId : rules[r] # NoRow => r <= sequence.rules
    /\ \A a \in alerts : a.switch <= sequence.switches /\ a.rule <= sequence.rules
    /\ \A e \in Evaluation :
           /\ \A x \in ev[e].rules : x.rule <= sequence.rules
           /\ \A pair \in ev[e].todo \cup ev[e].done :
                  pair.switch <= sequence.switches /\ pair.rule <= sequence.rules
           /\ InHand(e) => /\ ev[e].now.switch <= sequence.switches
                           /\ ev[e].now.rule <= sequence.rules

IInv == /\ TypeOK
        /\ LoopOwned
        /\ HandFull
        /\ NotFromFuture
        /\ StillNone
        /\ Stored
        /\ IdsGiven
        /\ DedupWindow
        /\ DueAlerted

\* An evaluation ends, and with it the poll cycle that started it.
EvaluationEnds == \A e \in Evaluation : ev[e].pc # "idle" ~> ev[e].pc = "idle"
=============================================================================
