---------------------------- MODULE Alerts_proofs ----------------------------
(* Theorems about Alerts, for any evaluations, ids, window and clock.      *)
EXTENDS Alerts, TLAPS

USE AlertsAssumption DEF AlertsAssumption

\* What IInv asks of a frame f of evaluation e.
FrameFits(e, f) ==
    /\ f \in Frame
    /\ f.pc \in {"add", "notify", "post"} => f.now \in Pair
    /\ f.began <= clock
    /\ f.pc = "add" =>
           \A a \in alerts : a.rule = f.now.rule /\ a.switch = f.now.switch =>
               clock - a.ts > Window
    /\ f.pc \in {"notify", "post"} =>
           \E a \in alerts : /\ a.rule = f.now.rule
                             /\ a.switch = f.now.switch
                             /\ a.ts >= f.began
    /\ \A x \in f.rules : x.rule <= sequence.rules
    /\ \A pair \in f.todo \cup f.done :
           pair.switch <= sequence.switches /\ pair.rule <= sequence.rules
    /\ f.pc \in {"add", "notify", "post"} =>
           f.now.switch <= sequence.switches /\ f.now.rule <= sequence.rules
    /\ \A pair \in f.done :
           pair.metric = "switch_unreachable" /\ pair.status = "unreachable" =>
               \E a \in alerts : /\ a.rule = pair.rule
                                 /\ a.switch = pair.switch
                                 /\ a.ts >= f.began - Window

Owner(f) == f.pc \in {"switches", "each", "add", "notify"}

\* The conjuncts of IInv that speak of frames are FrameFits of every frame.
LEMMA FramesFit ==
    ASSUME IInv, NEW e \in Evaluation
    PROVE  FrameFits(e, ev[e]) /\ (Owner(ev[e]) => loop = e)
  BY DEF IInv, TypeOK, LoopOwned, HandFull, NotFromFuture, StillNone, Stored, IdsGiven,
         DueAlerted, InHand, FrameFits, Owner

LEMMA FitsImplyIInv ==
    ASSUME TypeOK, DedupWindow,
           \A a \in alerts : a.ts <= clock,
           \A s \in SwitchId : switches[s] # NoRow => s <= sequence.switches,
           \A r \in RuleId : rules[r] # NoRow => r <= sequence.rules,
           \A a \in alerts : a.switch <= sequence.switches /\ a.rule <= sequence.rules,
           \A e \in Evaluation : FrameFits(e, ev[e]) /\ (Owner(ev[e]) => loop = e)
    PROVE  IInv
  BY DEF IInv, LoopOwned, HandFull, NotFromFuture, StillNone, Stored, IdsGiven,
         DueAlerted, InHand, FrameFits, Owner

\* The frame of an idle evaluation fits.
LEMMA NoFrameFits ==
    ASSUME TypeOK, NEW e
    PROVE  FrameFits(e, NoFrame) /\ ~Owner(NoFrame)
  <1>1. NoFrame \in Frame
    BY DEF NoFrame, Frame
  <1>2. QED
    BY <1>1 DEF TypeOK, FrameFits, NoFrame, Owner

\* A step of e that writes its own frame, and has or takes the event loop only
\* if no other evaluation has it, keeps the invariant if the new frame fits.
LEMMA FrameStep ==
    ASSUME IInv, NEW e \in Evaluation, NEW f,
           FrameFits(e, f), Owner(f) => loop' = e,
           loop \in {e, Nobody}, loop' \in {e, Nobody},
           ev' = [ev EXCEPT ![e] = f],
           UNCHANGED <<alerts, Tables>>
    PROVE  IInv'
  <1>1. TypeOK'
    <2>1. f \in Frame
      BY DEF FrameFits
    <2>2. ev' \in [Evaluation -> Frame]
      BY <2>1 DEF IInv, TypeOK
    <2>3. QED
      BY <2>2 DEF IInv, TypeOK, Tables
  <1>2. ASSUME NEW d \in Evaluation
        PROVE  FrameFits(d, ev[d])' /\ (Owner(ev[d])' => loop' = d)
    <2>1. CASE d = e
      <3>1. ev'[d] = f
        BY <2>1 DEF IInv, TypeOK
      <3>2. QED
        BY <2>1, <3>1 DEF FrameFits, Owner, Tables
    <2>2. CASE d # e
      <3>1. ev'[d] = ev[d]
        BY <2>2 DEF IInv, TypeOK
      <3>2. ~Owner(ev[d])
        BY <2>2, FramesFit
      <3>3. FrameFits(d, ev[d])
        BY FramesFit
      <3>4. QED
        BY <3>1, <3>2, <3>3 DEF FrameFits, Owner, Tables
    <2>3. QED
      BY <2>1, <2>2
  <1>3. /\ DedupWindow'
        /\ \A a \in alerts' : a.ts <= clock'
        /\ \A s \in SwitchId : switches'[s] # NoRow => s <= sequence'.switches
        /\ \A r \in RuleId : rules'[r] # NoRow => r <= sequence'.rules
        /\ \A a \in alerts' : a.switch <= sequence'.switches /\ a.rule <= sequence'.rules
    BY DEF IInv, DedupWindow, NotFromFuture, IdsGiven, Tables
  <1>4. QED
    BY <1>1, <1>2, <1>3, FitsImplyIInv DEF IInv, LoopOwned, HandFull, NotFromFuture,
       StillNone, Stored, IdsGiven, DueAlerted, InHand, FrameFits, Owner

-----------------------------------------------------------------------------
(* Worker threads and the clock leave the evaluations alone; ids given only *)
(* grow and time only passes.                                               *)

LEMMA WorkerStep ==
    ASSUME IInv, UNCHANGED <<alerts, webhook, loop, ev>>,
           switches' \in [SwitchId -> Status \cup {NoRow}],
           rules' \in [RuleId -> Rule \cup {NoRow}],
           sequence' \in [switches : Nat, rules : Nat],
           clock' \in 0 .. MaxClock,
           sequence.switches <= sequence'.switches,
           sequence.rules <= sequence'.rules,
           clock <= clock',
           \A s \in SwitchId : switches'[s] # NoRow => s <= sequence'.switches,
           \A r \in RuleId : rules'[r] # NoRow => r <= sequence'.rules
    PROVE  IInv'
  <1>1. TypeOK'
    BY DEF IInv, TypeOK
  <1>2. /\ sequence.switches \in Nat /\ sequence.rules \in Nat /\ clock \in Nat
        /\ sequence'.switches \in Nat /\ sequence'.rules \in Nat /\ clock' \in Nat
    BY DEF IInv, TypeOK
  <1>3. ASSUME NEW a \in alerts
        PROVE  a.rule \in Nat /\ a.switch \in Nat /\ a.ts \in Nat
    <2>1. a \in [rule : RuleId, switch : SwitchId, ts : 0 .. MaxClock]
      BY DEF IInv, TypeOK, Alert
    <2>2. a.rule \in RuleId /\ a.switch \in SwitchId /\ a.ts \in 0 .. MaxClock
      BY <2>1
    <2>3. RuleId \subseteq Nat /\ SwitchId \subseteq Nat
      BY Zenon
    <2>4. 0 .. MaxClock \subseteq Nat
      OBVIOUS
    <2>5. QED
      BY <2>2, <2>3, <2>4
  <1>4. ASSUME NEW e \in Evaluation
        PROVE  /\ ev[e] \in Frame
               /\ \A x \in ev[e].rules : x.rule \in Nat
               /\ \A pair \in ev[e].todo \cup ev[e].done :
                      pair.switch \in Nat /\ pair.rule \in Nat
               /\ ev[e].now \in Pair => ev[e].now.switch \in Nat /\ ev[e].now.rule \in Nat
    BY DEF IInv, TypeOK, Frame, Pair
  <1>5. LoopOwned' /\ HandFull' /\ Stored' /\ DedupWindow' /\ DueAlerted'
    BY DEF IInv, LoopOwned, HandFull, Stored, DedupWindow, DueAlerted, InHand
  <1>6. NotFromFuture'
    <2>1. \A e \in Evaluation : ev[e].began \in Nat
      BY <1>4 DEF Frame
    <2>2. QED
      BY <1>2, <1>3, <2>1 DEF IInv, NotFromFuture
  <1>7. StillNone'
    BY <1>2, <1>3 DEF IInv, StillNone
  <1>8. IdsGiven'
    <2>1. \A a \in alerts' : a.switch <= sequence'.switches /\ a.rule <= sequence'.rules
      BY <1>2, <1>3 DEF IInv, IdsGiven
    <2>2. ASSUME NEW e \in Evaluation
          PROVE  /\ \A x \in ev'[e].rules : x.rule <= sequence'.rules
                 /\ \A pair \in ev'[e].todo \cup ev'[e].done :
                        pair.switch <= sequence'.switches /\ pair.rule <= sequence'.rules
                 /\ InHand(e)' => /\ ev'[e].now.switch <= sequence'.switches
                                  /\ ev'[e].now.rule <= sequence'.rules
      BY <1>2, <1>4 DEF IInv, IdsGiven, InHand, HandFull
    <2>3. QED
      BY <2>1, <2>2 DEF IdsGiven
  <1>9. QED
    BY <1>1, <1>5, <1>6, <1>7, <1>8 DEF IInv

LEMMA Workers ==
    ASSUME IInv,
           \/ create_switch
           \/ \E s \in SwitchId : delete_switch(s) \/ set_switch_status(s)
           \/ create_alert_rule
           \/ \E r \in RuleId : delete_alert_rule(r)
           \/ Tick
    PROVE  IInv'
  <1> USE DEF IInv, TypeOK, IdsGiven
  <1>1. /\ sequence.switches \in Nat /\ sequence.rules \in Nat /\ clock \in 0 .. MaxClock
        /\ sequence \in [switches : Nat, rules : Nat]
    OBVIOUS
  <1>2. CASE create_switch
    <2>1. PICK n \in SwitchId : n = sequence.switches + 1 /\ sequence' = [sequence EXCEPT !.switches = n]
                 /\ switches' = [switches EXCEPT ![n] = "unknown"]
      BY <1>2 DEF create_switch, NextId
    <2>2. sequence' \in [switches : Nat, rules : Nat] /\ sequence'.switches = n
          /\ sequence'.rules = sequence.rules
      BY <1>1, <2>1
    <2>3. switches' \in [SwitchId -> Status \cup {NoRow}]
      BY <2>1 DEF Status
    <2>4. \A s \in SwitchId : switches'[s] # NoRow => s <= sequence'.switches
      BY <1>1, <2>1, <2>2
    <2>5. QED
      BY <1>1, <1>2, <2>1, <2>2, <2>3, <2>4, WorkerStep DEF create_switch
  <1>3. CASE \E s \in SwitchId : delete_switch(s) \/ set_switch_status(s)
    <2>1. PICK s \in SwitchId : delete_switch(s) \/ set_switch_status(s)
      BY <1>3
    <2>2. switches' \in [SwitchId -> Status \cup {NoRow}]
      BY <2>1 DEF delete_switch, set_switch_status, Status
    <2>3. \A t \in SwitchId : switches'[t] # NoRow => switches[t] # NoRow
      BY <2>1 DEF delete_switch, set_switch_status
    <2>4. UNCHANGED <<rules, alerts, sequence, clock, webhook, loop, ev>>
      BY <2>1 DEF delete_switch, set_switch_status
    <2>5. QED
      BY <1>1, <2>2, <2>3, <2>4, WorkerStep
  <1>4. CASE create_alert_rule
    <2>1. PICK n \in RuleId, rule \in Rule :
                 /\ n = sequence.rules + 1 /\ sequence' = [sequence EXCEPT !.rules = n]
                 /\ rules' = [rules EXCEPT ![n] = rule]
      BY <1>4 DEF create_alert_rule, NextId
    <2>2. sequence' \in [switches : Nat, rules : Nat] /\ sequence'.rules = n
          /\ sequence'.switches = sequence.switches
      BY <1>1, <2>1
    <2>3. rules' \in [RuleId -> Rule \cup {NoRow}]
      BY <2>1
    <2>4. \A r \in RuleId : rules'[r] # NoRow => r <= sequence'.rules
      BY <1>1, <2>1, <2>2
    <2>5. QED
      BY <1>1, <1>4, <2>1, <2>2, <2>3, <2>4, WorkerStep DEF create_alert_rule
  <1>5. CASE \E r \in RuleId : delete_alert_rule(r)
    <2>1. PICK r \in RuleId : delete_alert_rule(r)
      BY <1>5
    <2>2. rules' \in [RuleId -> Rule \cup {NoRow}]
      BY <2>1 DEF delete_alert_rule
    <2>3. \A t \in RuleId : rules'[t] # NoRow => rules[t] # NoRow
      BY <2>1 DEF delete_alert_rule
    <2>4. UNCHANGED <<switches, alerts, sequence, clock, webhook, loop, ev>>
      BY <2>1 DEF delete_alert_rule
    <2>5. QED
      BY <1>1, <2>2, <2>3, <2>4, WorkerStep
  <1>6. CASE Tick
    <2>1. UNCHANGED <<switches, rules, alerts, sequence, webhook, loop, ev>>
          /\ clock' \in 0 .. MaxClock /\ clock <= clock'
      BY <1>6, <1>1 DEF Tick
    <2>2. QED
      BY <1>1, <2>1, WorkerStep
  <1>7. QED
    BY <1>2, <1>3, <1>4, <1>5, <1>6

-----------------------------------------------------------------------------
(* The steps of an evaluation. *)

\* Whoever runs between awaits has the event loop.
LEMMA HasLoop ==
    ASSUME IInv, NEW e \in Evaluation, Owner(ev[e])
    PROVE  loop = e
  BY FramesFit

\* Returning, from wherever.
LEMMA Returning ==
    ASSUME IInv, NEW e \in Evaluation, loop \in {e, Nobody}, Returns(e),
           UNCHANGED <<alerts, Tables>>
    PROVE  IInv'
  <1>1. FrameFits(e, NoFrame) /\ ~Owner(NoFrame)
    BY NoFrameFits DEF IInv
  <1>2. QED
    BY <1>1, FrameStep DEF Returns

LEMMA Reading ==
    ASSUME IInv, NEW e \in Evaluation, ReadRules(e)
    PROVE  IInv'
  <1> DEFINE enabled == {r \in RuleId : rules[r] # NoRow /\ rules[r].enabled}
             read    == {[rule |-> r, metric |-> rules[r].metric] : r \in enabled}
             f       == [NoFrame EXCEPT !.pc = "switches", !.began = clock, !.rules = read]
  <1>1. ev' = [ev EXCEPT ![e] = f] /\ loop' = e /\ loop = Nobody
        /\ UNCHANGED <<alerts, Tables>>
    BY DEF ReadRules
  <1>2. \A r \in enabled : rules[r] \in Rule /\ r <= sequence.rules
    BY DEF IInv, TypeOK, IdsGiven
  <1>3. read \in SUBSET [rule : RuleId, metric : Metric]
    BY <1>2 DEF Rule
  <1>4. \A x \in read : x.rule <= sequence.rules
    BY <1>2
  <1>5. clock \in 0 .. MaxClock
    BY DEF IInv, TypeOK
  <1> HIDE DEF read
  <1>6. NoFrame \in Frame /\ NoFrame.todo = {} /\ NoFrame.done = {}
    BY DEF NoFrame, Frame
  <1>7. /\ f.pc = "switches" /\ f.rules = read /\ f.todo = {} /\ f.done = {}
        /\ f.began = clock /\ f \in Frame
    BY <1>3, <1>5, <1>6 DEF Frame
  <1> HIDE DEF f
  <1>8. FrameFits(e, f)
    BY <1>4, <1>5, <1>7 DEF FrameFits
  <1>9. QED
    BY <1>1, <1>8, FrameStep

LEMMA Listing ==
    ASSUME IInv, NEW e \in Evaluation, ReadSwitches(e)
    PROVE  IInv'
  <1> DEFINE listed == {s \in SwitchId : switches[s] # NoRow}
             pairs  == {[switch |-> s, status |-> switches[s],
                         rule |-> x.rule, metric |-> x.metric] : s \in listed, x \in ev[e].rules}
             f      == [ev[e] EXCEPT !.pc = "each", !.todo = pairs, !.rules = {}]
  <1>1. ev' = [ev EXCEPT ![e] = f] /\ UNCHANGED <<alerts, loop, Tables>>
    BY DEF ReadSwitches, IInv, TypeOK
  <1>2. loop = e
    BY HasLoop DEF ReadSwitches, Owner
  <1>3. ev[e] \in Frame /\ FrameFits(e, ev[e])
    BY FramesFit DEF FrameFits
  <1>4. \A s \in listed : switches[s] \in Status /\ s <= sequence.switches
    BY DEF IInv, TypeOK, IdsGiven
  <1>5. \A x \in ev[e].rules : x.rule \in RuleId /\ x.metric \in Metric
                              /\ x.rule <= sequence.rules
    BY <1>3 DEF Frame, FrameFits
  <1>6. pairs \in SUBSET Pair
    BY <1>4, <1>5 DEF Pair
  <1>7. \A pair \in pairs : pair.switch <= sequence.switches /\ pair.rule <= sequence.rules
    BY <1>4, <1>5
  <1> HIDE DEF pairs
  <1>8. /\ f.pc = "each" /\ f.rules = {} /\ f.todo = pairs /\ f.done = ev[e].done
        /\ f.began = ev[e].began /\ f \in Frame
    BY <1>3, <1>6 DEF Frame
  <1> HIDE DEF f
  <1>9. FrameFits(e, f)
    BY <1>3, <1>7, <1>8 DEF FrameFits
  <1>10. QED
    BY <1>1, <1>2, <1>9, FrameStep

LEMMA Considering ==
    ASSUME IInv, NEW e \in Evaluation, Consider(e)
    PROVE  IInv'
  <1>1. PICK pair \in ev[e].todo, exceeds \in BOOLEAN :
            exceeds \in Exceeds(pair) /\ ev' = [ev EXCEPT ![e] =
                IF exceeds /\ ~recent_alert_exists(pair)
                THEN [ev[e] EXCEPT !.pc = "add", !.now = pair, !.todo = ev[e].todo \ {pair}]
                ELSE [ev[e] EXCEPT !.todo = ev[e].todo \ {pair},
                                   !.done = ev[e].done \cup {pair}]]
    BY DEF Consider
  <1>2. loop = e /\ UNCHANGED <<alerts, loop, Tables>> /\ ev[e].pc = "each"
    BY HasLoop DEF Consider, Owner
  <1>3. ev[e] \in Frame /\ FrameFits(e, ev[e])
    BY FramesFit DEF FrameFits
  <1>4. /\ pair \in Pair
        /\ pair.switch <= sequence.switches
        /\ pair.rule <= sequence.rules
    BY <1>3 DEF Frame, FrameFits
  <1>5. clock \in Nat /\ \A a \in alerts : a.ts \in Int
    BY DEF IInv, TypeOK, Alert
  <1>6. CASE exceeds /\ ~recent_alert_exists(pair)
    <2> DEFINE f == [ev[e] EXCEPT !.pc = "add", !.now = pair, !.todo = ev[e].todo \ {pair}]
    <2>1. ev' = [ev EXCEPT ![e] = f]
      BY <1>1, <1>6
    <2>2. /\ f.pc = "add" /\ f.now = pair /\ f.todo = ev[e].todo \ {pair}
          /\ f.rules = ev[e].rules /\ f.done = ev[e].done /\ f.began = ev[e].began
          /\ f \in Frame
      BY <1>3, <1>4 DEF Frame
    <2> HIDE DEF f
    <2>3. \A a \in alerts : a.rule = pair.rule /\ a.switch = pair.switch =>
              clock - a.ts > Window
      BY <1>5, <1>6 DEF recent_alert_exists
    <2>4. FrameFits(e, f)
      BY <1>3, <1>4, <2>2, <2>3 DEF FrameFits
    <2>5. QED
      BY <1>2, <2>1, <2>4, FrameStep
  <1>7. CASE ~(exceeds /\ ~recent_alert_exists(pair))
    <2> DEFINE f == [ev[e] EXCEPT !.todo = ev[e].todo \ {pair}, !.done = ev[e].done \cup {pair}]
    <2>1. ev' = [ev EXCEPT ![e] = f]
      BY <1>1, <1>7
    <2>2. /\ f.pc = "each" /\ f.todo = ev[e].todo \ {pair}
          /\ f.rules = ev[e].rules /\ f.done = ev[e].done \cup {pair} /\ f.began = ev[e].began
          /\ f \in Frame
      BY <1>2, <1>3, <1>4 DEF Frame
    <2> HIDE DEF f
    <2>3. ASSUME pair.metric = "switch_unreachable", pair.status = "unreachable"
          PROVE  \E a \in alerts : /\ a.rule = pair.rule
                                   /\ a.switch = pair.switch
                                   /\ a.ts >= f.began - Window
      <3>1. exceeds
        BY <1>1, <2>3 DEF Exceeds
      <3>2. PICK a \in alerts : /\ a.rule = pair.rule /\ a.switch = pair.switch
                                /\ a.ts >= clock - Window
        BY <1>7, <3>1 DEF recent_alert_exists
      <3>3. f.began <= clock /\ f.began \in Int
        BY <1>3, <2>2 DEF FrameFits, Frame
      <3>4. a.ts >= f.began - Window
        BY <1>5, <3>2, <3>3
      <3>5. QED
        BY <3>2, <3>4
    <2>4. FrameFits(e, f)
      BY <1>3, <1>4, <2>2, <2>3 DEF FrameFits
    <2>5. QED
      BY <1>2, <2>1, <2>4, FrameStep
  <1>8. QED
    BY <1>6, <1>7

\* The pair in hand is done with: it has its alert.
LEMMA Turning ==
    ASSUME IInv, NEW e \in Evaluation, ev[e].pc \in {"notify", "post"},
           NextTurn(e), loop \in {e, Nobody}, loop' = e,
           UNCHANGED <<alerts, Tables>>
    PROVE  IInv'
  <1> DEFINE f == [ev[e] EXCEPT !.pc = "each", !.now = NoRow,
                                !.done = ev[e].done \cup {ev[e].now}]
  <1>1. ev' = [ev EXCEPT ![e] = f]
    BY DEF NextTurn
  <1>2. ev[e] \in Frame /\ FrameFits(e, ev[e])
    BY FramesFit DEF FrameFits
  <1>3. ev[e].now \in Pair
    BY <1>2 DEF FrameFits
  <1>4. /\ f.pc = "each" /\ f.todo = ev[e].todo /\ f.rules = ev[e].rules
        /\ f.done = ev[e].done \cup {ev[e].now} /\ f.began = ev[e].began /\ f \in Frame
    BY <1>2, <1>3 DEF Frame
  <1> HIDE DEF f
  <1>5. \E a \in alerts : /\ a.rule = ev[e].now.rule
                          /\ a.switch = ev[e].now.switch
                          /\ a.ts >= f.began - Window
    <2>1. PICK a \in alerts : /\ a.rule = ev[e].now.rule
                              /\ a.switch = ev[e].now.switch
                              /\ a.ts >= ev[e].began
      BY <1>2 DEF FrameFits
    <2>2. a.ts \in Int /\ f.began \in Int
      BY <1>4 DEF IInv, TypeOK, Alert, Frame
    <2>3. QED
      BY <1>4, <2>1, <2>2
  <1>6. FrameFits(e, f)
    BY <1>2, <1>4, <1>5 DEF FrameFits
  <1>7. QED
    BY <1>1, <1>6, FrameStep

LEMMA Posting ==
    ASSUME IInv, NEW e \in Evaluation, Post(e)
    PROVE  IInv'
  <1> DEFINE f == [ev[e] EXCEPT !.pc = "post"]
  <1>1. ev' = [ev EXCEPT ![e] = f] /\ loop' = Nobody /\ UNCHANGED <<alerts, Tables>>
        /\ ev[e].pc = "notify"
    BY DEF Post
  <1>2. loop = e
    BY <1>1, HasLoop DEF Owner
  <1>3. ev[e] \in Frame /\ FrameFits(e, ev[e])
    BY FramesFit DEF FrameFits
  <1>4. /\ f.pc = "post" /\ f.todo = ev[e].todo /\ f.rules = ev[e].rules
        /\ f.now = ev[e].now /\ f.done = ev[e].done /\ f.began = ev[e].began /\ f \in Frame
    BY <1>3 DEF Frame
  <1> HIDE DEF f
  <1>5. FrameFits(e, f) /\ ~Owner(f)
    BY <1>1, <1>3, <1>4 DEF FrameFits, Owner
  <1>6. QED
    BY <1>1, <1>2, <1>5, FrameStep

\* The one step that writes alerts.  Its evaluation has the event loop, so no
\* other one is between its recent_alert_exists() and its add_alert().
LEMMA Adding ==
    ASSUME IInv, NEW e \in Evaluation, AddAlert(e)
    PROVE  IInv'
  <1> DEFINE f == [ev[e] EXCEPT !.pc = "notify"]
             x == Alerted(e)
  <1>1. /\ ev' = [ev EXCEPT ![e] = f] /\ alerts' = alerts \cup {x}
        /\ UNCHANGED <<loop, Tables>> /\ ev[e].pc = "add"
    BY DEF AddAlert
  <1>2. loop = e
    BY <1>1, HasLoop DEF Owner
  <1>3. ev[e] \in Frame /\ FrameFits(e, ev[e])
    BY FramesFit DEF FrameFits
  <1>4. /\ ev[e].now \in Pair
        /\ ev[e].now.switch <= sequence.switches
        /\ ev[e].now.rule <= sequence.rules
        /\ ev[e].began <= clock
    BY <1>1, <1>3 DEF FrameFits
  <1>5. /\ f.pc = "notify" /\ f.todo = ev[e].todo /\ f.rules = ev[e].rules
        /\ f.now = ev[e].now /\ f.done = ev[e].done /\ f.began = ev[e].began /\ f \in Frame
    BY <1>3 DEF Frame
  <1>6. clock \in 0 .. MaxClock /\ \A a \in alerts : a \in Alert /\ a.ts \in Int
    BY DEF IInv, TypeOK, Alert
  <1>7. /\ x.rule = ev[e].now.rule /\ x.switch = ev[e].now.switch /\ x.ts = clock
        /\ x \in Alert
    BY <1>4, <1>6 DEF Alerted, Alert, Pair
  <1> HIDE DEF f, x
  <1>8. TypeOK'
    <2>1. ev' \in [Evaluation -> Frame]
      BY <1>1, <1>5 DEF IInv, TypeOK
    <2>2. alerts' \subseteq Alert
      BY <1>1, <1>6, <1>7
    <2>3. QED
      BY <1>1, <2>1, <2>2 DEF IInv, TypeOK, Tables
  <1>9. DedupWindow'
    <2>1. \A a \in alerts : a.rule = x.rule /\ a.switch = x.switch => x.ts - a.ts > Window
      BY <1>1, <1>3, <1>7 DEF FrameFits
    <2>2. \A a \in alerts : a.ts <= x.ts
      BY <1>7 DEF IInv, NotFromFuture
    <2>3. \A a \in alerts' : a \in alerts \/ a = x
      BY <1>1
    <2>4. x.ts \in Int
      BY <1>6, <1>7
    <2>5. ASSUME NEW a \in alerts', NEW b \in alerts',
                 a.rule = b.rule, a.switch = b.switch, a.ts < b.ts
          PROVE  b.ts - a.ts > Window
      <3>1. CASE a \in alerts /\ b \in alerts
        BY <2>5, <3>1 DEF IInv, DedupWindow
      <3>2. CASE a \in alerts /\ b = x
        BY <2>1, <2>5, <3>2
      <3>3. CASE a = x /\ b \in alerts
        BY <1>6, <2>2, <2>4, <2>5, <3>3
      <3>4. CASE a = x /\ b = x
        BY <2>4, <2>5, <3>4
      <3>5. QED
        BY <2>3, <3>1, <3>2, <3>3, <3>4
    <2>6. QED
      BY <2>5 DEF DedupWindow
  <1>10. ASSUME NEW d \in Evaluation
         PROVE  FrameFits(d, ev[d])' /\ (Owner(ev[d])' => loop' = d)
    <2>1. CASE d = e
      <3>1. ev'[d] = f
        BY <1>1, <2>1 DEF IInv, TypeOK
      <3>2. \E a \in alerts' : /\ a.rule = f.now.rule /\ a.switch = f.now.switch
                               /\ a.ts >= f.began
        <4>1. x \in alerts'
          BY <1>1
        <4>2. x.ts >= f.began
          BY <1>4, <1>5, <1>6, <1>7 DEF Frame
        <4>3. QED
          BY <1>5, <1>7, <4>1, <4>2
      <3>3. QED
        BY <1>1, <1>2, <1>3, <1>5, <2>1, <3>1, <3>2 DEF FrameFits, Owner, Tables
    <2>2. CASE d # e
      <3>1. ev'[d] = ev[d]
        BY <1>1, <2>2 DEF IInv, TypeOK
      <3>2. ~Owner(ev[d])
        BY <1>2, <2>2, FramesFit
      <3>3. FrameFits(d, ev[d])
        BY FramesFit
      <3>4. QED
        BY <1>1, <3>1, <3>2, <3>3 DEF FrameFits, Owner, Tables
    <2>3. QED
      BY <2>1, <2>2
  <1>11. /\ \A a \in alerts' : a.ts <= clock'
         /\ \A s \in SwitchId : switches'[s] # NoRow => s <= sequence'.switches
         /\ \A r \in RuleId : rules'[r] # NoRow => r <= sequence'.rules
         /\ \A a \in alerts' : a.switch <= sequence'.switches /\ a.rule <= sequence'.rules
    <2>1. \A a \in alerts : a.ts <= clock /\ a.switch <= sequence.switches
                           /\ a.rule <= sequence.rules
      BY DEF IInv, NotFromFuture, IdsGiven
    <2>2. x.ts <= clock /\ x.switch <= sequence.switches /\ x.rule <= sequence.rules
      BY <1>4, <1>6, <1>7
    <2>3. QED
      BY <1>1, <2>1, <2>2 DEF IInv, IdsGiven, Tables
  <1>12. QED
    BY <1>8, <1>9, <1>10, <1>11, FitsImplyIInv DEF IInv, LoopOwned, HandFull, NotFromFuture,
       StillNone, Stored, IdsGiven, DueAlerted, InHand, FrameFits, Owner

LEMMA Evaluating ==
    ASSUME IInv, NEW e \in Evaluation, ReadRules(e) \/ Proceed(e) \/ Resume(e)
    PROVE  IInv'
  <1>1. CASE ReadRules(e)
    BY <1>1, Reading
  <1>2. CASE ReadSwitches(e)
    BY <1>2, Listing
  <1>3. CASE Consider(e)
    BY <1>3, Considering
  <1>4. CASE AddAlert(e)
    BY <1>4, Adding
  <1>5. CASE AddFails(e)
    <2>1. loop = e
      BY <1>5, HasLoop DEF AddFails, Owner
    <2>2. QED
      BY <1>5, <2>1, Returning DEF AddFails
  <1>6. CASE NoNotify(e)
    <2>1. loop = e
      BY <1>6, HasLoop DEF NoNotify, Owner
    <2>2. QED
      BY <1>6, <2>1, Turning DEF NoNotify
  <1>7. CASE Post(e)
    BY <1>7, Posting
  <1>8. CASE Finish(e)
    <2>1. loop = e
      BY <1>8, HasLoop DEF Finish, Owner
    <2>2. QED
      BY <1>8, <2>1, Returning DEF Finish
  <1>9. CASE Posted(e)
    BY <1>9, Turning DEF Posted
  <1>10. CASE PostRaises(e)
    BY <1>10, Returning DEF PostRaises
  <1>11. QED
    BY <1>1, <1>2, <1>3, <1>4, <1>5, <1>6, <1>7, <1>8, <1>9, <1>10 DEF Proceed, Resume

\* A crash only takes the frames.
LEMMA Crashing ==
    ASSUME IInv, Crash
    PROVE  IInv'
  <1>1. TypeOK'
    <2>1. NoFrame \in Frame
      BY NoFrameFits DEF IInv, FrameFits
    <2>2. QED
      BY <2>1 DEF IInv, TypeOK, Crash, Tables
  <1>2. NoFrame.pc = "idle" /\ NoFrame.began = 0 /\ NoFrame.rules = {}
        /\ NoFrame.todo = {} /\ NoFrame.done = {}
    BY DEF NoFrame
  <1>3. \A e \in Evaluation : ev'[e] = NoFrame
    BY DEF Crash
  <1>4. clock \in Nat /\ UNCHANGED <<alerts, Tables>>
    BY DEF IInv, TypeOK, Crash
  <1>5. LoopOwned' /\ HandFull' /\ StillNone' /\ Stored' /\ DueAlerted'
    BY <1>2, <1>3 DEF LoopOwned, HandFull, StillNone, Stored, DueAlerted, InHand
  <1>6. NotFromFuture' /\ IdsGiven' /\ DedupWindow'
    BY <1>2, <1>3, <1>4 DEF IInv, NotFromFuture, IdsGiven, DedupWindow, InHand, Tables
  <1>7. QED
    BY <1>1, <1>5, <1>6 DEF IInv

LEMMA Beginning ==
    ASSUME Init
    PROVE  IInv
  <1>1. NoFrame \in Frame
    BY DEF NoFrame, Frame
  <1>2. TypeOK
    BY <1>1 DEF Init, TypeOK
  <1>3. NoFrame.pc = "idle" /\ NoFrame.began = 0 /\ NoFrame.rules = {}
        /\ NoFrame.todo = {} /\ NoFrame.done = {}
    BY DEF NoFrame
  <1>4. LoopOwned /\ HandFull /\ StillNone /\ Stored /\ DueAlerted
    BY <1>3 DEF Init, LoopOwned, HandFull, StillNone, Stored, DueAlerted, InHand
  <1>5. NotFromFuture /\ IdsGiven /\ DedupWindow
    BY <1>3 DEF Init, NotFromFuture, IdsGiven, DedupWindow, InHand
  <1>6. QED
    BY <1>2, <1>4, <1>5 DEF IInv

\* The inductive invariant: an evaluation between two awaits has the event
\* loop to itself, so what it was told of recent alerts stays true.
THEOREM AlertsInvariant == Spec => []IInv
  <1>1. Init => IInv
    BY Beginning
  <1>2. IInv /\ [Next]_vars => IInv'
    <2> SUFFICES ASSUME IInv, [Next]_vars
                 PROVE  IInv'
      OBVIOUS
    <2>1. CASE \/ create_switch
               \/ \E s \in SwitchId : delete_switch(s) \/ set_switch_status(s)
               \/ create_alert_rule
               \/ \E r \in RuleId : delete_alert_rule(r)
               \/ Tick
      BY <2>1, Workers
    <2>2. CASE \E e \in Evaluation : ReadRules(e) \/ Proceed(e) \/ Resume(e)
      BY <2>2, Evaluating
    <2>3. CASE Crash
      BY <2>3, Crashing
    <2>4. CASE UNCHANGED vars
      BY <2>4 DEF vars, IInv, TypeOK, LoopOwned, HandFull, NotFromFuture, StillNone, Stored,
         IdsGiven, DedupWindow, DueAlerted, InHand
    <2>5. QED
      BY <2>1, <2>2, <2>3, <2>4 DEF Next
  <1>3. QED
    BY <1>1, <1>2, PTL DEF Spec

\* alerts.py line 10, for any number of evaluations, rules and switches and
\* any window: no rule raises a second alert for a switch within the window.
THEOREM AlertsDedup == Spec => []DedupWindow
  <1>1. IInv => DedupWindow
    BY DEF IInv
  <1>2. QED
    BY <1>1, AlertsInvariant, PTL

\* A switch listed as unreachable that an evaluation is done with is alerted.
THEOREM AlertsDue == Spec => []DueAlerted
  <1>1. IInv => DueAlerted
    BY DEF IInv
  <1>2. QED
    BY <1>1, AlertsInvariant, PTL

LEMMA EvaluationLeavesTables ==
    ASSUME NEW e \in Evaluation, ReadRules(e) \/ Proceed(e) \/ Resume(e)
    PROVE  UNCHANGED Tables
  <1>1. Consider(e) => UNCHANGED Tables
    BY DEF Consider
  <1>2. ReadRules(e) \/ ReadSwitches(e) => UNCHANGED Tables
    BY DEF ReadRules, ReadSwitches
  <1>3. AddAlert(e) \/ AddFails(e) \/ NoNotify(e) \/ Post(e) \/ Finish(e) => UNCHANGED Tables
    BY DEF AddAlert, AddFails, NoNotify, Post, Finish
  <1>4. Posted(e) \/ PostRaises(e) => UNCHANGED Tables
    BY DEF Posted, PostRaises
  <1>5. QED
    BY <1>1, <1>2, <1>3, <1>4 DEF Proceed, Resume

\* Only creation adds a row, with an id beyond all given out, and so beyond
\* those of the alerts that outlived their switch or rule.
THEOREM AlertsFresh == Spec => NewRowUnsuppressed
  <1> DEFINE Fresh ==
        /\ \A s \in SwitchId : switches[s] = NoRow /\ switches'[s] # NoRow =>
               /\ \A a \in alerts : a.switch # s
               /\ \A e \in Evaluation :
                      \A pair \in ev[e].todo \cup ev[e].done : pair.switch # s
        /\ \A r \in RuleId : rules[r] = NoRow /\ rules'[r] # NoRow =>
               /\ \A a \in alerts : a.rule # r
               /\ \A e \in Evaluation :
                      \A pair \in ev[e].todo \cup ev[e].done : pair.rule # r
  <1>1. IInv /\ [Next]_vars => [Fresh]_vars
    <2> SUFFICES ASSUME IInv, Next
                 PROVE  Fresh
      BY DEF vars
    <2>1. sequence.switches \in Nat /\ sequence.rules \in Nat
      BY DEF IInv, TypeOK
    <2>2. /\ \A a \in alerts : a.switch <= sequence.switches /\ a.rule <= sequence.rules
          /\ \A e \in Evaluation : \A pair \in ev[e].todo \cup ev[e].done :
                 pair.switch <= sequence.switches /\ pair.rule <= sequence.rules
      BY DEF IInv, IdsGiven
    <2>3. ASSUME NEW s \in SwitchId, switches[s] = NoRow, switches'[s] # NoRow
          PROVE  s = sequence.switches + 1
      <3>1. \/ create_switch
            \/ \E t \in SwitchId : delete_switch(t) \/ set_switch_status(t)
            \/ UNCHANGED switches
        BY EvaluationLeavesTables DEF Next, create_alert_rule, delete_alert_rule, Tick, Crash, Tables
      <3>2. ~UNCHANGED switches
        BY <2>3
      <3>3. ASSUME NEW t \in SwitchId, delete_switch(t) \/ set_switch_status(t)
            PROVE  FALSE
        <4>1. switches[t] # NoRow /\ \A i \in SwitchId \ {t} : switches'[i] = switches[i]
          BY <3>3 DEF delete_switch, set_switch_status, IInv, TypeOK
        <4>2. QED
          BY <2>3, <4>1
      <3>4. CASE create_switch
        BY <2>3, <3>4 DEF create_switch, NextId, IInv, TypeOK
      <3>5. QED
        BY <3>1, <3>2, <3>3, <3>4
    <2>4. ASSUME NEW r \in RuleId, rules[r] = NoRow, rules'[r] # NoRow
          PROVE  r = sequence.rules + 1
      <3>1. \/ create_alert_rule
            \/ \E t \in RuleId : delete_alert_rule(t)
            \/ UNCHANGED rules
        BY EvaluationLeavesTables DEF Next, create_switch, delete_switch, set_switch_status,
           Tick, Crash, Tables
      <3>2. ~UNCHANGED rules
        BY <2>4
      <3>3. ASSUME NEW t \in RuleId, delete_alert_rule(t)
            PROVE  FALSE
        <4>1. rules[t] # NoRow /\ \A i \in RuleId \ {t} : rules'[i] = rules[i]
          BY <3>3 DEF delete_alert_rule, IInv, TypeOK
        <4>2. QED
          BY <2>4, <4>1
      <3>4. CASE create_alert_rule
        BY <2>4, <3>4 DEF create_alert_rule, NextId, IInv, TypeOK
      <3>5. QED
        BY <3>1, <3>2, <3>3, <3>4
    <2>5. QED
      BY <2>1, <2>2, <2>3, <2>4
  <1>2. QED
    BY <1>1, AlertsInvariant, PTL DEF Spec, NewRowUnsuppressed
=============================================================================
