----------------------------- MODULE Main_proofs -----------------------------
(***************************************************************************)
(* Theorems about the two halves of backend/app/main.py, for every value   *)
(* of the constants: the request handlers (Requests) and, at the end, the  *)
(* life of the process (Service).                                          *)
(*                                                                         *)
(* Whether an answer is explained, or its change is in the audit log, is   *)
(* decided at the last step of a request, from what was read at earlier    *)
(* ones.  IInv therefore says of a request that is being handled which     *)
(* step comes next and with what in hand (Staged), that a row that went    *)
(* away under it was noted (Noted), whether it has its audit entry         *)
(* (Logged); of one that is answered, what the properties say of its       *)
(* answer (Closed).                                                        *)
(***************************************************************************)
EXTENDS Requests, Service, FiniteSetTheorems, WellFoundedInduction, TLAPS

Kind == OfSwitch \cup Changing
          \cup {"api_create_alert_rule", "api_topology", "api_upgrade_apply"}
Location == {"idle", "begin", "poll", "write", "read", "geo", "reread",
             "audit", "list", "script", "wait", "answered"}
Argument == SwitchId \cup User \cup RuleId \cup {NULL}
Content == Creates \cup Updates \cup Role \cup Row \cup {NULL, NoSwitch}
Reading == Row \cup {NULL, NoSwitch} \cup Graph \cup SUBSET SwitchId
Code == {0, 200, 400, 404, 500}
Frame == [kind : Kind \cup {"none"}, arg : Argument, body : Content, pc : Location,
          row : Reading, done : BOOLEAN, code : Code]

\* The kinds of request that come to a step.
Comes(f) ==
    /\ f.pc = "idle" <=> f.kind = "none"
    /\ f.pc = "poll" => f.kind \in {"api_create_switch", "api_poll_switch"}
    /\ f.pc = "write" => f.kind \in {"api_update_switch", "api_delete_switch",
                                     "api_backup_switch"}
    /\ f.pc = "read" => f.kind \in {"api_create_switch", "api_update_switch",
                                    "api_backup_switch", "api_create_user",
                                    "api_create_alert_rule"}
    /\ f.pc = "geo" => f.kind = "api_update_switch"
    /\ f.pc = "reread" => f.kind \in {"api_create_switch", "api_update_switch"}
    /\ f.pc = "audit" => f.kind \in Changing
    /\ f.pc = "list" => f.kind = "api_topology"
    /\ f.pc \in {"script", "wait"} => f.kind = "api_upgrade_apply"

\* What a request asks for, or was given, by its kind.
Argued(f, last) ==
    /\ f.kind \in OfSwitch => f.arg \in SwitchId
    /\ f.kind = "api_create_switch" =>
           /\ f.body \in Creates
           /\ f.arg = NULL \/ f.done
           /\ f.done => f.arg \in SwitchId /\ f.arg <= last
    /\ f.kind = "api_update_switch" => f.body \in Updates
    /\ f.kind \in {"api_create_user", "api_delete_user"} => f.arg \in User
    /\ f.kind = "api_delete_alert_rule" => f.arg \in RuleId
    /\ f.kind = "api_create_alert_rule" /\ f.done => f.arg \in RuleId

\* The statement a request is about was executed, or is still to come.
Effected(f) ==
    /\ f.pc \in {"idle", "begin"} => f.row = NULL
    /\ f.pc \in {"begin", "write"} => ~f.done
    /\ f.pc \in {"read", "audit", "poll", "reread"} /\ f.kind \in Changing \ {"api_update_switch"}
           => f.done

Staged(c) == /\ req[c] \in Frame
             /\ Comes(req[c]) /\ Argued(req[c], sequence.switches) /\ Effected(req[c])

\* What went away under a request was noted.
Noted(c) ==
    LET f == req[c]
    IN  /\ f.kind # "api_topology" /\ f.pc # "answered" /\ f.row = NoSwitch => c \in absent
        /\ f.kind = "api_backup_switch" /\ f.pc = "read" /\ f.arg \notin backups => c \in absent
        /\ f.kind = "api_update_switch" /\ ~f.done /\ ~AsksNothing(f) =>
               /\ f.pc \in {"audit", "reread"} => c \in absent
               /\ f.pc \in {"read", "geo"} => c \in absent \/ f.body.geo
        /\ f.kind = "api_poll_switch" /\ f.pc = "poll" => f.row # NoSwitch

Logged(c) ==
    ~Answered(c) =>
        (c \in audit <=> \/ At(c, {"api_create_switch"}, "poll")
                         \/ At(c, {"api_create_switch"}, "reread")
                         \/ At(c, {"api_upgrade_apply"}, "script")
                         \/ At(c, {"api_upgrade_apply"}, "wait"))

\* The nodes listed include the starts of all links there are.
Listed(c) ==
    At(c, {"api_topology"}, "list") =>
        req[c].row \in SUBSET SwitchId /\ \A l \in isl : l[1] \in req[c].row

\* The properties, of one client.
Explained(c) ==
    Answered(c) =>
        /\ req[c].code = 404 => c \in absent
        /\ req[c].code = 400 =>
               \/ c \in taken
               \/ req[c].kind = "api_create_user" /\ req[c].body \notin Roles
        /\ req[c].code = 500 =>
               \/ c \in absent
               \/ req[c].kind = "api_update_switch" /\ c \in taken
               \/ req[c].kind = "api_poll_switch" /\ req[c].row.method # DemoMethod
Audited(c) ==
    Answered(c) /\ req[c].kind \in Changing =>
        /\ req[c].done /\ c \notin audit => c \in absent /\ req[c].code = 500
        /\ c \in audit /\ ~req[c].done => \/ AsksNothing(req[c])
                                          \/ c \in absent /\ req[c].kind = "api_update_switch"
        /\ req[c].code = 200 => c \in audit
Started(c) ==
    Answered(c) /\ req[c].kind = "api_topology" =>
        \A e \in req[c].row.edges : e[1] \in req[c].row.nodes

Closed(c) == Explained(c) /\ Audited(c) /\ Started(c)

Good(c) == Staged(c) /\ Noted(c) /\ Logged(c) /\ Listed(c) /\ Closed(c)

\* Ids given to two requests are two ids.
Apart ==
    \A c, d \in Client :
        /\ req[c].kind = "api_create_switch" /\ req[c].done
        /\ req[d].kind = "api_create_switch" /\ req[d].done
        /\ c # d
        => req[c].arg # req[d].arg

Tables ==
    /\ switches \in [SwitchId -> Row \cup {NoSwitch}]
    /\ sequence \in [switches : SwitchId \cup {0}, alert_rules : RuleId \cup {0}]
    /\ \A s \in SwitchId : Exists(s) => s <= sequence.switches
    /\ isl \subseteq SwitchId \X SwitchId
    /\ \A l \in isl : Exists(l[1]) /\ l[2] <= sequence.switches
    /\ backups \subseteq {s \in SwitchId : Exists(s)}
    /\ records \subseteq User \cup {r \in RuleId : r <= sequence.alert_rules}

IInv == /\ Tables
        /\ req = [c \in Client |-> req[c]]
        /\ \A c \in Client : Good(c)
        /\ Apart
-----------------------------------------------------------------------------
(* What a step leaves as it is. *)

\* What a step of one request may do to the tables under the others: rows come with new
\* ids, links only go, and backups go with their switch.
TablesMove ==
    /\ sequence.switches <= sequence'.switches
    /\ isl' \subseteq isl
    /\ \A s \in backups \ backups' : ~Exists(s)'

\* The history variables take note of the state a request comes to, until it
\* is answered, and remember it from the first step to the answer.
LEMMA Watched ==
    ASSUME NEW c \in Client, Watch
    PROVE  /\ c \in absent /\ req'[c].pc \notin {"idle", "begin"} => c \in absent'
           /\ c \in taken /\ req'[c].pc \notin {"idle", "begin"} => c \in taken'
           /\ Missing(c)' /\ ~Answered(c) => c \in absent'
           /\ Taken(c)' /\ ~Answered(c) => c \in taken'
BY DEF Watch, Since

\* A request in which nothing happens keeps what is known of it, whatever another does.
LEMMA Kept ==
    ASSUME IInv, Tables', NEW c \in Client, Watch, TablesMove,
           req'[c] = req[c], c \in audit' <=> c \in audit
    PROVE  Good(c)'
<1>0. Good(c)
  BY DEF IInv
<1>1. Staged(c)'
  BY <1>0, RequestsAssumption
     DEF Good, Staged, Argued, Effected, TablesMove, IInv, Tables, RequestsAssumption
<1>2. /\ c \in absent /\ req[c].pc \notin {"idle", "begin"} => c \in absent'
      /\ c \in taken /\ req[c].pc \notin {"idle", "begin"} => c \in taken'
      /\ Missing(c)' /\ ~Answered(c) => c \in absent'
  BY Watched
<1>3. Noted(c)'
  <2>1. CASE req[c].pc \in {"idle", "begin"}
    BY <2>1, <1>0, RequestsAssumption
       DEF Good, Staged, Effected, Noted, RequestsAssumption
  <2>2. CASE req[c].pc \notin {"idle", "begin"}
    <3>1. ASSUME req[c].kind = "api_backup_switch", req[c].pc = "read",
                 req[c].arg \notin backups', req[c].arg \in backups
          PROVE  c \in absent'
      BY <3>1, <1>2, <1>0 DEF TablesMove, Missing, Answered, OfSwitch, Good, Staged
    <3> QED BY <3>1, <2>2, <1>0, <1>2 DEF Good, Noted
  <2> QED BY <2>1, <2>2
<1>4. Logged(c)' /\ Listed(c)'
  BY <1>0 DEF Good, Logged, Listed, At, Answered, TablesMove
<1>5. Closed(c)'
  BY <1>0, <1>2 DEF Good, Closed, Explained, Audited, Started, Answered
<1> QED BY <1>1, <1>3, <1>4, <1>5 DEF Good

\* Nothing but the frame of one request moves, which goes on from f, or is answered.
Moves(c) == req' = [req EXCEPT ![c] = req'[c]]
GoesOn(c, f) == /\ Moves(c) /\ req'[c] \in Frame
                /\ req'[c].kind = f.kind /\ req'[c].arg = f.arg /\ req'[c].body = f.body
                /\ req'[c].row = f.row /\ req'[c].done = f.done

LEMMA AwaitGoesOn ==
    ASSUME IInv, NEW c \in Client, NEW f \in Frame, NEW pc \in Location, Await(c, f, pc)
    PROVE  GoesOn(c, f) /\ req'[c].pc = pc
<1>1. req'[c] = [f EXCEPT !.pc = pc] /\ Moves(c)
  BY DEF IInv, Await, Moves
<1>2. [f EXCEPT !.pc = pc] \in Frame
  BY DEF Frame
<1> QED BY <1>1, <1>2 DEF GoesOn, Frame

LEMMA AnswerGoesOn ==
    ASSUME IInv, NEW c \in Client, NEW f \in Frame, NEW code \in Code,
           Answer(c, f, code)
    PROVE  GoesOn(c, f) /\ req'[c].pc = "answered" /\ req'[c].code = code
<1> DEFINE g == [f EXCEPT !.pc = "answered", !.code = code]
<1>1. req'[c] = g /\ Moves(c)
  BY DEF IInv, Answer, Moves
<1>2. g \in Frame
  <2>1. "answered" \in Location
    BY DEF Location
  <2> QED BY <2>1 DEF Frame
<1>3. /\ g.kind = f.kind /\ g.arg = f.arg /\ g.body = f.body /\ g.row = f.row
      /\ g.done = f.done /\ g.pc = "answered" /\ g.code = code
  BY DEF Frame
<1> QED BY <1>1, <1>2, <1>3 DEF GoesOn

LEMMA RespondGoesOn ==
    ASSUME IInv, NEW c \in Client, NEW f \in Frame, Respond(c, f)
    PROVE  /\ GoesOn(c, f) /\ req'[c].pc = "answered"
           /\ req'[c].code = IF f.row = NoSwitch THEN 500 ELSE 200
BY AnswerGoesOn DEF Respond, Code

\* The same, and what it does to the tables the other requests can bear.
Turns(c, f) ==
    /\ Tables' /\ TablesMove /\ GoesOn(c, f)
    /\ \A d \in Client \ {c} : d \in audit' <=> d \in audit
    /\ f.kind \in Kind /\ Argued(f, sequence'.switches)
    /\ f.kind = "api_create_switch" /\ f.done =>
           \/ req[c].kind = "api_create_switch" /\ req[c].done /\ f.arg = req[c].arg
           \/ f.arg = sequence.switches + 1

\* A step of one request keeps IInv when it keeps what IInv says of that one.
LEMMA OneTurns ==
    ASSUME IInv, NEW c \in Client, Watch, NEW f, Turns(c, f), Good(c)'
    PROVE  IInv'
<1>1. /\ \A d \in Client \ {c} : req'[d] = req[d]
      /\ req' = [d \in Client |-> req'[d]]
      /\ req'[c].kind = f.kind /\ req'[c].arg = f.arg /\ req'[c].done = f.done
  BY DEF IInv, Turns, GoesOn, Moves
<1>2. ASSUME NEW d \in Client \ {c}
      PROVE  Good(d)'
  BY <1>2, <1>1, Kept DEF Turns
<1>3. Apart'
  <2>1. \A d \in Client : Argued(req[d], sequence.switches)
    BY DEF IInv, Good, Staged
  <2>2. \A d \in Client : req[d].kind = "api_create_switch" /\ req[d].done =>
            req[d].arg \in Nat /\ req[d].arg <= sequence.switches
    BY <2>1, RequestsAssumption DEF Argued, RequestsAssumption
  <2>3. sequence.switches \in Nat
    BY RequestsAssumption DEF IInv, Tables, RequestsAssumption
  <2>4. Apart
    BY DEF IInv
  <2> QED BY <1>1, <2>2, <2>3, <2>4 DEF Apart, Turns
<1> QED BY <1>1, <1>2, <1>3 DEF IInv, Turns

\* When it is answered it has no step to come: what matters is its answer.
LEMMA Answers ==
    ASSUME IInv, NEW c \in Client, Watch, NEW f, Turns(c, f), req'[c].pc = "answered",
           Closed(c)'
    PROVE  IInv'
<1>1. "none" \notin Kind
  BY DEF Kind, OfSwitch, Changing
<1>2. Staged(c)'
  BY <1>1 DEF Turns, GoesOn, Staged, Argued, Effected, Comes
<1>3. Good(c)'
  BY <1>2 DEF Good, Noted, Logged, Listed, At, Answered
<1> QED BY <1>3, OneTurns

\* When it goes on it has no answer yet.
LEMMA Continues ==
    ASSUME IInv, NEW c \in Client, Watch, NEW f, Turns(c, f), req'[c].pc # "answered",
           Comes(req[c])', Effected(req[c])', Noted(c)', Logged(c)', Listed(c)'
    PROVE  IInv'
<1>1. Staged(c)'
  BY DEF Turns, GoesOn, Staged, Argued
<1>2. Closed(c)'
  BY DEF Closed, Explained, Audited, Started, Answered
<1>3. Good(c)'
  BY <1>1, <1>2 DEF Good
<1> QED BY <1>3, OneTurns

LEMMA TablesStay == ASSUME IInv, UNCHANGED tables PROVE Tables' /\ TablesMove
BY RequestsAssumption DEF IInv, Tables, TablesMove, tables, Exists, RequestsAssumption

\* What is known of the request that is to step.
LEMMA InHand ==
    ASSUME IInv, NEW c \in Client, req[c].pc # "idle"
    PROVE  /\ req[c] \in Frame /\ req[c].kind \in Kind
           /\ Comes(req[c]) /\ Argued(req[c], sequence.switches) /\ Effected(req[c])
           /\ Noted(c) /\ Logged(c) /\ Listed(c)
BY DEF IInv, Good, Staged, Comes, Frame

\* A step that only reads changes no more than what it read into.
LEMMA ReadTurns ==
    ASSUME IInv, NEW c \in Client, UNCHANGED tables, audit' \ {c} = audit \ {c},
           NEW f, GoesOn(c, f), req[c].pc # "idle",
           f.kind = req[c].kind, f.arg = req[c].arg, f.body = req[c].body, f.done = req[c].done
    PROVE  Turns(c, f)
<1>1. Tables' /\ TablesMove
  BY TablesStay
<1>2. req[c].kind \in Kind /\ Argued(req[c], sequence'.switches)
  BY InHand DEF tables
<1>3. Argued(f, sequence'.switches)
  BY <1>2 DEF Argued
<1> QED BY <1>1, <1>2, <1>3 DEF Turns

LEMMA GetInv == ASSUME IInv, NEW c \in Client, Get(c), Watch PROVE IInv'
<1> DEFINE f == [req[c] EXCEPT !.row = switches[req[c].arg]]
<1>0. /\ req[c].kind \in OfSwitch \ {"api_delete_switch"} /\ req[c].pc = "begin"
      /\ UNCHANGED tables /\ UNCHANGED audit
  BY DEF Get, At
<1>1. /\ req[c] \in Frame /\ req[c].arg \in SwitchId /\ req[c].done = FALSE
      /\ c \notin audit' /\ ~Answered(c) /\ switches' = switches
  BY <1>0, InHand DEF OfSwitch, Frame, Argued, Effected, Logged, At, Answered, tables
<1>2. /\ f \in Frame /\ f.row = switches[req[c].arg]
      /\ f.kind = req[c].kind /\ f.arg = req[c].arg /\ f.body = req[c].body
      /\ f.done = req[c].done
  <2>1. switches[req[c].arg] \in Reading
    BY <1>1 DEF Reading, IInv, Tables
  <2> QED BY <1>1, <2>1 DEF Frame
<1>3. \/ f.row = NoSwitch /\ Answer(c, f, 404)
      \/ /\ f.row # NoSwitch
         /\ \/ f.kind = "api_get_switch" /\ Respond(c, f)
            \/ f.kind = "api_poll_switch" /\ Await(c, f, "poll")
            \/ f.kind \in {"api_backup_switch", "api_update_switch"} /\ Await(c, f, "write")
  BY DEF Get
<1> HIDE DEF f
<1>4. CASE f.row = NoSwitch /\ Answer(c, f, 404)
  <2>1. GoesOn(c, f) /\ req'[c].pc = "answered" /\ req'[c].code = 404
    BY <1>4, <1>2, AnswerGoesOn DEF Code
  <2>2. c \in absent'
    <3>1. Missing(c)'
      BY <2>1, <1>0, <1>1, <1>2, <1>4 DEF Missing, Exists, GoesOn
    <3> QED BY <3>1, <1>1, Watched
  <2>3. Closed(c)'
    BY <2>1, <2>2, <1>0, <1>1, <1>2
       DEF Closed, Explained, Audited, Started, Answered, GoesOn, OfSwitch
  <2> QED BY <2>1, <2>3, <1>0, <1>2, ReadTurns, Answers
<1>5. CASE f.row # NoSwitch /\ f.kind = "api_get_switch" /\ Respond(c, f)
  <2>1. GoesOn(c, f) /\ req'[c].pc = "answered" /\ req'[c].code = 200
    BY <1>5, <1>2, RespondGoesOn
  <2>2. Closed(c)'
    BY <2>1, <1>5 DEF Closed, Explained, Audited, Started, Answered, GoesOn, Changing
  <2> QED BY <2>1, <2>2, <1>0, <1>2, ReadTurns, Answers
<1>6. CASE f.row # NoSwitch /\ f.kind = "api_poll_switch" /\ Await(c, f, "poll")
  <2>1. GoesOn(c, f) /\ req'[c].pc = "poll"
    BY <1>6, <1>2, AwaitGoesOn DEF Location
  <2>2. Comes(req[c])' /\ Effected(req[c])' /\ Noted(c)' /\ Logged(c)' /\ Listed(c)'
    BY <2>1, <1>1, <1>6 DEF GoesOn, Comes, Effected, Noted, Logged, Listed, At, Changing
  <2> QED BY <2>1, <2>2, <1>0, <1>2, ReadTurns, Continues
<1>7. CASE /\ f.row # NoSwitch /\ f.kind \in {"api_backup_switch", "api_update_switch"}
           /\ Await(c, f, "write")
  <2>1. GoesOn(c, f) /\ req'[c].pc = "write"
    BY <1>7, <1>2, AwaitGoesOn DEF Location
  <2>2. Comes(req[c])' /\ Effected(req[c])' /\ Noted(c)' /\ Logged(c)' /\ Listed(c)'
    BY <2>1, <1>1, <1>2, <1>7 DEF GoesOn, Comes, Effected, Noted, Logged, Listed, At
  <2> QED BY <2>1, <2>2, <1>0, <1>2, ReadTurns, Continues
<1> QED BY <1>3, <1>4, <1>5, <1>6, <1>7

LEMMA AddAuditInv == ASSUME IInv, NEW c \in Client, AddAudit(c), Watch PROVE IInv'
<1> DEFINE f == req[c]
<1>0. /\ UNCHANGED tables /\ audit' = audit \cup {c}
      /\ \/ req[c].pc = "audit"
         \/ req[c].kind = "api_upgrade_apply" /\ req[c].pc = "begin"
  BY DEF AddAudit, At
<1>1. /\ f \in Frame /\ Comes(f) /\ Effected(f) /\ Noted(c)
      /\ ~Answered(c) /\ req[c].pc # "idle" /\ c \in audit'
  BY <1>0, InHand DEF Answered
<1>2. f.row = NoSwitch => c \in absent /\ f.pc = "audit"
  BY <1>0, <1>1, RequestsAssumption
     DEF Noted, Effected, Comes, Changing, RequestsAssumption
<1>3. \/ f.kind = "api_create_switch" /\ Await(c, f, "poll")
      \/ f.kind = "api_upgrade_apply" /\ Await(c, f, "script")
      \/ f.kind \notin {"api_create_switch", "api_upgrade_apply"} /\ Respond(c, f)
  BY DEF AddAudit
<1>4. CASE f.kind = "api_create_switch" /\ Await(c, f, "poll")
  <2>1. GoesOn(c, f) /\ req'[c].pc = "poll"
    BY <1>4, <1>1, AwaitGoesOn DEF Location
  <2>2. Comes(req[c])' /\ Effected(req[c])' /\ Noted(c)' /\ Logged(c)' /\ Listed(c)'
    BY <2>1, <1>0, <1>1, <1>2, <1>4, Watched
       DEF GoesOn, Comes, Effected, Noted, Logged, Listed, At, Changing
  <2> QED BY <2>1, <2>2, <1>0, <1>1, ReadTurns, Continues
<1>5. CASE f.kind = "api_upgrade_apply" /\ Await(c, f, "script")
  <2>1. GoesOn(c, f) /\ req'[c].pc = "script"
    BY <1>5, <1>1, AwaitGoesOn DEF Location
  <2>2. Comes(req[c])' /\ Effected(req[c])' /\ Noted(c)' /\ Logged(c)' /\ Listed(c)'
    BY <2>1, <1>0, <1>1, <1>2, <1>5, Watched
       DEF GoesOn, Comes, Effected, Noted, Logged, Listed, At, Changing
  <2> QED BY <2>1, <2>2, <1>0, <1>1, ReadTurns, Continues
<1>6. CASE f.kind \notin {"api_create_switch", "api_upgrade_apply"} /\ Respond(c, f)
  <2>1. GoesOn(c, f) /\ req'[c].pc = "answered" /\ req'[c].code \in {200, 500}
        /\ (req'[c].code = 500 => f.row = NoSwitch)
    BY <1>6, <1>1, RespondGoesOn
  <2>2. f.pc = "audit" /\ f.kind \in Changing
    BY <1>0, <1>1, <1>6 DEF Comes
  <2>3. c \in absent => c \in absent'
    BY <2>1, Watched
  <2>4. ~f.done => f.kind = "api_update_switch" /\ (c \in absent' \/ AsksNothing(f))
    BY <2>2, <2>3, <1>1, <1>6 DEF Effected, Noted
  <2>5. Closed(c)'
    BY <2>1, <2>2, <2>3, <2>4, <1>1, <1>2
       DEF Closed, Explained, Audited, Started, Answered, GoesOn, Changing, AsksNothing
  <2> QED BY <2>1, <2>5, <1>0, <1>1, ReadTurns, Answers
<1> QED BY <1>3, <1>4, <1>5, <1>6

LEMMA InsertSwitchInv == ASSUME IInv, NEW c \in Client, InsertSwitch(c), Watch PROVE IInv'
<1> DEFINE s == NextSwitch
           f == [Done(c) EXCEPT !.arg = s]
<1>0. /\ req[c].kind = "api_create_switch" /\ req[c].pc = "begin" /\ s \in SwitchId
      /\ UNCHANGED isl /\ UNCHANGED backups /\ UNCHANGED records /\ UNCHANGED audit
  BY DEF InsertSwitch, At
<1>1. /\ req[c] \in Frame /\ req[c].kind \in Kind /\ req[c].row = NULL /\ req[c].done = FALSE
      /\ req[c].arg = NULL /\ req[c].body \in Creates /\ c \notin audit' /\ ~Answered(c)
      /\ Argued(req[c], sequence.switches)
  BY <1>0, InHand DEF Frame, Argued, Effected, Logged, At, Answered
<1>2. /\ f \in Frame /\ f.arg = s /\ f.done = TRUE
      /\ f.kind = req[c].kind /\ f.body = req[c].body /\ f.row = NULL
  <2>1. s \in Argument
    BY <1>0 DEF Argument
  <2> QED BY <1>1, <2>1 DEF Frame, Done
<1>3. CASE IpFree(s, req[c].body.ip)
  <2>1. /\ switches' = [switches EXCEPT ![s] = req[c].body]
        /\ sequence' = [sequence EXCEPT !.switches = s] /\ Await(c, f, "read")
    BY <1>3 DEF InsertSwitch
  <2>2. Tables' /\ TablesMove
    <3>1. /\ sequence.switches \in Nat /\ sequence.alert_rules \in RuleId \cup {0}
          /\ sequence'.switches = sequence.switches + 1 /\ s = sequence.switches + 1
          /\ sequence' \in [switches : SwitchId \cup {0}, alert_rules : RuleId \cup {0}]
          /\ sequence'.alert_rules = sequence.alert_rules
      <4>1. sequence \in [switches : SwitchId \cup {0}, alert_rules : RuleId \cup {0}]
        BY DEF IInv, Tables
      <4>2. s = sequence.switches + 1
        BY DEF NextSwitch
      <4> HIDE DEF s
      <4> QED BY <4>1, <4>2, <2>1, <1>0, RequestsAssumption DEF RequestsAssumption
    <3>2. /\ switches' \in [SwitchId -> Row \cup {NoSwitch}]
          /\ \A t \in SwitchId \ {s} : switches'[t] = switches[t]
      BY <2>1, <1>0, <1>1, RequestsAssumption DEF IInv, Tables, RequestsAssumption
    <3>3. \A t \in SwitchId : Exists(t) => Exists(t)' /\ t <= sequence.switches /\ t # s
      BY <3>1, <3>2, RequestsAssumption DEF IInv, Tables, Exists, RequestsAssumption
    <3>4. \A t \in SwitchId : Exists(t)' => t <= sequence'.switches
      BY <3>1, <3>2, RequestsAssumption DEF IInv, Tables, Exists, RequestsAssumption
    <3>5. \A l \in isl : l[1] \in SwitchId /\ l[2] \in SwitchId
      BY DEF IInv, Tables
    <3> HIDE DEF s
    <3>6. \A l \in isl' : Exists(l[1])' /\ l[2] <= sequence'.switches
      BY <1>0, <3>1, <3>3, <3>5, RequestsAssumption DEF IInv, Tables, RequestsAssumption
    <3> QED BY <1>0, <3>1, <3>2, <3>3, <3>4, <3>6 DEF IInv, Tables, TablesMove
  <2> HIDE DEF f
  <2>3. GoesOn(c, f) /\ req'[c].pc = "read"
    BY <2>1, <1>2, AwaitGoesOn DEF Location
  <2>4. Turns(c, f)
    <3>1. s = sequence.switches + 1 /\ sequence'.switches = s /\ s \in Nat
      BY <2>1, <1>0, RequestsAssumption DEF NextSwitch, IInv, Tables, RequestsAssumption
    <3>2. s <= sequence'.switches
      BY <3>1
    <3>3. Argued(f, sequence'.switches)
      BY <3>2, <1>0, <1>1, <1>2 DEF Argued, OfSwitch
    <3> QED BY <2>2, <2>3, <3>1, <3>3, <1>0, <1>1, <1>2 DEF Turns
  <2>5. Comes(req[c])' /\ Effected(req[c])' /\ Noted(c)' /\ Logged(c)' /\ Listed(c)'
    BY <2>3, <1>0, <1>1, <1>2, RequestsAssumption
       DEF GoesOn, Comes, Effected, Noted, Logged, Listed, At, RequestsAssumption
  <2> QED BY <2>3, <2>4, <2>5, Continues
<1>4. CASE ~IpFree(s, req[c].body.ip)
  <2>1. Answer(c, req[c], 400) /\ UNCHANGED tables
    BY <1>4, <1>0 DEF InsertSwitch, tables
  <2>2. GoesOn(c, req[c]) /\ req'[c].pc = "answered" /\ req'[c].code = 400
    BY <2>1, <1>1, AnswerGoesOn DEF Code
  <2>3. Taken(c)'
    <3>1. ~IpFree(NULL, req[c].body.ip)
      BY <1>4, RequestsAssumption DEF IpFree, RequestsAssumption
    <3> QED BY <2>1, <2>2, <3>1, <1>0, <1>1 DEF Taken, GoesOn, IpFree, Exists, tables
  <2>4. Closed(c)'
    BY <2>2, <2>3, <1>0, <1>1, Watched
       DEF Closed, Explained, Audited, Started, Answered, GoesOn
  <2> QED BY <2>1, <2>2, <2>4, <1>0, <1>1, ReadTurns, Answers
<1> QED BY <1>3, <1>4

LEMMA ReadSwitchInv == ASSUME IInv, NEW c \in Client, ReadSwitch(c), Watch PROVE IInv'
<1> DEFINE f == [req[c] EXCEPT !.row = switches[req[c].arg]]
           pc == IF f.kind = "api_update_switch" /\ f.body.geo THEN "geo" ELSE "audit"
<1>0. /\ req[c].kind \in {"api_create_switch", "api_update_switch"} /\ req[c].pc = "read"
      /\ UNCHANGED tables /\ UNCHANGED audit /\ Await(c, f, pc)
  BY DEF ReadSwitch, At
<1>1. /\ req[c] \in Frame /\ Noted(c) /\ req[c].arg \in SwitchId
      /\ req[c].kind = "api_create_switch" => req[c].done
      /\ c \notin audit' /\ ~Answered(c) /\ switches' = switches
  BY <1>0, InHand DEF OfSwitch, Argued, Effected, Logged, At, Answered, Changing, tables
<1>2. /\ f \in Frame /\ f.row = switches[req[c].arg]
      /\ f.kind = req[c].kind /\ f.arg = req[c].arg /\ f.body = req[c].body
      /\ f.done = req[c].done
  <2>1. switches[req[c].arg] \in Reading
    BY <1>1 DEF Reading, IInv, Tables
  <2> QED BY <1>1, <2>1 DEF Frame
<1> HIDE DEF f
<1>3. GoesOn(c, f) /\ req'[c].pc = pc
  BY <1>0, <1>2, AwaitGoesOn DEF Location
<1>4. f.row = NoSwitch => c \in absent'
  <2>1. f.row = NoSwitch => Missing(c)'
    BY <1>0, <1>1, <1>2, <1>3 DEF Missing, Exists, GoesOn, OfSwitch
  <2> QED BY <2>1, <1>1, Watched
<1>5. c \in absent => c \in absent'
  BY <1>3, Watched
<1>6. Comes(req[c])' /\ Effected(req[c])'
  BY <1>0, <1>1, <1>2, <1>3 DEF GoesOn, Comes, Effected, Changing
<1>7. Noted(c)'
  BY <1>0, <1>1, <1>2, <1>3, <1>4, <1>5 DEF GoesOn, Noted, AsksNothing
<1>8. Logged(c)' /\ Listed(c)'
  BY <1>0, <1>1, <1>3 DEF GoesOn, Logged, Listed, At
<1> QED BY <1>0, <1>2, <1>3, <1>6, <1>7, <1>8, ReadTurns, Continues

LEMMA PollRaisesInv == ASSUME IInv, NEW c \in Client, PollRaises(c), Watch PROVE IInv'
<1> DEFINE f == req[c]
<1>0. /\ f.kind \in {"api_create_switch", "api_poll_switch"} /\ f.pc = "poll" /\ MayRaise(f)
      /\ UNCHANGED tables /\ UNCHANGED audit
  BY DEF PollRaises, At
<1>1. /\ f \in Frame /\ Noted(c) /\ ~Answered(c) /\ switches' = switches
      /\ f.kind = "api_create_switch" => f.done /\ c \in audit'
  BY <1>0, InHand DEF Effected, Logged, At, Answered, Changing, tables
<1>2. c \in absent /\ req'[c].pc = "answered" => c \in absent'
  BY Watched
<1>3. CASE f.kind = "api_create_switch"
  <2>1. Respond(c, f)
    BY <1>3 DEF PollRaises
  <2>2. /\ GoesOn(c, f) /\ req'[c].pc = "answered"
        /\ req'[c].code = IF f.row = NoSwitch THEN 500 ELSE 200
    BY <2>1, <1>1, RespondGoesOn
  <2>3. f.row = NoSwitch => c \in absent'
    BY <2>2, <1>1, <1>2, <1>3 DEF Noted, Answered
  <2>4. Closed(c)'
    BY <2>2, <2>3, <1>1, <1>3 DEF Closed, Explained, Audited, Started, Answered, GoesOn
  <2> QED BY <2>2, <2>4, <1>0, <1>1, ReadTurns, Answers
<1>4. CASE f.kind = "api_poll_switch"
  <2>1. Answer(c, f, 500)
    BY <1>4 DEF PollRaises
  <2>2. GoesOn(c, f) /\ req'[c].pc = "answered" /\ req'[c].code = 500
    BY <2>1, <1>1, AnswerGoesOn DEF Code
  <2>3. f.row.method = DemoMethod => c \in absent'
    <3>1. f.row.method = DemoMethod => ~Exists(f.arg)
      BY <1>0, <1>1, <1>4 DEF Noted, MayRaise
    <3>2. f.row.method = DemoMethod => Missing(c)'
      BY <3>1, <2>2, <1>1, <1>4 DEF Missing, Exists, GoesOn, OfSwitch
    <3> QED BY <3>2, <1>1, Watched
  <2>4. Closed(c)'
    BY <2>2, <2>3, <1>1, <1>4
       DEF Closed, Explained, Audited, Started, Answered, GoesOn, Changing
  <2> QED BY <2>2, <2>4, <1>0, <1>1, ReadTurns, Answers
<1> QED BY <1>0, <1>3, <1>4

LEMMA PollReturnsInv == ASSUME IInv, NEW c \in Client, PollReturns(c), Watch PROVE IInv'
<1> DEFINE f == req[c]
<1>0. /\ f.kind \in {"api_create_switch", "api_poll_switch"} /\ f.pc = "poll" /\ MayReturn(f)
      /\ UNCHANGED tables /\ UNCHANGED audit
  BY DEF PollReturns, At
<1>1. /\ f \in Frame /\ ~Answered(c) /\ f.row # NoSwitch
      /\ f.kind = "api_create_switch" => f.done /\ c \in audit'
      /\ f.kind = "api_poll_switch" => c \notin audit'
  BY <1>0, InHand DEF Effected, Logged, At, Answered, Changing, MayReturn
<1>2. CASE f.kind = "api_create_switch"
  <2>1. Await(c, f, "reread")
    BY <1>2 DEF PollReturns
  <2>2. GoesOn(c, f) /\ req'[c].pc = "reread"
    BY <2>1, <1>1, AwaitGoesOn DEF Location
  <2>3. Comes(req[c])' /\ Effected(req[c])' /\ Noted(c)' /\ Logged(c)' /\ Listed(c)'
    BY <2>2, <1>1, <1>2 DEF GoesOn, Comes, Effected, Noted, Logged, Listed, At
  <2> QED BY <2>2, <2>3, <1>0, <1>1, ReadTurns, Continues
<1>3. CASE f.kind = "api_poll_switch"
  <2>1. Respond(c, f)
    BY <1>3 DEF PollReturns
  <2>2. GoesOn(c, f) /\ req'[c].pc = "answered" /\ req'[c].code = 200
    BY <2>1, <1>1, RespondGoesOn
  <2>3. Closed(c)'
    BY <2>2, <1>3 DEF Closed, Explained, Audited, Started, Answered, GoesOn, Changing
  <2> QED BY <2>2, <2>3, <1>0, <1>1, ReadTurns, Answers
<1> QED BY <1>0, <1>2, <1>3

LEMMA RereadInv == ASSUME IInv, NEW c \in Client, Reread(c), Watch PROVE IInv'
<1> DEFINE f == [req[c] EXCEPT !.row = switches[req[c].arg]]
<1>0. /\ req[c].kind \in {"api_create_switch", "api_update_switch"} /\ req[c].pc = "reread"
      /\ UNCHANGED tables /\ UNCHANGED audit
  BY DEF Reread, At
<1>1. /\ req[c] \in Frame /\ Noted(c) /\ req[c].arg \in SwitchId
      /\ req[c].kind = "api_create_switch" => req[c].done /\ c \in audit'
      /\ req[c].kind = "api_update_switch" => c \notin audit'
      /\ ~Answered(c) /\ switches' = switches
  BY <1>0, InHand DEF OfSwitch, Argued, Effected, Logged, At, Answered, Changing, tables
<1>2. /\ f \in Frame /\ f.row = switches[req[c].arg]
      /\ f.kind = req[c].kind /\ f.arg = req[c].arg /\ f.body = req[c].body
      /\ f.done = req[c].done
  <2>1. switches[req[c].arg] \in Reading
    BY <1>1 DEF Reading, IInv, Tables
  <2> QED BY <1>1, <2>1 DEF Frame
<1>3. IF f.kind = "api_create_switch" THEN Respond(c, f) ELSE Await(c, f, "audit")
  BY DEF Reread
<1> HIDE DEF f
<1>4. ASSUME GoesOn(c, f), f.row = NoSwitch
      PROVE  c \in absent'
  <2>1. Missing(c)'
    BY <1>0, <1>1, <1>2, <1>4 DEF Missing, Exists, GoesOn, OfSwitch
  <2> QED BY <2>1, <1>1, Watched
<1>5. CASE f.kind = "api_create_switch"
  <2>1. /\ GoesOn(c, f) /\ req'[c].pc = "answered"
        /\ req'[c].code = IF f.row = NoSwitch THEN 500 ELSE 200
    BY <1>3, <1>5, <1>2, RespondGoesOn
  <2>2. Closed(c)'
    BY <2>1, <1>1, <1>2, <1>4, <1>5
       DEF Closed, Explained, Audited, Started, Answered, GoesOn
  <2> QED BY <2>1, <2>2, <1>0, <1>2, ReadTurns, Answers
<1>6. CASE f.kind = "api_update_switch"
  <2>1. GoesOn(c, f) /\ req'[c].pc = "audit"
    BY <1>3, <1>6, <1>2, AwaitGoesOn DEF Location
  <2>2. c \in absent => c \in absent'
    BY <2>1, Watched
  <2>3. Comes(req[c])' /\ Effected(req[c])' /\ Logged(c)' /\ Listed(c)'
    BY <2>1, <1>1, <1>2, <1>6 DEF GoesOn, Comes, Effected, Logged, Listed, At, Changing
  <2>4. Noted(c)'
    BY <2>1, <2>2, <1>0, <1>1, <1>2, <1>4, <1>6 DEF GoesOn, Noted, AsksNothing
  <2> QED BY <2>1, <2>3, <2>4, <1>0, <1>2, ReadTurns, Continues
<1> QED BY <1>0, <1>2, <1>5, <1>6

LEMMA UpdateSwitchInv == ASSUME IInv, NEW c \in Client, UpdateSwitch(c), Watch PROVE IInv'
<1> DEFINE s == req[c].arg
           b == req[c].body
           changes == {b.ip, b.region, b.method} # {NULL}
           f == [req[c] EXCEPT !.done = changes /\ Exists(s)]
<1>0. /\ req[c].kind = "api_update_switch" /\ req[c].pc = "write"
      /\ UNCHANGED <<sequence, isl, backups, records, audit>>
  BY DEF UpdateSwitch, At
<1>1. /\ req[c] \in Frame /\ req[c].kind \in Kind /\ Noted(c) /\ s \in SwitchId /\ b \in Updates
      /\ req[c].done = FALSE /\ c \notin audit' /\ ~Answered(c)
  BY <1>0, InHand DEF OfSwitch, Argued, Effected, Logged, At, Answered
<1>2. CASE changes /\ Exists(s) /\ ~IpFree(s, b.ip)
  <2>1. Answer(c, req[c], 500) /\ UNCHANGED tables
    BY <1>2, <1>0 DEF UpdateSwitch, tables
  <2>2. GoesOn(c, req[c]) /\ req'[c].pc = "answered" /\ req'[c].code = 500
    BY <2>1, <1>1, AnswerGoesOn DEF Code
  <2>3. Taken(c)'
    BY <2>1, <2>2, <1>0, <1>2 DEF Taken, GoesOn, IpFree, Exists, tables
  <2>4. c \in taken'
    BY <2>3, <1>1, Watched
  <2>5. Closed(c)'
    BY <2>2, <2>4, <1>0, <1>1 DEF Closed, Explained, Audited, Started, Answered, GoesOn
  <2> QED BY <2>1, <2>2, <2>5, <1>0, <1>1, ReadTurns, Answers
<1>3. CASE ~(changes /\ Exists(s) /\ ~IpFree(s, b.ip))
  <2> DEFINE row == [ip     |-> Given(b.ip, switches[s].ip),
                     region |-> Given(b.region, switches[s].region),
                     method |-> Given(b.method, switches[s].method)]
  <2>1. /\ switches' = IF Exists(s) THEN [switches EXCEPT ![s] = row] ELSE switches
        /\ Await(c, f, "read")
    BY <1>3 DEF UpdateSwitch
  <2>2. Exists(s) => row \in Row
    <3>1. b \in Body
      BY <1>1, RequestsAssumption DEF RequestsAssumption
    <3>2. Exists(s) => switches[s] \in Row
      BY <1>1 DEF IInv, Tables, Exists
    <3> QED BY <3>1, <3>2 DEF Body, Row, Given
  <2>3. /\ switches' \in [SwitchId -> Row \cup {NoSwitch}]
        /\ \A t \in SwitchId : Exists(t)' <=> Exists(t)
    <3> HIDE DEF row, s
    <3> QED BY <2>1, <2>2, <1>1, RequestsAssumption DEF IInv, Tables, Exists, RequestsAssumption
  <2>4. Tables' /\ TablesMove
    <3>1. \A l \in isl : l[1] \in SwitchId
      BY DEF IInv, Tables
    <3>2. sequence.switches \in Nat
      BY RequestsAssumption DEF IInv, Tables, RequestsAssumption
    <3> QED BY <2>3, <3>1, <3>2, <1>0 DEF IInv, Tables, TablesMove
  <2>5. /\ f \in Frame /\ f.kind = req[c].kind /\ f.arg = s /\ f.body = b
        /\ f.row = req[c].row /\ f.done = (changes /\ Exists(s))
    BY <1>1 DEF Frame
  <2> HIDE DEF f
  <2>6. GoesOn(c, f) /\ req'[c].pc = "read"
    BY <2>1, <2>5, AwaitGoesOn DEF Location
  <2>7. Turns(c, f)
    <3>1. Argued(f, sequence'.switches)
      BY <2>5, <1>0, <1>1 DEF Argued, OfSwitch
    <3> QED BY <3>1, <2>4, <2>5, <2>6, <1>0, <1>1 DEF Turns
  <2>8. ~Exists(s) => c \in absent'
    <3>1. ~Exists(s) => Missing(c)'
      BY <2>1, <2>5, <2>6, <1>0 DEF Missing, GoesOn, OfSwitch, Exists
    <3> QED BY <3>1, <1>1, Watched
  <2>9. c \in absent => c \in absent'
    BY <2>6, Watched
  <2>10. ~changes => b.geo \/ AsksNothing(f)
    BY <2>5, <1>0 DEF AsksNothing
  <2>11. Noted(c)'
    BY <2>5, <2>6, <2>8, <2>9, <2>10, <1>0, <1>1 DEF GoesOn, Noted, AsksNothing
  <2>12. Comes(req[c])' /\ Effected(req[c])' /\ Logged(c)' /\ Listed(c)'
    BY <2>5, <2>6, <1>0, <1>1 DEF GoesOn, Comes, Effected, Logged, Listed, At
  <2> QED BY <2>6, <2>7, <2>11, <2>12, Continues
<1> QED BY <1>2, <1>3

LEMMA SetGeoInv == ASSUME IInv, NEW c \in Client, SetGeo(c), Watch PROVE IInv'
<1> DEFINE f == [req[c] EXCEPT !.done = @ \/ Exists(req[c].arg)]
<1>0. /\ req[c].kind = "api_update_switch" /\ req[c].pc = "geo" /\ Await(c, f, "reread")
      /\ UNCHANGED tables /\ UNCHANGED audit
  BY DEF SetGeo, At
<1>1. /\ req[c] \in Frame /\ req[c].kind \in Kind /\ Noted(c) /\ c \notin audit' /\ ~Answered(c)
      /\ Argued(req[c], sequence'.switches)
  BY <1>0, InHand DEF Logged, At, Answered, tables
<1>2. /\ f \in Frame /\ f.kind = req[c].kind /\ f.arg = req[c].arg /\ f.body = req[c].body
      /\ f.row = req[c].row
      /\ ~f.done => ~Exists(req[c].arg)
  BY <1>1 DEF Frame
<1> HIDE DEF f
<1>3. GoesOn(c, f) /\ req'[c].pc = "reread"
  BY <1>0, <1>2, AwaitGoesOn DEF Location
<1>4. Turns(c, f)
  <2>1. Argued(f, sequence'.switches)
    BY <1>0, <1>1, <1>2 DEF Argued
  <2> QED BY <2>1, <1>0, <1>1, <1>2, <1>3, TablesStay DEF Turns
<1>5. ~f.done => c \in absent'
  <2>1. ~f.done => Missing(c)'
    BY <1>0, <1>2, <1>3 DEF Missing, GoesOn, OfSwitch, Exists, tables
  <2> QED BY <2>1, <1>1, Watched
<1>6. c \in absent => c \in absent'
  BY <1>3, Watched
<1>7. Noted(c)'
  BY <1>0, <1>1, <1>2, <1>3, <1>5, <1>6 DEF GoesOn, Noted
<1>8. Comes(req[c])' /\ Effected(req[c])' /\ Logged(c)' /\ Listed(c)'
  BY <1>0, <1>1, <1>2, <1>3 DEF GoesOn, Comes, Effected, Logged, Listed, At
<1> QED BY <1>3, <1>4, <1>7, <1>8, Continues

LEMMA GetExistingInv == ASSUME IInv, NEW c \in Client, GetExisting(c), Watch PROVE IInv'
<1> DEFINE f == [req[c] EXCEPT !.body = switches[req[c].arg]]
<1>0. /\ req[c].kind = "api_delete_switch" /\ req[c].pc = "begin" /\ Await(c, f, "write")
      /\ UNCHANGED tables /\ UNCHANGED audit
  BY DEF GetExisting, At
<1>1. /\ req[c] \in Frame /\ req[c].kind \in Kind /\ req[c].row = NULL /\ req[c].done = FALSE
      /\ req[c].arg \in SwitchId /\ c \notin audit'
  BY <1>0, InHand DEF Frame, Argued, Effected, Logged, At, Answered, OfSwitch
<1>2. /\ f \in Frame /\ f.kind = req[c].kind /\ f.arg = req[c].arg
      /\ f.row = req[c].row /\ f.done = req[c].done
  <2>1. switches[req[c].arg] \in Content
    BY <1>1 DEF Content, IInv, Tables
  <2> QED BY <1>1, <2>1 DEF Frame
<1> HIDE DEF f
<1>3. GoesOn(c, f) /\ req'[c].pc = "write"
  BY <1>0, <1>2, AwaitGoesOn DEF Location
<1>4. Turns(c, f)
  <2>1. Argued(f, sequence'.switches)
    BY <1>0, <1>1, <1>2 DEF Argued
  <2> QED BY <2>1, <1>0, <1>1, <1>2, <1>3, TablesStay DEF Turns
<1>5. Comes(req[c])' /\ Effected(req[c])' /\ Noted(c)' /\ Logged(c)' /\ Listed(c)'
  BY <1>0, <1>1, <1>2, <1>3, RequestsAssumption
     DEF GoesOn, Comes, Effected, Noted, Logged, Listed, At, RequestsAssumption
<1> QED BY <1>3, <1>4, <1>5, Continues

LEMMA DeleteSwitchInv == ASSUME IInv, NEW c \in Client, DeleteSwitch(c), Watch PROVE IInv'
<1> DEFINE s == req[c].arg
           f == Done(c)
<1>0. /\ req[c].kind = "api_delete_switch" /\ req[c].pc = "write"
      /\ Cascade(s) /\ UNCHANGED <<sequence, records, audit>>
      /\ IF Exists(s) THEN Await(c, f, "audit") ELSE Answer(c, req[c], 404)
  BY DEF DeleteSwitch, At
<1>1. /\ req[c] \in Frame /\ req[c].kind \in Kind /\ Noted(c) /\ s \in SwitchId
      /\ req[c].done = FALSE /\ c \notin audit' /\ ~Answered(c)
      /\ Argued(req[c], sequence'.switches)
  BY <1>0, InHand DEF OfSwitch, Frame, Argued, Effected, Logged, At, Answered
<1>2. /\ switches' \in [SwitchId -> Row \cup {NoSwitch}] /\ switches'[s] = NoSwitch
      /\ \A t \in SwitchId \ {s} : switches'[t] = switches[t]
  BY <1>0, <1>1 DEF IInv, Tables, Cascade, Exists
<1>3. Tables' /\ TablesMove
  <2>1. \A t \in SwitchId : Exists(t)' <=> Exists(t) /\ t # s
    BY <1>2 DEF Exists
  <2>2. /\ isl' = {l \in isl : l[1] # s} /\ backups' = backups \ {s}
        /\ \A l \in isl : l[1] \in SwitchId
        /\ sequence.switches <= sequence'.switches
    BY <1>0, RequestsAssumption DEF Cascade, IInv, Tables, RequestsAssumption
  <2> HIDE DEF s
  <2> QED BY <2>1, <2>2, <1>0, <1>2 DEF IInv, Tables, TablesMove
<1>4. /\ f \in Frame /\ f.kind = req[c].kind /\ f.arg = s
      /\ f.row = req[c].row /\ f.done = TRUE
  BY <1>1 DEF Frame, Done
<1> HIDE DEF f
<1>5. ASSUME NEW g, GoesOn(c, g), g.kind = req[c].kind, g.arg = s
      PROVE  Turns(c, g)
  BY <1>0, <1>1, <1>3, <1>5 DEF Turns, Argued
<1>6. CASE Exists(s)
  <2>1. GoesOn(c, f) /\ req'[c].pc = "audit"
    BY <1>0, <1>4, <1>6, AwaitGoesOn DEF Location
  <2>2. c \in absent => c \in absent'
    BY <2>1, Watched
  <2>3. Comes(req[c])' /\ Effected(req[c])' /\ Noted(c)' /\ Logged(c)' /\ Listed(c)'
    BY <2>1, <2>2, <1>0, <1>1, <1>4
       DEF GoesOn, Comes, Effected, Noted, Logged, Listed, At, Changing
  <2> QED BY <2>1, <2>3, <1>4, <1>5, Continues
<1>7. CASE ~Exists(s)
  <2>1. GoesOn(c, req[c]) /\ req'[c].pc = "answered" /\ req'[c].code = 404
    BY <1>0, <1>1, <1>7, AnswerGoesOn DEF Code
  <2>2. Missing(c)'
    BY <2>1, <1>0, <1>2 DEF Missing, GoesOn, OfSwitch, Exists
  <2>3. c \in absent'
    BY <2>2, <1>1, Watched
  <2>4. Closed(c)'
    BY <2>1, <2>3, <1>0, <1>1 DEF Closed, Explained, Audited, Started, Answered, GoesOn
  <2> QED BY <2>1, <2>4, <1>5, Answers
<1> QED BY <1>6, <1>7

LEMMA InsertBackupInv == ASSUME IInv, NEW c \in Client, InsertBackup(c), Watch PROVE IInv'
<1> DEFINE s == req[c].arg
           f == Done(c)
<1>0. /\ req[c].kind = "api_backup_switch" /\ req[c].pc = "write"
      /\ UNCHANGED <<switches, sequence, isl, records, audit>>
      /\ IF Exists(s)
         THEN backups' = backups \cup {s} /\ Await(c, f, "read")
         ELSE Answer(c, req[c], 500) /\ UNCHANGED backups
  BY DEF InsertBackup, At
<1>1. /\ req[c] \in Frame /\ req[c].kind \in Kind /\ Noted(c) /\ s \in SwitchId
      /\ req[c].done = FALSE /\ c \notin audit' /\ ~Answered(c)
      /\ Argued(req[c], sequence'.switches)
  BY <1>0, InHand DEF OfSwitch, Frame, Argued, Effected, Logged, At, Answered
<1>2. /\ f \in Frame /\ f.kind = req[c].kind /\ f.arg = s
      /\ f.row = req[c].row /\ f.done = TRUE
  BY <1>1 DEF Frame, Done
<1> HIDE DEF f
<1>3. Tables' /\ TablesMove
  <2>1. sequence.switches <= sequence'.switches
    BY <1>0, RequestsAssumption DEF IInv, Tables, RequestsAssumption
  <2> HIDE DEF s
  <2> QED BY <2>1, <1>0, <1>1 DEF IInv, Tables, TablesMove, Exists
<1>4. ASSUME NEW g, GoesOn(c, g), g.kind = req[c].kind, g.arg = s
      PROVE  Turns(c, g)
  BY <1>0, <1>1, <1>3, <1>4 DEF Turns, Argued
<1>5. CASE Exists(s)
  <2>1. GoesOn(c, f) /\ req'[c].pc = "read" /\ req'[c].arg \in backups'
    <3>1. GoesOn(c, f) /\ req'[c].pc = "read"
      BY <1>0, <1>2, <1>5, AwaitGoesOn DEF Location
    <3> QED BY <3>1, <1>0, <1>2, <1>5 DEF GoesOn
  <2>2. c \in absent => c \in absent'
    BY <2>1, Watched
  <2>3. Comes(req[c])' /\ Effected(req[c])' /\ Noted(c)' /\ Logged(c)' /\ Listed(c)'
    BY <2>1, <2>2, <1>0, <1>1, <1>2 DEF GoesOn, Comes, Effected, Noted, Logged, Listed, At
  <2> QED BY <2>1, <2>3, <1>2, <1>4, Continues
<1>6. CASE ~Exists(s)
  <2>1. GoesOn(c, req[c]) /\ req'[c].pc = "answered" /\ req'[c].code = 500
    BY <1>0, <1>1, <1>6, AnswerGoesOn DEF Code
  <2>2. Missing(c)'
    BY <2>1, <1>0, <1>6 DEF Missing, GoesOn, OfSwitch, Exists
  <2>3. c \in absent'
    BY <2>2, <1>1, Watched
  <2>4. Closed(c)'
    BY <2>1, <2>3, <1>0, <1>1 DEF Closed, Explained, Audited, Started, Answered, GoesOn
  <2> QED BY <2>1, <2>4, <1>4, Answers
<1> QED BY <1>5, <1>6

LEMMA ReadBackupInv == ASSUME IInv, NEW c \in Client, ReadBackup(c), Watch PROVE IInv'
<1> DEFINE f == req[c]
<1>0. /\ f.kind = "api_backup_switch" /\ f.pc = "read" /\ UNCHANGED tables /\ UNCHANGED audit
      /\ IF f.arg \in backups THEN Await(c, f, "audit") ELSE Answer(c, f, 500)
  BY DEF ReadBackup, At
<1>1. /\ f \in Frame /\ Noted(c) /\ f.done = TRUE /\ c \notin audit' /\ ~Answered(c)
  BY <1>0, InHand DEF Frame, Effected, Logged, At, Answered, Changing
<1>2. c \in absent /\ req'[c].pc \in {"audit", "answered"} => c \in absent'
  BY Watched
<1>3. CASE f.arg \in backups
  <2>1. GoesOn(c, f) /\ req'[c].pc = "audit"
    BY <1>0, <1>1, <1>3, AwaitGoesOn DEF Location
  <2>2. Comes(req[c])' /\ Effected(req[c])' /\ Noted(c)' /\ Logged(c)' /\ Listed(c)'
    BY <2>1, <1>0, <1>1, <1>2
       DEF GoesOn, Comes, Effected, Noted, Logged, Listed, At, Changing
  <2> QED BY <2>1, <2>2, <1>0, ReadTurns, Continues
<1>4. CASE f.arg \notin backups
  <2>1. GoesOn(c, f) /\ req'[c].pc = "answered" /\ req'[c].code = 500
    BY <1>0, <1>1, <1>4, AnswerGoesOn DEF Code
  <2>2. c \in absent'
    BY <2>1, <1>0, <1>1, <1>2, <1>4 DEF Noted
  <2>3. Closed(c)'
    BY <2>1, <2>2, <1>0, <1>1 DEF Closed, Explained, Audited, Started, Answered, GoesOn
  <2> QED BY <2>1, <2>3, <1>0, ReadTurns, Answers
<1> QED BY <1>3, <1>4

LEMMA TopologyInv == ASSUME IInv, NEW c \in Client, api_topology(c), Watch PROVE IInv'
<1> DEFINE there == {s \in SwitchId : Exists(s)}
           f == [req[c] EXCEPT !.row = there]
           g == [req[c] EXCEPT !.row = graph(@, isl)]
<1>0. /\ req[c].kind = "api_topology" /\ UNCHANGED tables /\ UNCHANGED audit
      /\ \/ req[c].pc = "begin" /\ Await(c, f, "list")
         \/ req[c].pc = "list" /\ Respond(c, g)
  BY DEF api_topology, At
<1>1. req[c] \in Frame /\ req[c].pc # "idle" /\ c \notin audit' /\ Listed(c) /\ Effected(req[c])
  BY <1>0, InHand DEF Logged, At, Answered
<1>2. CASE req[c].pc = "begin" /\ Await(c, f, "list")
  <2>1. /\ f \in Frame /\ f.kind = req[c].kind /\ f.arg = req[c].arg /\ f.body = req[c].body
        /\ f.row = there /\ f.done = req[c].done
    <3>1. there \in Reading
      BY DEF Reading
    <3> QED BY <3>1, <1>1 DEF Frame
  <2> HIDE DEF f
  <2>2. GoesOn(c, f) /\ req'[c].pc = "list"
    BY <1>2, <2>1, AwaitGoesOn DEF Location
  <2>3. there \in SUBSET SwitchId /\ \A l \in isl' : l[1] \in there
    BY <1>0 DEF IInv, Tables, tables
  <2>4. Listed(c)'
    BY <2>1, <2>2, <2>3 DEF Listed, GoesOn
  <2>5. Comes(req[c])' /\ Effected(req[c])' /\ Noted(c)' /\ Logged(c)'
    BY <2>1, <2>2, <1>0, <1>1, <1>2
       DEF GoesOn, Comes, Effected, Noted, Logged, At, Changing
  <2> QED BY <2>1, <2>2, <2>4, <2>5, <1>0, <1>1, ReadTurns, Continues
<1>3. CASE req[c].pc = "list" /\ Respond(c, g)
  <2>1. req[c].row \in SUBSET SwitchId /\ \A l \in isl : l[1] \in req[c].row
    BY <1>0, <1>1, <1>3 DEF Listed, At
  <2>2. /\ graph(req[c].row, isl) \in Graph
        /\ \A e \in graph(req[c].row, isl).edges : e[1] \in graph(req[c].row, isl).nodes
    BY <2>1 DEF graph, Graph, IInv, Tables
  <2>3. /\ g \in Frame /\ g.kind = req[c].kind /\ g.arg = req[c].arg /\ g.body = req[c].body
        /\ g.row = graph(req[c].row, isl) /\ g.done = req[c].done
    <3>1. graph(req[c].row, isl) \in Reading
      BY <2>2 DEF Reading
    <3> QED BY <3>1, <1>1 DEF Frame
  <2>4. g.row # NoSwitch
    BY <2>2, <2>3, RequestsAssumption DEF RequestsAssumption
  <2> HIDE DEF g
  <2>5. GoesOn(c, g) /\ req'[c].pc = "answered" /\ req'[c].code = 200
    BY <1>3, <2>3, <2>4, RespondGoesOn
  <2>6. Closed(c)'
    BY <2>2, <2>3, <2>5, <1>0
       DEF Closed, Explained, Audited, Started, Answered, GoesOn, Changing
  <2> QED BY <2>3, <2>5, <2>6, <1>0, <1>1, ReadTurns, Answers
<1> QED BY <1>0, <1>2, <1>3

LEMMA InsertUserInv == ASSUME IInv, NEW c \in Client, InsertUser(c), Watch PROVE IInv'
<1> DEFINE f == Done(c)
<1>0. /\ req[c].kind = "api_create_user" /\ req[c].pc = "begin"
      /\ UNCHANGED <<switches, sequence, isl, backups, audit>>
      /\ IF req[c].body \in Roles /\ req[c].arg \notin records
         THEN records' = records \cup {req[c].arg} /\ Await(c, f, "read")
         ELSE Answer(c, req[c], 400) /\ UNCHANGED records
  BY DEF InsertUser, At
<1>1. /\ req[c] \in Frame /\ req[c].kind \in Kind /\ req[c].row = NULL /\ req[c].arg \in User
      /\ req[c].done = FALSE /\ c \notin audit' /\ ~Answered(c)
  BY <1>0, InHand DEF Frame, Argued, Effected, Logged, At, Answered
<1>2. /\ f \in Frame /\ f.kind = req[c].kind /\ f.arg = req[c].arg
      /\ f.row = req[c].row /\ f.done = TRUE
  BY <1>1 DEF Frame, Done
<1> HIDE DEF f
<1>3. Tables' /\ TablesMove
  <2>1. sequence.switches <= sequence'.switches
    BY <1>0, RequestsAssumption DEF IInv, Tables, RequestsAssumption
  <2> QED BY <2>1, <1>0, <1>1 DEF IInv, Tables, TablesMove, Exists
<1>4. ASSUME NEW g, GoesOn(c, g), g.kind = req[c].kind, g.arg = req[c].arg
      PROVE  Turns(c, g)
  BY <1>0, <1>1, <1>3, <1>4 DEF Turns, Argued, OfSwitch
<1>5. CASE req[c].body \in Roles /\ req[c].arg \notin records
  <2>1. GoesOn(c, f) /\ req'[c].pc = "read"
    BY <1>0, <1>2, <1>5, AwaitGoesOn DEF Location
  <2>2. Comes(req[c])' /\ Effected(req[c])' /\ Noted(c)' /\ Logged(c)' /\ Listed(c)'
    BY <2>1, <1>0, <1>1, <1>2, RequestsAssumption
       DEF GoesOn, Comes, Effected, Noted, Logged, Listed, At, RequestsAssumption
  <2> QED BY <2>1, <2>2, <1>2, <1>4, Continues
<1>6. CASE ~(req[c].body \in Roles /\ req[c].arg \notin records)
  <2>1. GoesOn(c, req[c]) /\ req'[c].pc = "answered" /\ req'[c].code = 400 /\ UNCHANGED records
    BY <1>0, <1>1, <1>6, AnswerGoesOn DEF Code
  <2>2. req[c].body \in Roles => Taken(c)'
    BY <2>1, <1>0, <1>6 DEF Taken, GoesOn
  <2>3. Closed(c)'
    BY <2>1, <2>2, <1>0, <1>1, Watched
       DEF Closed, Explained, Audited, Started, Answered, GoesOn
  <2> QED BY <2>1, <2>3, <1>4, Answers
<1> QED BY <1>5, <1>6

LEMMA InsertRuleInv == ASSUME IInv, NEW c \in Client, InsertRule(c), Watch PROVE IInv'
<1> DEFINE r == NextRule
           f == [Done(c) EXCEPT !.arg = r]
<1>0. /\ req[c].kind = "api_create_alert_rule" /\ req[c].pc = "begin"
      /\ r \in RuleId /\ r = sequence.alert_rules + 1
      /\ records' = records \cup {r} /\ sequence' = [sequence EXCEPT !.alert_rules = r]
      /\ UNCHANGED <<switches, isl, backups, audit>> /\ Await(c, f, "read")
  BY DEF InsertRule, At, NextRule
<1>1. /\ req[c] \in Frame /\ req[c].kind \in Kind /\ req[c].row = NULL
      /\ c \notin audit' /\ ~Answered(c)
  BY <1>0, InHand DEF Effected, Logged, At, Answered
<1>2. /\ f \in Frame /\ f.kind = req[c].kind /\ f.arg = r
      /\ f.row = req[c].row /\ f.done = TRUE
  <2>1. r \in Argument
    BY <1>0 DEF Argument
  <2> QED BY <2>1, <1>1 DEF Frame, Done
<1> HIDE DEF f
<1>3. Tables' /\ TablesMove
  <2>1. sequence \in [switches : SwitchId \cup {0}, alert_rules : RuleId \cup {0}]
    BY DEF IInv, Tables
  <2>2. /\ sequence' \in [switches : SwitchId \cup {0}, alert_rules : RuleId \cup {0}]
        /\ sequence'.switches = sequence.switches /\ sequence'.alert_rules = r
    BY <2>1, <1>0
  <2> HIDE DEF r
  <2>3. /\ sequence.switches <= sequence'.switches
        /\ sequence.alert_rules \in Nat /\ r \in Nat
    BY <2>1, <2>2, <1>0, RequestsAssumption DEF RequestsAssumption
  <2>4. records' \subseteq User \cup {q \in RuleId : q <= sequence'.alert_rules}
    <3>1. \A q \in RuleId : q <= sequence.alert_rules => q <= r
      BY <2>3, <1>0, RequestsAssumption DEF RequestsAssumption
    <3> QED BY <2>2, <2>3, <3>1, <1>0 DEF IInv, Tables
  <2> QED BY <2>2, <2>3, <2>4, <1>0 DEF IInv, Tables, TablesMove, Exists
<1>4. GoesOn(c, f) /\ req'[c].pc = "read"
  BY <1>0, <1>2, AwaitGoesOn DEF Location
<1>5. Turns(c, f)
  BY <1>0, <1>1, <1>2, <1>3, <1>4 DEF Turns, Argued, OfSwitch
<1>6. Comes(req[c])' /\ Effected(req[c])' /\ Noted(c)' /\ Logged(c)' /\ Listed(c)'
  BY <1>0, <1>1, <1>2, <1>4, RequestsAssumption
     DEF GoesOn, Comes, Effected, Noted, Logged, Listed, At, RequestsAssumption
<1> QED BY <1>4, <1>5, <1>6, Continues

LEMMA ReadInsertedInv == ASSUME IInv, NEW c \in Client, ReadInserted(c), Watch PROVE IInv'
<1> DEFINE f == req[c]
           g == [req[c] EXCEPT !.row = NoSwitch]
<1>0. /\ f.kind \in {"api_create_user", "api_create_alert_rule"} /\ f.pc = "read"
      /\ UNCHANGED tables /\ UNCHANGED audit
      /\ \/ f.arg \in records /\ Await(c, f, "audit")
         \/ f.arg \notin records /\ f.kind = "api_create_user" /\ Await(c, g, "audit")
         \/ f.arg \notin records /\ f.kind = "api_create_alert_rule" /\ Answer(c, f, 500)
  BY DEF ReadInserted, At
<1>1. /\ f \in Frame /\ Noted(c) /\ f.done = TRUE /\ c \notin audit' /\ ~Answered(c)
      /\ f.arg \in User \cup RuleId
  BY <1>0, InHand DEF Frame, Argued, Effected, Logged, At, Answered, Changing
<1>2. c \in absent /\ req'[c].pc \in {"audit", "answered"} => c \in absent'
  BY Watched
<1>3. ASSUME NEW h, GoesOn(c, h), h.kind = f.kind, h.arg = f.arg, h.done = f.done,
             f.arg \notin records
      PROVE  c \in absent'
  <2>1. Missing(c)'
    BY <1>0, <1>1, <1>3 DEF Missing, GoesOn, OfSwitch, tables
  <2> QED BY <2>1, <1>1, Watched
<1>4. CASE f.arg \in records /\ Await(c, f, "audit")
  <2>1. GoesOn(c, f) /\ req'[c].pc = "audit"
    BY <1>1, <1>4, AwaitGoesOn DEF Location
  <2>2. Comes(req[c])' /\ Effected(req[c])' /\ Noted(c)' /\ Logged(c)' /\ Listed(c)'
    BY <2>1, <1>0, <1>1, <1>2
       DEF GoesOn, Comes, Effected, Noted, Logged, Listed, At, Changing
  <2> QED BY <2>1, <2>2, <1>0, ReadTurns, Continues
<1>5. CASE f.arg \notin records /\ f.kind = "api_create_user" /\ Await(c, g, "audit")
  <2>1. /\ g \in Frame /\ g.kind = f.kind /\ g.arg = f.arg /\ g.body = f.body
        /\ g.row = NoSwitch /\ g.done = f.done
    <3>1. NoSwitch \in Reading
      BY DEF Reading
    <3> QED BY <3>1, <1>1 DEF Frame
  <2> HIDE DEF g
  <2>2. GoesOn(c, g) /\ req'[c].pc = "audit"
    BY <2>1, <1>5, AwaitGoesOn DEF Location
  <2>3. Comes(req[c])' /\ Effected(req[c])' /\ Noted(c)' /\ Logged(c)' /\ Listed(c)'
    BY <2>1, <2>2, <1>1, <1>3, <1>5
       DEF GoesOn, Comes, Effected, Noted, Logged, Listed, At, Changing
  <2> QED BY <2>1, <2>2, <2>3, <1>0, ReadTurns, Continues
<1>6. CASE f.arg \notin records /\ f.kind = "api_create_alert_rule" /\ Answer(c, f, 500)
  <2>1. GoesOn(c, f) /\ req'[c].pc = "answered" /\ req'[c].code = 500
    BY <1>1, <1>6, AnswerGoesOn DEF Code
  <2>2. c \in absent'
    BY <2>1, <1>3, <1>6
  <2>3. Closed(c)'
    BY <2>1, <2>2, <1>1, <1>6 DEF Closed, Explained, Audited, Started, Answered, GoesOn
  <2> QED BY <2>1, <2>3, <1>0, ReadTurns, Answers
<1> QED BY <1>0, <1>4, <1>5, <1>6

LEMMA DeleteRecordInv == ASSUME IInv, NEW c \in Client, DeleteRecord(c), Watch PROVE IInv'
<1> DEFINE f == Done(c)
<1>0. /\ req[c].kind \in {"api_delete_user", "api_delete_alert_rule"} /\ req[c].pc = "begin"
      /\ records' = records \ {req[c].arg}
      /\ UNCHANGED <<switches, sequence, isl, backups, audit>>
      /\ IF req[c].arg \in records THEN Await(c, f, "audit") ELSE Answer(c, req[c], 404)
  BY DEF DeleteRecord, At
<1>1. /\ req[c] \in Frame /\ req[c].kind \in Kind /\ req[c].row = NULL
      /\ req[c].arg \in User \cup RuleId /\ Argued(req[c], sequence'.switches)
      /\ req[c].done = FALSE /\ c \notin audit' /\ ~Answered(c)
  BY <1>0, InHand DEF Frame, Argued, Effected, Logged, At, Answered
<1>2. /\ f \in Frame /\ f.kind = req[c].kind /\ f.arg = req[c].arg
      /\ f.row = req[c].row /\ f.done = TRUE
  BY <1>1 DEF Frame, Done
<1> HIDE DEF f
<1>3. Tables' /\ TablesMove
  <2>1. sequence.switches <= sequence'.switches
    BY <1>0, RequestsAssumption DEF IInv, Tables, RequestsAssumption
  <2> QED BY <2>1, <1>0, <1>1 DEF IInv, Tables, TablesMove, Exists
<1>4. ASSUME NEW g, GoesOn(c, g), g.kind = req[c].kind, g.arg = req[c].arg
      PROVE  Turns(c, g)
  BY <1>0, <1>1, <1>3, <1>4 DEF Turns, Argued, OfSwitch
<1>5. CASE req[c].arg \in records
  <2>1. GoesOn(c, f) /\ req'[c].pc = "audit"
    BY <1>0, <1>2, <1>5, AwaitGoesOn DEF Location
  <2>2. Comes(req[c])' /\ Effected(req[c])' /\ Noted(c)' /\ Logged(c)' /\ Listed(c)'
    BY <2>1, <1>0, <1>1, <1>2, RequestsAssumption
       DEF GoesOn, Comes, Effected, Noted, Logged, Listed, At, Changing, RequestsAssumption
  <2> QED BY <2>1, <2>2, <1>2, <1>4, Continues
<1>6. CASE req[c].arg \notin records
  <2>1. GoesOn(c, req[c]) /\ req'[c].pc = "answered" /\ req'[c].code = 404
    BY <1>0, <1>1, <1>6, AnswerGoesOn DEF Code
  <2>2. Missing(c)'
    BY <2>1, <1>0, <1>1 DEF Missing, GoesOn, OfSwitch
  <2>3. Closed(c)'
    BY <2>1, <2>2, <1>0, <1>1, Watched
       DEF Closed, Explained, Audited, Started, Answered, GoesOn
  <2> QED BY <2>1, <2>3, <1>4, Answers
<1> QED BY <1>5, <1>6

LEMMA StartScriptInv == ASSUME IInv, NEW c \in Client, StartScript(c), Watch PROVE IInv'
<1> DEFINE f == req[c]
<1>0. /\ f.kind = "api_upgrade_apply" /\ f.pc = "script" /\ UNCHANGED tables /\ UNCHANGED audit
      /\ Respond(c, f) \/ Await(c, f, "wait")
  BY DEF StartScript, At
<1>1. f \in Frame /\ Noted(c) /\ c \in audit' /\ ~Answered(c)
  BY <1>0, InHand DEF Logged, At, Answered
<1>2. c \in absent /\ req'[c].pc \in {"wait", "answered"} => c \in absent'
  BY Watched
<1>3. CASE Respond(c, f)
  <2>1. /\ GoesOn(c, f) /\ req'[c].pc = "answered"
        /\ req'[c].code = IF f.row = NoSwitch THEN 500 ELSE 200
    BY <1>1, <1>3, RespondGoesOn
  <2>2. Closed(c)'
    BY <2>1, <1>0, <1>1, <1>2
       DEF Closed, Explained, Audited, Started, Answered, GoesOn, Changing, Noted
  <2> QED BY <2>1, <2>2, <1>0, ReadTurns, Answers
<1>4. CASE Await(c, f, "wait")
  <2>1. GoesOn(c, f) /\ req'[c].pc = "wait"
    BY <1>1, <1>4, AwaitGoesOn DEF Location
  <2>2. Comes(req[c])' /\ Effected(req[c])' /\ Noted(c)' /\ Logged(c)' /\ Listed(c)'
    BY <2>1, <1>0, <1>1, <1>2 DEF GoesOn, Comes, Effected, Noted, Logged, Listed, At
  <2> QED BY <2>1, <2>2, <1>0, ReadTurns, Continues
<1> QED BY <1>0, <1>3, <1>4

LEMMA ScriptReportedInv == ASSUME IInv, NEW c \in Client, ScriptReported(c), Watch PROVE IInv'
<1> DEFINE f == [req[c] EXCEPT !.done = script[c] = "applied"]
<1>0. /\ req[c].kind = "api_upgrade_apply" /\ req[c].pc = "wait"
      /\ UNCHANGED tables /\ UNCHANGED audit /\ Respond(c, f)
  BY DEF ScriptReported, At
<1>1. /\ req[c] \in Frame /\ req[c].kind \in Kind /\ Noted(c) /\ ~Answered(c)
      /\ Argued(req[c], sequence'.switches)
  BY <1>0, InHand DEF Logged, At, Answered, tables
<1>2. /\ f \in Frame /\ f.kind = req[c].kind /\ f.arg = req[c].arg /\ f.body = req[c].body
      /\ f.row = req[c].row
  BY <1>1 DEF Frame
<1> HIDE DEF f
<1>3. /\ GoesOn(c, f) /\ req'[c].pc = "answered"
      /\ req'[c].code = IF f.row = NoSwitch THEN 500 ELSE 200
  BY <1>0, <1>2, RespondGoesOn
<1>4. Turns(c, f)
  <2>1. Argued(f, sequence'.switches)
    BY <1>0, <1>1, <1>2 DEF Argued
  <2> QED BY <2>1, <1>0, <1>1, <1>2, <1>3, TablesStay DEF Turns
<1>5. c \in absent => c \in absent'
  BY <1>3, Watched
<1>6. Closed(c)'
  BY <1>0, <1>1, <1>2, <1>3, <1>5
     DEF Closed, Explained, Audited, Started, Answered, GoesOn, Changing, Noted
<1> QED BY <1>3, <1>4, <1>6, Answers

LEMMA SendInv == ASSUME IInv, NEW c \in Client, Send(c), Watch PROVE IInv'
<1>1. PICK q \in Query :
          Await(c, [NoRequest EXCEPT !.kind = q.kind, !.arg = q.arg, !.body = q.body], "begin")
  BY DEF Send
<1> DEFINE f == [NoRequest EXCEPT !.kind = q.kind, !.arg = q.arg, !.body = q.body]
<1>2. UNCHANGED tables /\ audit' = audit \ {c}
  BY DEF Send
<1>3. /\ q.kind \in Kind /\ q.arg \in Argument /\ q.body \in Content
      /\ q.kind \in OfSwitch => q.arg \in SwitchId
      /\ q.kind = "api_create_switch" => q.arg = NULL /\ q.body \in Creates
      /\ q.kind = "api_update_switch" => q.body \in Updates
      /\ q.kind \in {"api_create_user", "api_delete_user"} => q.arg \in User
      /\ q.kind = "api_delete_alert_rule" => q.arg \in RuleId
  <2>1. CASE q \in [kind : OfSwitch \ {"api_update_switch"}, arg : Asked, body : {NULL}]
    BY <2>1, RequestsAssumption DEF OfSwitch, Kind, Argument, Content, RequestsAssumption
  <2>2. CASE q \in [kind : {"api_update_switch"}, arg : Asked, body : Updates]
    BY <2>2, RequestsAssumption DEF OfSwitch, Kind, Argument, Content, RequestsAssumption
  <2>3. CASE q \in [kind : {"api_create_switch"}, arg : {NULL}, body : Creates]
    BY <2>3 DEF OfSwitch, Kind, Changing, Argument, Content
  <2>4. CASE q \in [kind : {"api_create_user"}, arg : User, body : Role]
    BY <2>4 DEF OfSwitch, Kind, Changing, Argument, Content
  <2>5. CASE q \in [kind : {"api_delete_user"}, arg : User, body : {NULL}]
    BY <2>5 DEF OfSwitch, Kind, Changing, Argument, Content
  <2>6. CASE q \in [kind : {"api_create_alert_rule", "api_topology", "api_upgrade_apply"},
                    arg : {NULL}, body : {NULL}]
    BY <2>6 DEF OfSwitch, Kind, Changing, Argument, Content
  <2>7. CASE q \in [kind : {"api_delete_alert_rule"}, arg : Asked \cap RuleId, body : {NULL}]
    BY <2>7 DEF OfSwitch, Kind, Changing, Argument, Content
  <2> QED BY <2>1, <2>2, <2>3, <2>4, <2>5, <2>6, <2>7 DEF Query
<1>4. /\ f.kind = q.kind /\ f.arg = q.arg /\ f.body = q.body /\ f.row = NULL /\ f.done = FALSE
      /\ f.pc = "idle"
  BY DEF NoRequest
<1>5. f \in Frame
  <2>1. NULL \in Reading /\ 0 \in Code /\ "idle" \in Location
    BY DEF Reading, Code, Location
  <2> QED BY <2>1, <1>3 DEF Frame, NoRequest
<1> HIDE DEF f
<1>6. GoesOn(c, f) /\ req'[c].pc = "begin"
  BY <1>1, <1>5, AwaitGoesOn DEF f, Location
<1>7. Turns(c, f)
  <2>1. Argued(f, sequence'.switches)
    BY <1>3, <1>4 DEF Argued
  <2> QED BY <2>1, <1>2, <1>3, <1>4, <1>6, TablesStay DEF Turns
<1>8. "none" \notin Kind
  BY DEF Kind, OfSwitch, Changing
<1>9. Comes(req[c])' /\ Effected(req[c])' /\ Noted(c)' /\ Logged(c)' /\ Listed(c)'
  BY <1>2, <1>3, <1>4, <1>6, <1>8, RequestsAssumption
     DEF GoesOn, Comes, Effected, Noted, Logged, Listed, At, RequestsAssumption
<1> QED BY <1>6, <1>7, <1>9, Continues

\* The script of an upgrade goes on by itself.
LEMMA ScriptExitsInv == ASSUME IInv, NEW c \in Client, ScriptExits(c), Watch PROVE IInv'
<1>1. UNCHANGED tables /\ UNCHANGED audit /\ UNCHANGED req
  BY DEF ScriptExits
<1>2. Tables' /\ TablesMove
  BY <1>1, TablesStay
<1>3. \A d \in Client : Good(d)'
  BY <1>1, <1>2, Kept
<1> QED BY <1>1, <1>2, <1>3 DEF IInv, Apart
-----------------------------------------------------------------------------
(* A start of the process. *)

\* A set of finite sets has a least element.
LEMMA FinMin ==
    ASSUME NEW S, NEW B \in SUBSET FiniteSubsetsOf(S), B # {}
    PROVE  \E U \in B : \A V \in B : ~(V \subseteq U /\ V # U)
<1>1. \E U \in B : \A V \in B : ~(<<V, U>> \in StrictSubsetOrdering(S))
  BY FS_StrictSubsetOrderingWellFounded, WFMin
<1>2. B \subseteq SUBSET S
  BY DEF FiniteSubsetsOf
<1> QED BY <1>1, <1>2 DEF StrictSubsetOrdering

LEMMA NatMin == ASSUME NEW T \in SUBSET Nat, T # {} PROVE \E m \in T : \A n \in T : m <= n
<1> DEFINE Below(n) == {k \in T : k <= n}
           B == {Below(n) : n \in T}
<1>1. B \in SUBSET FiniteSubsetsOf(T)
  <2>1. ASSUME NEW n \in T
        PROVE  IsFiniteSet(Below(n))
    <3>1. Below(n) \in SUBSET Nat /\ n \in Nat /\ \A s \in Below(n) : s <= n
      OBVIOUS
    <3> QED BY <3>1, FS_BoundedSetOfNaturals
  <2> QED BY <2>1 DEF FiniteSubsetsOf
<1>2. B # {}
  OBVIOUS
<1>3. \A n \in T : Below(n) \in B
  OBVIOUS
<1>4. \A U \in B : \E n \in T : U = Below(n)
  OBVIOUS
<1>5. \A m, n \in T : n < m => Below(n) \subseteq Below(m) /\ Below(n) # Below(m)
  <2>1. ASSUME NEW m \in T, NEW n \in T, n < m
        PROVE  m \in Below(m) /\ m \notin Below(n) /\ Below(n) \subseteq Below(m)
    <3>1. m \in Nat /\ n \in Nat /\ \A k \in T : k \in Nat
      OBVIOUS
    <3>2. \A k \in T : k <= n => k <= m
      BY <2>1, <3>1
    <3>3. m \in Below(m) /\ m \notin Below(n)
      BY <2>1, <3>1
    <3> QED BY <3>2, <3>3
  <2> HIDE DEF Below
  <2> QED BY <2>1
<1> HIDE DEF B, Below
<1>6. PICK U \in B : \A V \in B : ~(V \subseteq U /\ V # U)
  BY <1>1, <1>2, FinMin
<1>7. PICK m \in T : U = Below(m)
  BY <1>4
<1>8. \A n \in T : ~(n < m)
  BY <1>3, <1>5, <1>6, <1>7
<1> QED BY <1>8

LEMMA MinOf == ASSUME NEW T \in SUBSET Nat, T # {} PROVE Min(T) \in T /\ \A n \in T : Min(T) <= n
BY NatMin DEF Min

\* The next in a group is one of the group.
LEMMA NextOf == ASSUME NEW T \in SUBSET Nat, NEW s \in T PROVE NextInGroup(T, s) \in T
<1> DEFINE after == {t \in T : t > s}
           those == IF after = {} THEN T ELSE after
<1>1. those \in SUBSET Nat /\ those # {} /\ those \subseteq T
  OBVIOUS
<1>2. Min(those) \in those
  BY <1>1, MinOf
<1> QED BY <1>1, <1>2 DEF NextInGroup

\* build_demo_isl() links switches to switches.
LEMMA BuiltAmong ==
    ASSUME NEW D \in SUBSET Nat, NEW region, DOMAIN region = D
    PROVE  build_demo_isl(region) \subseteq D \X D
<1>1. ASSUME NEW s \in D
      PROVE  NextInGroup(Group(region, s), s) \in D
  <2>1. Group(region, s) \in SUBSET D /\ s \in Group(region, s)
    BY DEF Group
  <2>2. NextInGroup(Group(region, s), s) \in Group(region, s)
    BY <2>1, NextOf
  <2> QED BY <2>1, <2>2
<1>2. ASSUME NEW l \in build_demo_isl(region)
      PROVE  l \in D \X D
  <2>1. PICK s \in D : l = <<s, NextInGroup(Group(region, s), s)>>
    BY <1>2 DEF build_demo_isl
  <2>2. NextInGroup(Group(region, s), s) \in D
    BY <1>1
  <2> QED BY <2>1, <2>2
<1> QED BY <1>2

LEMMA RebuiltAmong ==
    ASSUME NEW sw, NEW links, NEW l \in Rebuilt(sw, links)
    PROVE  \/ l \in links
           \/ /\ l \in SwitchId \X SwitchId
              /\ sw[l[1]] # NoSwitch /\ sw[l[2]] # NoSwitch
<1> DEFINE there == {s \in SwitchId : sw[s] # NoSwitch}
           region == [s \in there |-> sw[s].region]
<1>1. Rebuilt(sw, links) \in {build_demo_isl(region), links}
  BY DEF Rebuilt
<1>2. DOMAIN region = there /\ there \in SUBSET Nat
  BY RequestsAssumption DEF RequestsAssumption
<1> HIDE DEF region
<1>3. build_demo_isl(region) \subseteq there \X there
  BY <1>2, BuiltAmong
<1> QED BY <1>1, <1>3

LEMMA SeededRows ==
    ASSUME NEW n \in Nat
    PROVE  /\ Seeded(n) \in [SwitchId -> Row \cup {NoSwitch}]
           /\ \A s \in SwitchId : Seeded(n)[s] # NoSwitch => s <= n + Len(Demo)
<1>1. Len(Demo) \in Nat /\ DOMAIN Demo = 1..Len(Demo) /\ \A i \in DOMAIN Demo : Demo[i] \in Row
  BY RequestsAssumption DEF RequestsAssumption
<1>2. \A s \in SwitchId : s \in Nat
  BY RequestsAssumption DEF RequestsAssumption
<1>3. ASSUME NEW s \in SwitchId, s - n \in DOMAIN Demo
      PROVE  s <= n + Len(Demo)
  BY <1>1, <1>2, <1>3
<1> QED BY <1>1, <1>3 DEF Seeded

\* What lifespan() leaves in the tables, of what it found.
LEMMA StartedTables ==
    ASSUME NEW sw \in [SwitchId -> Row \cup {NoSwitch}], NEW links,
           NEW last \in SwitchId \cup {0},
           \A s \in SwitchId : sw[s] # NoSwitch => s <= last,
           \A l \in links : /\ l \in SwitchId \X SwitchId
                            /\ sw[l[1]] # NoSwitch /\ l[2] <= last
    PROVE  /\ Rebuilt(sw, links) \subseteq SwitchId \X SwitchId
           /\ \A l \in Rebuilt(sw, links) : sw[l[1]] # NoSwitch /\ l[2] <= last
<1>1. ASSUME NEW l \in Rebuilt(sw, links)
      PROVE  l \in SwitchId \X SwitchId /\ sw[l[1]] # NoSwitch /\ l[2] <= last
  BY RebuiltAmong
<1> QED BY <1>1

LEMMA Idle ==
    /\ NoRequest \in Frame /\ Comes(NoRequest) /\ Effected(NoRequest)
    /\ \A last : Argued(NoRequest, last)
<1>1. NoRequest \in Frame
  BY DEF NoRequest, Frame, Argument, Content, Location, Reading, Code
<1>2. /\ NoRequest.kind = "none" /\ NoRequest.pc = "idle" /\ NoRequest.row = NULL
      /\ NoRequest.done = FALSE
  BY DEF NoRequest
<1> QED BY <1>1, <1>2 DEF Comes, Argued, Effected, OfSwitch

LEMMA InitInv == Init => IInv
<1> SUFFICES ASSUME Init PROVE IInv
  OBVIOUS
<1>0. PICK n \in {0, Len(Demo)} :
          /\ switches = IF n = 0 THEN [s \in SwitchId |-> NoSwitch] ELSE Seeded(0)
          /\ sequence = [switches |-> n, alert_rules |-> 0]
  BY DEF Init
<1>1. /\ isl = Rebuilt(switches, {}) /\ backups = {} /\ records = {} /\ audit = {}
      /\ req = [c \in Client |-> NoRequest]
  BY DEF Init
<1>2. Len(Demo) \in SwitchId \cup {0} /\ Len(Demo) \in Nat
  BY RequestsAssumption DEF RequestsAssumption
<1>3. /\ switches \in [SwitchId -> Row \cup {NoSwitch}]
      /\ n \in SwitchId \cup {0} /\ n \in Nat
      /\ \A s \in SwitchId : switches[s] # NoSwitch => s <= n
  <2>1. CASE n = 0
    BY <1>0, <2>1
  <2>2. CASE n = Len(Demo) /\ n # 0
    BY <1>0, <1>2, <2>2, SeededRows
  <2> QED BY <2>1, <2>2
<1>4. /\ isl \subseteq SwitchId \X SwitchId
      /\ \A l \in isl : switches[l[1]] # NoSwitch /\ l[2] <= n
  BY <1>1, <1>3, StartedTables
<1>5. Tables
  BY <1>0, <1>1, <1>3, <1>4 DEF Tables, Exists
<1>6. NoRequest.pc = "idle" /\ NoRequest.kind = "none" /\ NoRequest.row = NULL
      /\ NoRequest.done = FALSE
  BY DEF NoRequest
<1>7. ASSUME NEW c \in Client
      PROVE  Good(c)
  <2>1. Staged(c)
    BY <1>1, Idle DEF Staged
  <2>2. Noted(c) /\ Logged(c) /\ Listed(c) /\ Closed(c)
    BY <1>1, <1>6, RequestsAssumption
       DEF Noted, Logged, Listed, Closed, Explained, Audited, Started, At, Answered,
           RequestsAssumption
  <2> QED BY <2>1, <2>2 DEF Good
<1>8. Apart
  BY <1>1, <1>6 DEF Apart
<1> QED BY <1>1, <1>5, <1>7, <1>8 DEF IInv

LEMMA RestartInv == ASSUME IInv, Restart PROVE IInv'
<1>1. /\ UNCHANGED backups /\ UNCHANGED records /\ audit' = {}
      /\ req' = [c \in Client |-> NoRequest] /\ isl' = Rebuilt(switches', isl)
  BY DEF Restart, Dies
<1>2. /\ sequence \in [switches : SwitchId \cup {0}, alert_rules : RuleId \cup {0}]
      /\ sequence.switches \in Nat /\ Len(Demo) \in Nat
  BY RequestsAssumption DEF IInv, Tables, RequestsAssumption
<1>3. /\ switches' \in [SwitchId -> Row \cup {NoSwitch}]
      /\ sequence' \in [switches : SwitchId \cup {0}, alert_rules : RuleId \cup {0}]
      /\ sequence'.alert_rules = sequence.alert_rules
      /\ sequence.switches <= sequence'.switches
      /\ \A s \in SwitchId : switches'[s] # NoSwitch => s <= sequence'.switches
      /\ \A s \in SwitchId : Exists(s) => switches'[s] = switches[s]
  <2>1. CASE \E s \in SwitchId : Exists(s)
    BY <2>1, <1>2 DEF Restart, IInv, Tables, Exists
  <2>2. CASE \A s \in SwitchId : ~Exists(s)
    <3>1. /\ sequence.switches + Len(Demo) \in SwitchId \cup {0}
          /\ switches' = Seeded(sequence.switches)
          /\ sequence' = [sequence EXCEPT !.switches = @ + Len(Demo)]
      BY <2>2 DEF Restart
    <3>2. /\ sequence' \in [switches : SwitchId \cup {0}, alert_rules : RuleId \cup {0}]
          /\ sequence'.switches = sequence.switches + Len(Demo)
          /\ sequence'.alert_rules = sequence.alert_rules
      BY <3>1, <1>2
    <3> QED BY <2>2, <3>1, <3>2, <1>2, SeededRows
  <2> QED BY <2>1, <2>2
<1>4. \A l \in isl : /\ l \in SwitchId \X SwitchId
                     /\ switches'[l[1]] # NoSwitch /\ l[2] <= sequence'.switches
  <2>1. \A l \in isl : /\ l \in SwitchId \X SwitchId
                       /\ Exists(l[1]) /\ l[2] <= sequence.switches
    BY DEF IInv, Tables
  <2>2. /\ \A s \in SwitchId : s \in Nat
        /\ sequence'.switches \in Nat
    BY <1>3, RequestsAssumption DEF RequestsAssumption
  <2> QED BY <2>1, <2>2, <1>2, <1>3 DEF Exists
<1>5. /\ isl' \subseteq SwitchId \X SwitchId
      /\ \A l \in isl' : switches'[l[1]] # NoSwitch /\ l[2] <= sequence'.switches
  <2>1. sequence'.switches \in SwitchId \cup {0}
    BY <1>3
  <2> QED BY <2>1, <1>1, <1>3, <1>4, StartedTables
<1>6. Tables'
  BY <1>1, <1>3, <1>5 DEF IInv, Tables, Exists
<1>7. NoRequest.pc = "idle" /\ NoRequest.kind = "none" /\ NoRequest.row = NULL
      /\ NoRequest.done = FALSE
  BY DEF NoRequest
<1>8. ASSUME NEW c \in Client
      PROVE  Good(c)'
  <2>1. Staged(c)'
    BY <1>1, Idle DEF Staged
  <2>2. Noted(c)' /\ Logged(c)' /\ Listed(c)' /\ Closed(c)'
    BY <1>1, <1>7, RequestsAssumption
       DEF Noted, Logged, Listed, Closed, Explained, Audited, Started, At, Answered,
           RequestsAssumption
  <2> QED BY <2>1, <2>2 DEF Good
<1>9. Apart'
  BY <1>1, <1>7 DEF Apart
<1> QED BY <1>1, <1>6, <1>8, <1>9 DEF IInv

LEMMA RestartUnseededInv == ASSUME IInv, RestartUnseeded PROVE IInv'
<1>1. /\ UNCHANGED <<switches, sequence, isl, backups, records>> /\ audit' = {}
      /\ req' = [c \in Client |-> NoRequest]
  BY DEF RestartUnseeded, Dies
<1>2. Tables'
  BY <1>1 DEF IInv, Tables, Exists
<1>3. NoRequest.pc = "idle" /\ NoRequest.kind = "none" /\ NoRequest.row = NULL
      /\ NoRequest.done = FALSE
  BY DEF NoRequest
<1>4. ASSUME NEW c \in Client
      PROVE  Good(c)'
  <2>1. Staged(c)'
    BY <1>1, Idle DEF Staged
  <2>2. Noted(c)' /\ Logged(c)' /\ Listed(c)' /\ Closed(c)'
    BY <1>1, <1>3, RequestsAssumption
       DEF Noted, Logged, Listed, Closed, Explained, Audited, Started, At, Answered,
           RequestsAssumption
  <2> QED BY <2>1, <2>2 DEF Good
<1>5. Apart'
  BY <1>1, <1>3 DEF Apart
<1> QED BY <1>1, <1>2, <1>4, <1>5 DEF IInv

LEMMA StepInv == ASSUME IInv, [Next]_vars PROVE IInv'
<1>1. CASE Restart
  BY <1>1, RestartInv
<1>2. ASSUME NEW c \in Client, Watch, Send(c) \/ Step(c) \/ ScriptExits(c)
      PROVE  IInv'
  BY <1>2, SendInv, ScriptExitsInv, GetInv, AddAuditInv, InsertSwitchInv, ReadSwitchInv,
     PollRaisesInv, PollReturnsInv, RereadInv, UpdateSwitchInv, SetGeoInv, GetExistingInv,
     DeleteSwitchInv, InsertBackupInv, ReadBackupInv, TopologyInv, InsertUserInv,
     InsertRuleInv, ReadInsertedInv, DeleteRecordInv, StartScriptInv, ScriptReportedInv
     DEF Step
<1>4. CASE RestartUnseeded
  BY <1>4, RestartUnseededInv
<1>3. CASE UNCHANGED vars
  BY <1>3
     DEF vars, tables, IInv, Tables, Good, Staged, Noted, Logged, Listed, Closed, Explained,
         Audited, Started, Apart, At, Answered, Exists
<1> QED BY <1>1, <1>2, <1>3, <1>4 DEF Next

\* What is known of every request in hand and of the tables, in every state.
THEOREM RequestsInv == Spec => []IInv
<1>1. IInv /\ [Next]_vars => IInv'
  BY StepInv
<1> QED BY InitInv, <1>1, PTL DEF Spec

\* Variables have the values that their types and keys allow.
THEOREM RequestsType == Spec => []TypeOK
<1>1. ASSUME IInv
      PROVE  TypeOK
  <2>1. \A c \in Client : req[c].pc \in Location /\ req[c].code \in Code
    BY <1>1 DEF IInv, Good, Staged, Frame
  <2> QED BY <1>1, <2>1 DEF IInv, Tables, TypeOK, Location, Code
<1> QED BY RequestsInv, <1>1, PTL

\* A request only fails for a reason, whatever the others do.
THEOREM RequestsExplained == Spec => []FailuresExplained
<1>1. IInv => FailuresExplained
  BY DEF IInv, Good, Closed, Explained, FailuresExplained
<1> QED BY RequestsInv, <1>1, PTL

\* The audit log tells the changes that took effect from those that did not, but for a
\* PUT that asks for nothing or whose switch was deleted meanwhile.
THEOREM RequestsAudit == Spec => []AuditTrail
<1>1. IInv => AuditTrail
  BY DEF IInv, Good, Closed, Audited, AuditTrail
<1> QED BY RequestsInv, <1>1, PTL

\* Creations that run at the same time each answer with a switch of their own.
THEOREM RequestsApart == Spec => []CreatedApart
<1>1. IInv => CreatedApart
  BY DEF IInv, Apart, CreatedApart
<1> QED BY RequestsInv, <1>1, PTL

\* The graph answered starts every edge at one of its nodes.
THEOREM RequestsEdges == Spec => []EdgesStartAtNodes
<1>1. IInv => EdgesStartAtNodes
  BY DEF IInv, Good, Closed, Started, EdgesStartAtNodes
<1> QED BY RequestsInv, <1>1, PTL

\* An id that was given and is free now stays free.
LEMMA IdsGivenOnce ==
    ASSUME IInv, [Next]_vars, NEW s \in SwitchId, s <= sequence.switches, ~Exists(s)
    PROVE  ~Exists(s)'
<1>1. s \in Nat /\ sequence.switches \in Nat /\ Len(Demo) \in Nat
      /\ DOMAIN Demo = 1..Len(Demo)
  BY RequestsAssumption DEF IInv, Tables, RequestsAssumption
<1>2. CASE UNCHANGED switches
  BY <1>2 DEF Exists
<1>3. CASE Restart /\ switches' = Seeded(sequence.switches)
  <2>1. s - sequence.switches \notin DOMAIN Demo
    BY <1>1
  <2> QED BY <1>3, <2>1 DEF Seeded, Exists
<1>4. ASSUME NEW c \in Client, InsertSwitch(c)
      PROVE  ~Exists(s)'
  <2>1. s # NextSwitch
    BY <1>1 DEF NextSwitch
  <2>2. UNCHANGED switches \/ switches' = [switches EXCEPT ![NextSwitch] = req[c].body]
    BY <1>4 DEF InsertSwitch
  <2> QED BY <2>1, <2>2 DEF Exists, IInv, Tables
<1>5. ASSUME NEW c \in Client, UpdateSwitch(c)
      PROVE  ~Exists(s)'
  <2>1. \/ UNCHANGED switches
        \/ Exists(req[c].arg) /\ \E row : switches' = [switches EXCEPT ![req[c].arg] = row]
    BY <1>5 DEF UpdateSwitch
  <2> QED BY <2>1 DEF Exists, IInv, Tables
<1>6. ASSUME NEW c \in Client, DeleteSwitch(c)
      PROVE  ~Exists(s)'
  <2>1. switches' = [switches EXCEPT ![req[c].arg] = NoSwitch]
    BY <1>6 DEF DeleteSwitch, Cascade
  <2> QED BY <2>1 DEF Exists, IInv, Tables
<1>7. /\ Restart => UNCHANGED switches \/ switches' = Seeded(sequence.switches)
      /\ RestartUnseeded => UNCHANGED switches
  BY DEF Restart, RestartUnseeded
<1>8. ASSUME NEW c \in Client, Send(c) \/ Step(c) \/ ScriptExits(c)
      PROVE  \/ UNCHANGED switches
             \/ InsertSwitch(c) \/ UpdateSwitch(c) \/ DeleteSwitch(c)
  BY <1>8
     DEF Send, Step, ScriptExits, Get, AddAudit, ReadSwitch, PollRaises, PollReturns, Reread,
         SetGeo, GetExisting, InsertBackup, ReadBackup, api_topology, InsertUser, InsertRule,
         ReadInserted, DeleteRecord, StartScript, ScriptReported, tables
<1> QED BY <1>2, <1>3, <1>4, <1>5, <1>6, <1>7, <1>8 DEF Next, vars, tables

\* A new switch never inherits the links to one that was deleted.
THEOREM RequestsLinks == Spec => NothingInherited
<1>1. ASSUME IInv, [Next]_vars
      PROVE  [\A l \in isl \cap isl' : ~Exists(l[2]) => ~Exists(l[2])']_vars
  <2>1. ASSUME NEW l \in isl \cap isl', ~Exists(l[2])
        PROVE  ~Exists(l[2])'
    <3>1. l[2] \in SwitchId /\ l[2] <= sequence.switches
      BY <1>1 DEF IInv, Tables
    <3> DEFINE s == l[2]
    <3>2. s \in SwitchId /\ s <= sequence.switches /\ ~Exists(s)
      BY <3>1, <2>1
    <3> QED BY <1>1, <3>2, IdsGivenOnce
  <2> QED BY <2>1
<1> QED BY RequestsInv, <1>1, PTL DEF Spec, NothingInherited

-----------------------------------------------------------------------------
(* The rings of a rebuilt topology. *)

\* What NextInGroup answers: the next higher id, or from the highest the lowest.
LEMMA NextIs ==
    ASSUME NEW T \in SUBSET Nat, NEW s \in T, NEW n, n = NextInGroup(T, s)
    PROVE  /\ n \in T
           /\ \/ n > s /\ \A t \in T : t > s => n <= t
              \/ (\A t \in T : t <= s) /\ (\A t \in T : n <= t)
<1> DEFINE after == {t \in T : t > s}
<1>1. CASE after = {}
  <2>1. n = Min(T)
    BY <1>1 DEF NextInGroup
  <2>2. n \in T /\ \A t \in T : n <= t
    BY <2>1, MinOf
  <2> QED BY <2>2, <1>1
<1>2. CASE after # {}
  <2>1. n = Min(after)
    BY <1>2 DEF NextInGroup
  <2>2. n \in after /\ \A t \in after : n <= t
    BY <2>1, <1>2, MinOf
  <2> QED BY <2>2
<1> QED BY <1>1, <1>2

LEMMA NextIsOther ==
    ASSUME NEW T \in SUBSET Nat, NEW s \in T, NextInGroup(T, s) = s
    PROVE  T = {s}
<1>1. \A t \in T : t <= s /\ s <= t
  BY NextIs
<1>2. \A t \in T : t = s
  BY <1>1
<1> QED BY <1>2

LEMMA NextIsOneToOne ==
    ASSUME NEW T \in SUBSET Nat, NEW s \in T, NEW t \in T,
           NextInGroup(T, s) = NextInGroup(T, t)
    PROVE  s = t
<1> DEFINE n == NextInGroup(T, s)
<1>1. /\ n \in T
      /\ \/ n > s /\ \A u \in T : u > s => n <= u
         \/ (\A u \in T : u <= s) /\ (\A u \in T : n <= u)
  BY NextIs
<1>2. \/ n > t /\ \A u \in T : u > t => n <= u
      \/ (\A u \in T : u <= t) /\ (\A u \in T : n <= u)
  BY NextIs
<1> HIDE DEF n
<1> QED BY <1>1, <1>2

\* Two switches that are each the other's next are all there is.
LEMMA NoWayBack ==
    ASSUME NEW T \in SUBSET Nat, NEW s \in T, NEW u \in T,
           NextInGroup(T, s) = u, NextInGroup(T, u) = s
    PROVE  T = {s, u}
<1>1. \/ u > s /\ \A t \in T : t > s => u <= t
      \/ (\A t \in T : t <= s) /\ (\A t \in T : u <= t)
  BY NextIs
<1>2. \/ s > u /\ \A t \in T : t > u => s <= t
      \/ (\A t \in T : t <= u) /\ (\A t \in T : s <= t)
  BY NextIs
<1>3. ASSUME NEW t \in T, t # s, t # u
      PROVE  FALSE
  BY <1>1, <1>2, <1>3
<1> QED BY <1>3

LEMMA MaxOf ==
    ASSUME NEW T \in SUBSET Nat, T # {}, NEW n \in Nat, \A t \in T : t <= n
    PROVE  \E m \in T : \A t \in T : t <= m
<1> DEFINE R == {n - t : t \in T}
<1>0. \A t \in T : t \in Nat /\ n - t \in Nat
  OBVIOUS
<1>1. R \in SUBSET Nat /\ R # {}
  BY <1>0
<1>2. PICK r \in R : \A q \in R : r <= q
  <2> HIDE DEF R
  <2> QED BY <1>1, NatMin
<1>3. PICK m \in T : r = n - m
  BY <1>2
<1>4. \A t \in T : n - m <= n - t
  BY <1>2, <1>3
<1>5. \A t \in T : t <= m
  BY <1>0, <1>4
<1> QED BY <1>5

\* Every switch is the next of one.
LEMMA NextIsOnto ==
    ASSUME NEW T \in SUBSET Nat, NEW s \in T, NEW last \in Nat, \A t \in T : t <= last
    PROVE  \E p \in T : NextInGroup(T, p) = s
<1> DEFINE before == {t \in T : t < s}
<1>1. CASE before # {}
  <2>1. PICK p \in before : \A t \in before : t <= p
    BY <1>1, MaxOf
  <2> DEFINE n == NextInGroup(T, p)
  <2>2. /\ n \in T
        /\ \/ n > p /\ \A t \in T : t > p => n <= t
           \/ (\A t \in T : t <= p) /\ (\A t \in T : n <= t)
    BY NextIs
  <2> HIDE DEF n
  <2>3. n = s
    BY <2>1, <2>2
  <2> QED BY <2>1, <2>3 DEF n
<1>2. CASE before = {}
  <2>1. PICK p \in T : \A t \in T : t <= p
    BY MaxOf
  <2> DEFINE n == NextInGroup(T, p)
  <2>2. /\ n \in T
        /\ \/ n > p /\ \A t \in T : t > p => n <= t
           \/ (\A t \in T : t <= p) /\ (\A t \in T : n <= t)
    BY NextIs
  <2> HIDE DEF n
  <2>3. n = s
    BY <1>2, <2>1, <2>2
  <2> QED BY <2>1, <2>3 DEF n
<1> QED BY <1>1, <1>2

LEMMA PairCount == ASSUME NEW a, NEW b, a # b PROVE Cardinality({a, b}) = 2
<1>1. IsFiniteSet({a}) /\ Cardinality({a}) = 1
  BY FS_Singleton
<1>2. {a, b} = {a} \cup {b} /\ b \notin {a}
  OBVIOUS
<1>3. Cardinality({a} \cup {b}) = 1 + 1
  BY <1>1, <1>2, FS_AddElement
<1> QED BY <1>2, <1>3

LEMMA PairOf ==
    ASSUME NEW T, IsFiniteSet(T), Cardinality(T) = 2, NEW a \in T, NEW b \in T, a # b
    PROVE  T = {a, b}
<1>1. {a, b} \in SUBSET T /\ Cardinality({a, b}) = Cardinality(T)
  BY PairCount
<1> QED BY <1>1, FS_Subset

\* The links of build_demo_isl(), and the graph drawn from them, for the switches D.
LEMMA Rings ==
    ASSUME NEW D \in SUBSET Nat, NEW last \in Nat, \A s \in D : s <= last,
           NEW region, DOMAIN region = D
    PROVE  LET edges == graph(D, build_demo_isl(region)).edges
               G(s) == Group(region, s)
           IN  /\ \A e \in edges : e[1] \in D /\ e[2] \in G(e[1]) \ {e[1]}
               /\ \A s \in D :
                      /\ Cardinality(G(s)) = 1 => Degree(edges, s) = 0
                      /\ Cardinality(G(s)) = 2 => Degree(edges, s) = 1
                      /\ Cardinality(G(s)) \notin {1, 2} => Degree(edges, s) = 2
<1> DEFINE links == build_demo_isl(region)
           G(s) == Group(region, s)
           N(s) == NextInGroup(G(s), s)
           Linked(s) == \/ Cardinality(G(s)) > 2
                        \/ Cardinality(G(s)) = 2 /\ s = Min(G(s))
<1>1. ASSUME NEW s \in D
      PROVE  /\ s \in G(s) /\ G(s) \in SUBSET D /\ G(s) \in SUBSET Nat
             /\ IsFiniteSet(G(s)) /\ Cardinality(G(s)) \in Nat \ {0}
             /\ N(s) \in G(s) /\ \A t \in G(s) : G(t) = G(s)
  <2>1. s \in G(s) /\ G(s) \in SUBSET D /\ \A t \in G(s) : G(t) = G(s)
    BY DEF Group
  <2> HIDE DEF G
  <2>2. G(s) \in SUBSET Nat /\ \A t \in G(s) : t <= last
    BY <2>1
  <2>3. IsFiniteSet(G(s))
    BY <2>2, FS_BoundedSetOfNaturals
  <2>4. Cardinality(G(s)) \in Nat /\ Cardinality(G(s)) # 0
    BY <2>1, <2>3, FS_CardinalityType, FS_EmptySet
  <2>5. N(s) \in G(s)
    BY <2>1, <2>2, NextOf
  <2> QED BY <2>1, <2>2, <2>3, <2>4, <2>5
<1>2. links = {<<s, N(s)>> : s \in {t \in D : Linked(t)}}
  BY DEF build_demo_isl
<1>3. ASSUME NEW s \in D, Cardinality(G(s)) # 1
      PROVE  N(s) # s
  <2>1. N(s) = s => G(s) = {s}
    <3> HIDE DEF G
    <3> QED BY <1>1, NextIsOther
  <2> QED BY <2>1, <1>3, FS_Singleton
<1>4. ASSUME NEW s \in D, Linked(s)
      PROVE  Cardinality(G(s)) # 1 /\ N(s) \in G(s) /\ N(s) # s /\ N(s) \in D
  <2>1. Cardinality(G(s)) \in Nat /\ G(s) \in SUBSET D /\ N(s) \in G(s)
    BY <1>1
  <2>2. Cardinality(G(s)) # 1
    BY <2>1, <1>4
  <2> QED BY <2>1, <2>2, <1>3
<1>5. ASSUME NEW s \in D, Linked(s), NEW u \in D, Linked(u), u = N(s), N(u) = s
      PROVE  FALSE
  <2>1. u \in G(s) /\ G(u) = G(s) /\ u # s /\ Cardinality(G(s)) \in Nat
    BY <1>1, <1>4, <1>5
  <2>2. G(s) = {s, u}
    <3> HIDE DEF G
    <3> QED BY <1>1, <2>1, <1>5, NoWayBack
  <2>3. Cardinality(G(s)) = 2
    BY <2>1, <2>2, PairCount
  <2>4. s = Min(G(s)) /\ u = Min(G(u))
    BY <2>1, <2>3, <1>5
  <2> QED BY <2>1, <2>4
<1> HIDE DEF links, G, N, Linked
<1>6. \A l \in links : <<l[2], l[1]>> \notin links
  <2>1. ASSUME NEW l \in links, <<l[2], l[1]>> \in links
        PROVE  FALSE
    <3>1. PICK s \in D : Linked(s) /\ l = <<s, N(s)>>
      BY <1>2
    <3>2. PICK u \in D : Linked(u) /\ <<l[2], l[1]>> = <<u, N(u)>>
      BY <1>2, <2>1
    <3>3. u = N(s) /\ N(u) = s
      BY <3>1, <3>2
    <3> QED BY <3>1, <3>2, <3>3, <1>5
  <2> QED BY <2>1
<1>7. graph(D, links).edges = links
  <2>1. graph(D, links).edges = {l \in links : <<l[2], l[1]>> \in links => l[1] <= l[2]}
    BY DEF graph
  <2> QED BY <2>1, <1>6
<1>8. \A e \in links : e[1] \in D /\ e[2] \in G(e[1]) \ {e[1]}
  <2>1. ASSUME NEW e \in links
        PROVE  e[1] \in D /\ e[2] \in G(e[1]) \ {e[1]}
    <3>1. PICK s \in D : Linked(s) /\ e = <<s, N(s)>>
      BY <1>2
    <3>2. e[1] = s /\ e[2] = N(s)
      BY <3>1
    <3> QED BY <3>1, <3>2, <1>4
  <2> QED BY <2>1
<1>9. ASSUME NEW s \in D
      PROVE  /\ Cardinality(G(s)) = 1 => Degree(links, s) = 0
             /\ Cardinality(G(s)) = 2 => Degree(links, s) = 1
             /\ Cardinality(G(s)) \notin {1, 2} => Degree(links, s) = 2
  <2> DEFINE at == {e \in links : s \in {e[1], e[2]}}
  <2>1. Degree(links, s) = Cardinality(at)
    BY DEF Degree
  <2>2. ASSUME NEW e \in at
        PROVE  \E t \in G(s) : t \in D /\ Linked(t) /\ e = <<t, N(t)>> /\ (t = s \/ N(t) = s)
    <3>1. PICK t \in D : Linked(t) /\ e = <<t, N(t)>>
      BY <1>2
    <3>2. t = s \/ N(t) = s
      BY <3>1
    <3>3. t \in G(t) /\ N(t) \in G(t) /\ \A u \in G(t) : G(u) = G(t)
      BY <1>1
    <3>4. t \in G(s)
      BY <3>2, <3>3
    <3> QED BY <3>1, <3>2, <3>4
  <2>3. \A t \in D : Linked(t) /\ (t = s \/ N(t) = s) => <<t, N(t)>> \in at
    BY <1>2
  <2> HIDE DEF at
  <2>4. \A t \in G(s) : t \in D /\ G(t) = G(s)
    BY <1>1
  <2>5. CASE Cardinality(G(s)) = 1
    <3>1. \A t \in G(s) : ~Linked(t)
      BY <2>4, <2>5, <1>4
    <3>2. at = {}
      BY <3>1, <2>2
    <3> QED BY <3>2, <2>1, <2>5, FS_EmptySet
  <2>6. CASE Cardinality(G(s)) = 2
    <3> DEFINE m == Min(G(s))
    <3>1. m \in G(s)
      BY <1>1, MinOf
    <3>2. m \in D /\ G(m) = G(s) /\ Linked(m)
      BY <3>1, <2>4, <2>6 DEF Linked
    <3>3. N(m) \in G(s) /\ N(m) # m
      BY <3>2, <1>4
    <3>4. G(s) = {m, N(m)}
      <4> HIDE DEF m
      <4> QED BY <3>1, <3>3, <2>6, <1>1, PairOf
    <3>5. \A t \in G(s) : Linked(t) => t = m
      BY <2>4, <2>6 DEF Linked
    <3> HIDE DEF m
    <3>6. <<m, N(m)>> \in at
      BY <3>2, <3>4, <2>3, <1>1
    <3>7. at = {<<m, N(m)>>}
      BY <3>5, <3>6, <2>2
    <3>8. Cardinality(at) = 1
      BY <3>7, FS_Singleton
    <3> QED BY <3>8, <2>1, <2>6
  <2>7. CASE Cardinality(G(s)) \notin {1, 2}
    <3>1. \A t \in G(s) : Linked(t)
      <4>1. Cardinality(G(s)) > 2
        BY <2>7, <1>1
      <4> QED BY <4>1, <2>4 DEF Linked
    <3>2. PICK p \in G(s) : N(p) = s
      <4>1. G(s) \in SUBSET Nat /\ s \in G(s) /\ \A t \in G(s) : t <= last
        BY <1>1, <2>4
      <4>2. PICK p \in G(s) : NextInGroup(G(s), p) = s
        BY <4>1, NextIsOnto
      <4> QED BY <4>2, <2>4 DEF N
    <3>3. s \in G(s) /\ Linked(s) /\ p \in D /\ Linked(p) /\ p # s
      BY <3>1, <3>2, <2>4, <1>1, <1>4
    <3>4. <<s, N(s)>> \in at /\ <<p, s>> \in at
      BY <3>2, <3>3, <2>3
    <3>5. \A t \in G(s) : N(t) = s => t = p
      <4>1. ASSUME NEW t \in G(s), N(t) = s
            PROVE  t = p
        <5>1. NextInGroup(G(s), t) = NextInGroup(G(s), p)
          BY <4>1, <3>2, <2>4 DEF N
        <5> QED BY <5>1, <1>1, NextIsOneToOne
      <4> QED BY <4>1
    <3>6. at = {<<s, N(s)>>, <<p, s>>}
      BY <3>2, <3>4, <3>5, <2>2
    <3>7. <<s, N(s)>> # <<p, s>>
      BY <3>3
    <3> QED BY <3>6, <3>7, <2>1, <2>7, PairCount
  <2> QED BY <2>5, <2>6, <2>7
<1> QED BY <1>7, <1>8, <1>9 DEF links, G

\* After every start with SEED_DEMO, if one switch is a demo switch, each region is one ring.
THEOREM RequestsRings == Spec => RebuiltAsRings
<1>1. ASSUME IInv', Restart
      PROVE  IsRings'
  <2> DEFINE D == {s \in SwitchId : switches'[s] # NoSwitch}
             region == [s \in D |-> switches'[s].region]
             edges == graph(D, isl').edges
             G(s) == {t \in D : switches'[t].region = switches'[s].region}
  <2> SUFFICES ASSUME \E s \in D : switches'[s].method = DemoMethod
               PROVE  /\ \A e \in edges : e[2] \in G(e[1]) \ {e[1]}
                      /\ \A s \in D :
                             Degree(edges, s) = CASE Cardinality(G(s)) = 1 -> 0
                                                  [] Cardinality(G(s)) = 2 -> 1
                                                  [] OTHER                 -> 2
    BY DEF IsRings, Exists
  <2>1. isl' = build_demo_isl(region)
    BY <1>1 DEF Restart, Rebuilt
  <2>2. /\ D \in SUBSET Nat /\ DOMAIN region = D /\ sequence'.switches \in Nat
        /\ \A s \in D : s <= sequence'.switches
    BY <1>1, RequestsAssumption DEF IInv, Tables, Exists, RequestsAssumption
  <2>3. \A s \in D : Group(region, s) = G(s)
    BY DEF Group
  <2>4. /\ \A e \in edges : e[1] \in D /\ e[2] \in Group(region, e[1]) \ {e[1]}
        /\ \A s \in D :
               /\ Cardinality(Group(region, s)) = 1 => Degree(edges, s) = 0
               /\ Cardinality(Group(region, s)) = 2 => Degree(edges, s) = 1
               /\ Cardinality(Group(region, s)) \notin {1, 2} => Degree(edges, s) = 2
    <3> HIDE DEF D, region
    <3> QED BY <2>1, <2>2, Rings
  <2> HIDE DEF D, region, edges, G
  <2> QED BY <2>3, <2>4
<1> QED BY RequestsInv, <1>1, PTL DEF Spec, RebuiltAsRings

-----------------------------------------------------------------------------
(* The life of the process, for any defaults, settings and requests: its   *)
(* types, and that seeding leaves alone what was not empty at the start.   *)

RowsOK == rows \in [Table -> SUBSET UNION {DefaultRow(t) : t \in Table}]

SeedOK == seed \in [stage : 1 .. Len(Stages) + 1, inserted : Nat]

\* Nothing runs before lifespan() is through.
NoTaskYet == proc \in {"down", "starting"} => loop = "none" /\ ~cancel

\* Tables found with rows keep them while others are seeded: only empty ones are begun.
FoundKept ==
    proc = "starting" =>
        /\ \A t \in found : rows[t] # {}
        /\ seed.inserted > 0 => seed.stage <= Len(Stages) /\ Stage \notin found

LifeInv == ServiceTypeOK /\ RowsOK /\ SeedOK /\ NoTaskYet /\ FoundKept

LEMMA StageIsTable ==
    /\ Len(Stages) = 3
    /\ \A n \in 1 .. Len(Stages) : Stages[n] \in Table
    /\ "switches" \in Table
<1>1. Len(Stages) = 3 /\ DOMAIN Stages = 1 .. 3 /\ Stages[3] = "switches"
  BY DEF Stages
<1> QED BY <1>1 DEF Table, Range

LEMMA CycleNames == "loop" \in Cycle /\ "startup" \in Cycle /\ "loop" # "startup"
BY DEF Cycle

LEMMA CycleValues == NoCycle \in CycleState /\ Listing \in CycleState
                     /\ NoCycle.pc = "none" /\ Listing.pc = "list"
BY DEF NoCycle, Listing, CycleState

LEMMA ServiceInitInv == ServiceInit => LifeInv
<1> SUFFICES ASSUME ServiceInit PROVE LifeInv
  OBVIOUS
<1> USE DEF ServiceInit
<1>1. ServiceTypeOK
  <2>1. seed.stage \in 1 .. Len(Stages) + 1
    BY StageIsTable
  <2>2. cycle \in [Cycle -> CycleState] /\ cycle["loop"].pc = "none"
    BY CycleNames, CycleValues
  <2> QED BY <2>1, <2>2 DEF ServiceTypeOK
<1>2. RowsOK /\ SeedOK
  BY StageIsTable DEF RowsOK, SeedOK
<1> QED BY <1>1, <1>2 DEF LifeInv, NoTaskYet, FoundKept

\* What the end of a process leaves of its tasks.
LEMMA NoTasksTyped ==
    NoTasks => /\ stop' \in BOOLEAN /\ cancel' \in BOOLEAN /\ ~cancel'
               /\ loop' = "none" /\ cycle' \in [Cycle -> CycleState]
               /\ cycle'["loop"].pc = "none"
BY CycleNames, CycleValues DEF NoTasks

LEMMA StartInv == LifeInv /\ Start => LifeInv'
<1> SUFFICES ASSUME LifeInv, Start PROVE LifeInv'
  OBVIOUS
<1> USE DEF Start
<1>1. ServiceTypeOK'
  <2>1. seed'.stage \in 1 .. Len(Stages) + 1
    BY StageIsTable
  <2> QED BY <2>1, NoTasksTyped DEF LifeInv, ServiceTypeOK
<1>2. RowsOK' /\ SeedOK'
  BY StageIsTable DEF LifeInv, RowsOK, SeedOK
<1>3. NoTaskYet' /\ FoundKept'
  BY NoTasksTyped DEF NoTaskYet, FoundKept
<1> QED BY <1>1, <1>2, <1>3 DEF LifeInv

LEMMA SeedInv == LifeInv /\ Seed => LifeInv'
<1> SUFFICES ASSUME LifeInv, Seed PROVE LifeInv'
  OBVIOUS
<1> USE DEF Seed
<1>0. /\ proc = "starting" /\ seed.stage \in 1 .. Len(Stages) /\ seed.inserted \in Nat
      /\ Stage \in Table /\ UNCHANGED <<conf, found, proc, stop, cancel, loop, cycle, faults>>
      /\ ServiceTypeOK /\ RowsOK /\ SeedOK /\ found \subseteq Table
  BY StageIsTable DEF LifeInv, SeedOK, Stage, ServiceTypeOK
<1>1. NoTaskYet'
  BY <1>0 DEF LifeInv, NoTaskYet
<1>2. ASSUME UNCHANGED rows, NextStage PROVE LifeInv'
  <2>1. SeedOK' /\ seed'.stage \in 1 .. Len(Stages) + 1 /\ seed'.inserted = 0
    BY <1>0, <1>2, StageIsTable DEF NextStage, SeedOK
  <2>2. ServiceTypeOK' /\ RowsOK'
    BY <1>0, <1>2, <2>1 DEF ServiceTypeOK, RowsOK
  <2>3. FoundKept'
    BY <1>0, <1>2, <2>1 DEF LifeInv, FoundKept
  <2> QED BY <1>1, <2>1, <2>2, <2>3 DEF LifeInv
<1>3. ASSUME seed.inserted > 0 \/ Seedable(Stage), seed.inserted < Len(Defaults[Stage]),
             rows' = [rows EXCEPT ![Stage] = @ \cup {Defaults[Stage][seed.inserted + 1]}],
             seed' = [seed EXCEPT !.inserted = @ + 1]
      PROVE  LifeInv'
  <2>1. Defaults[Stage][seed.inserted + 1] \in DefaultRow(Stage)
    BY <1>0, <1>3, ServiceAssumption DEF DefaultRow, Range
  <2>2. /\ seed'.stage = seed.stage /\ seed'.inserted = seed.inserted + 1 /\ SeedOK'
        /\ Stage' = Stage
    BY <1>0, <1>3 DEF SeedOK, Stage
  <2>3. /\ rows'[Stage] = rows[Stage] \cup {Defaults[Stage][seed.inserted + 1]}
        /\ \A t \in Table \ {Stage} : rows'[t] = rows[t]
    BY <1>0, <1>3 DEF RowsOK
  <2>4. \A t \in Table : rows'[t] \subseteq DefaultRow(t)
    BY <1>0, <2>1, <2>3 DEF ServiceTypeOK
  <2>5. ServiceTypeOK'
    BY <1>0, <2>2, <2>4 DEF ServiceTypeOK
  <2>6. RowsOK'
    <3>1. DOMAIN rows' = Table /\ rows' = [t \in Table |-> rows'[t]]
      BY <1>0, <1>3 DEF RowsOK
    <3>2. \A t \in Table : rows'[t] \in SUBSET UNION {DefaultRow(u) : u \in Table}
      BY <2>4
    <3> QED BY <3>1, <3>2 DEF RowsOK
  <2>7. Stage \notin found
    BY <1>0, <1>3 DEF LifeInv, FoundKept, Seedable
  <2>8. FoundKept'
    BY <1>0, <2>2, <2>3, <2>7 DEF LifeInv, FoundKept
  <2> QED BY <1>1, <2>2, <2>5, <2>6, <2>8 DEF LifeInv
<1> QED BY <1>2, <1>3

LEMMA ServeInv == LifeInv /\ Serve => LifeInv'
<1> SUFFICES ASSUME LifeInv, Serve PROVE LifeInv'
  OBVIOUS
<1> USE DEF Serve
<1>1. cycle'["loop"].pc = "none" /\ cycle' \in [Cycle -> CycleState]
  BY CycleNames, CycleValues DEF LifeInv, NoTaskYet, ServiceTypeOK
<1>2. ServiceTypeOK'
  BY <1>1 DEF LifeInv, ServiceTypeOK
<1> QED BY <1>2 DEF LifeInv, RowsOK, SeedOK, NoTaskYet, FoundKept

LEMMA ShutdownInv == LifeInv /\ Shutdown => LifeInv'
<1> SUFFICES ASSUME LifeInv, Shutdown PROVE LifeInv'
  OBVIOUS
<1> USE DEF Shutdown
<1>1. ServiceTypeOK'
  BY DEF LifeInv, ServiceTypeOK
<1> QED BY <1>1 DEF LifeInv, RowsOK, SeedOK, NoTaskYet, FoundKept

LEMMA DownInv == LifeInv /\ (Exit \/ Crash) => LifeInv'
<1> SUFFICES ASSUME LifeInv, Exit \/ Crash PROVE LifeInv'
  OBVIOUS
<1> USE DEF Exit, Crash
<1>1. proc' = "down" /\ UNCHANGED <<conf, rows, found, seed, faults>> /\ NoTasks
  OBVIOUS
<1>2. ServiceTypeOK'
  BY <1>1, NoTasksTyped DEF LifeInv, ServiceTypeOK
<1> QED BY <1>1, <1>2, NoTasksTyped DEF LifeInv, RowsOK, SeedOK, NoTaskYet, FoundKept

LEMMA RequestInv ==
    ASSUME LifeInv, NEW t \in Table, NEW row \in DefaultRow(t), create(t, row) \/ delete(t, row)
    PROVE  LifeInv'
<1> USE DEF create, delete
<1>1. /\ proc = "up" /\ UNCHANGED <<process, stop, cancel, loop, cycle, faults>>
      /\ ServiceTypeOK /\ RowsOK /\ SeedOK
  BY DEF LifeInv
<1>2. \A u \in Table : rows'[u] \subseteq DefaultRow(u)
  BY <1>1 DEF ServiceTypeOK, RowsOK
<1>3. RowsOK'
  <2>1. DOMAIN rows' = Table /\ rows' = [u \in Table |-> rows'[u]]
    BY <1>1 DEF RowsOK
  <2>2. \A u \in Table : rows'[u] \in SUBSET UNION {DefaultRow(v) : v \in Table}
    BY <1>2
  <2> QED BY <2>1, <2>2 DEF RowsOK
<1>4. ServiceTypeOK'
  BY <1>1, <1>2 DEF ServiceTypeOK, process
<1> QED BY <1>1, <1>3, <1>4 DEF process, LifeInv, SeedOK, NoTaskYet, FoundKept

\* A step of the cycles and of poller_loop() alone.
LEMMA TasksMove ==
    ASSUME LifeInv, UNCHANGED <<process, rows, stop>>, cancel' \in BOOLEAN, cancel' => cancel,
           loop' \in {"none", "test", "cycle", "wait", "ended"}, cycle' \in [Cycle -> CycleState],
           loop' = "cycle" <=> cycle'["loop"].pc # "none",
           loop = "none" /\ ~cancel => loop' = "none"
    PROVE  LifeInv'
<1>1. ServiceTypeOK'
  BY DEF LifeInv, ServiceTypeOK, process
<1> QED BY <1>1 DEF process, LifeInv, RowsOK, SeedOK, NoTaskYet, FoundKept, Stage

LEMMA PollRequestInv == ASSUME LifeInv, NEW r \in Request, api_poll_all(r) PROVE LifeInv'
<1> USE DEF api_poll_all
<1>1. r \in Cycle /\ r # "loop"
  BY ServiceAssumption DEF Cycle
<1>2. cycle' \in [Cycle -> CycleState] /\ cycle'["loop"] = cycle["loop"]
  BY <1>1, CycleNames, CycleValues DEF LifeInv, ServiceTypeOK
<1> QED BY <1>2, TasksMove DEF LifeInv, ServiceTypeOK

LEMMA EndsInv ==
    ASSUME LifeInv, NEW c \in Cycle, cycle[c].pc # "none", Ends(c),
           UNCHANGED <<process, rows, stop, cancel>>
    PROVE  LifeInv'
<1> USE DEF Ends
<1>1. cycle' \in [Cycle -> CycleState]
  BY CycleValues DEF LifeInv, ServiceTypeOK
<1>2. CASE c = "loop"
  <2>1. cycle'["loop"].pc = "none" /\ loop' = "wait" /\ loop = "cycle"
    BY <1>2, CycleNames, CycleValues DEF LifeInv, ServiceTypeOK
  <2> QED BY <1>1, <2>1, TasksMove DEF LifeInv, ServiceTypeOK
<1>3. CASE c # "loop"
  <2>1. cycle'["loop"] = cycle["loop"] /\ loop' = loop
    BY <1>3, CycleNames DEF LifeInv, ServiceTypeOK
  <2> QED BY <1>1, <2>1, TasksMove DEF LifeInv, ServiceTypeOK
<1> QED BY <1>2, <1>3

LEMMA GoesInv ==
    ASSUME LifeInv, NEW c \in Cycle, cycle[c].pc # "none", NEW pc \in {"list", "gather", "alerts"},
           NEW todo \in SUBSET DefaultRow("switches"), Goes(c, pc, todo),
           UNCHANGED <<process, rows, stop, cancel>>
    PROVE  LifeInv'
<1> USE DEF Goes
<1> DEFINE f == [pc |-> pc, todo |-> todo]
<1>1. f \in CycleState /\ f.pc # "none"
  BY DEF CycleState
<1>2. cycle' = [cycle EXCEPT ![c] = f]
  OBVIOUS
<1> HIDE DEF f
<1>3. cycle' \in [Cycle -> CycleState]
  BY <1>1, <1>2 DEF LifeInv, ServiceTypeOK
<1>4. cycle'["loop"].pc # "none" <=> cycle["loop"].pc # "none"
  BY <1>1, <1>2, CycleNames DEF LifeInv, ServiceTypeOK
<1> QED BY <1>3, <1>4, TasksMove DEF LifeInv, ServiceTypeOK

LEMMA CycleInv == ASSUME LifeInv, NEW c \in Cycle, CycleStep(c) PROVE LifeInv'
<1>0. cycle[c] \in CycleState /\ rows["switches"] \subseteq DefaultRow("switches")
  BY StageIsTable DEF LifeInv, ServiceTypeOK
<1>1. ASSUME List(c) PROVE LifeInv'
  BY <1>0, <1>1, EndsInv, GoesInv DEF List
<1>2. ASSUME ListFails(c) PROVE LifeInv'
  BY <1>2, EndsInv DEF ListFails
<1>3. ASSUME Polled(c) PROVE LifeInv'
  <2>1. PICK s \in cycle[c].todo : Goes(c, "gather", cycle[c].todo \ {s})
    BY <1>3 DEF Polled
  <2>2. cycle[c].todo \ {s} \in SUBSET DefaultRow("switches")
    BY <1>0 DEF CycleState
  <2> QED BY <1>3, <2>1, <2>2, GoesInv DEF Polled
<1>4. ASSUME Gathered(c) PROVE LifeInv'
  BY <1>4, EndsInv, GoesInv DEF Gathered
<1>5. ASSUME Evaluated(c) PROVE LifeInv'
  BY <1>5, EndsInv DEF Evaluated
<1> QED BY <1>1, <1>2, <1>3, <1>4, <1>5 DEF CycleStep

LEMMA LoopInv == LifeInv /\ LoopStep => LifeInv'
<1> SUFFICES ASSUME LifeInv, LoopStep PROVE LifeInv'
  OBVIOUS
<1>1. ASSUME Test PROVE LifeInv'
  <2>1. CASE conf.POLL_INTERVAL = 0 \/ stop
    BY <1>1, <2>1, TasksMove DEF Test, LifeInv, ServiceTypeOK
  <2>2. CASE ~(conf.POLL_INTERVAL = 0 \/ stop)
    <3>1. loop' = "cycle" /\ cycle' = [cycle EXCEPT !["loop"] = Listing]
      BY <1>1, <2>2 DEF Test
    <3>2. cycle' \in [Cycle -> CycleState] /\ cycle'["loop"].pc # "none"
      BY <3>1, CycleNames, CycleValues DEF LifeInv, ServiceTypeOK
    <3> QED BY <1>1, <3>1, <3>2, TasksMove DEF Test, LifeInv, ServiceTypeOK
  <2> QED BY <2>1, <2>2
<1>2. ASSUME Woken PROVE LifeInv'
  BY <1>2, TasksMove DEF Woken, LifeInv, ServiceTypeOK
<1>3. ASSUME Cancelled PROVE LifeInv'
  <2>1. cycle' \in [Cycle -> CycleState] /\ cycle'["loop"].pc = "none"
    BY <1>3, CycleNames, CycleValues DEF Cancelled, LifeInv, ServiceTypeOK
  <2> QED BY <1>3, <2>1, TasksMove DEF Cancelled, LifeInv, ServiceTypeOK
<1> QED BY <1>1, <1>2, <1>3 DEF LoopStep

LEMMA ServiceStepInv == LifeInv /\ [ServiceNext]_serviceVars => LifeInv'
<1> SUFFICES ASSUME LifeInv, [ServiceNext]_serviceVars PROVE LifeInv'
  OBVIOUS
<1>1. CASE UNCHANGED serviceVars
  BY <1>1 DEF serviceVars, LifeInv, ServiceTypeOK, RowsOK, SeedOK, NoTaskYet, FoundKept, Stage
<1> QED BY <1>1, StartInv, SeedInv, ServeInv, ShutdownInv, DownInv, RequestInv, PollRequestInv,
           CycleInv, LoopInv DEF ServiceNext

\* The tables, lifespan(), poller_loop() and the calls of poll_all() stay in their types, and
\* poller_loop() is in a cycle exactly while its call of poll_all() runs (main.py, poller.py).
THEOREM ServiceType == ServiceSpec => []ServiceTypeOK
<1>1. LifeInv => ServiceTypeOK
  BY DEF LifeInv
<1> QED BY ServiceInitInv, ServiceStepInv, <1>1, PTL DEF ServiceSpec

\* seed_default_rules(), bootstrap_admin() and _seed_demo() only fill tables that were empty when
\* the process started, however often it crashes in between.
THEOREM ServiceSeeds == ServiceSpec => DeletedStaysDeleted
<1> DEFINE Untouched ==
      \A t \in Table : proc = "starting" /\ rows'[t] # rows[t] => t \notin found
<1>1. LifeInv /\ [ServiceNext]_serviceVars => [Untouched]_serviceVars
  <2> SUFFICES ASSUME LifeInv, ServiceNext, NEW t \in Table, proc = "starting", rows'[t] # rows[t]
               PROVE  t \notin found
    OBVIOUS
  <2>1. Seed
    BY DEF ServiceNext, Start, Serve, Shutdown, Exit, Crash, create, delete, api_poll_all, CycleStep,
           List, ListFails, Polled, Gathered, Evaluated, LoopStep, Test, Woken, Cancelled
  <2>2. seed.inserted > 0 \/ Seedable(Stage)
    BY <2>1 DEF Seed
  <2>3. t = Stage
    BY <2>1 DEF Seed, LifeInv, RowsOK
  <2> QED BY <2>2, <2>3 DEF LifeInv, FoundKept, Seedable
<1>2. ServiceSpec => []LifeInv
  BY ServiceInitInv, ServiceStepInv, PTL DEF ServiceSpec
<1> QED BY <1>1, <1>2, PTL DEF ServiceSpec, DeletedStaysDeleted
=============================================================================
