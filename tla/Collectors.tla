----------------------------- MODULE Collectors -----------------------------
(***************************************************************************)
(* collect() of the collectors (backend/app/collectors), request by        *)
(* request, against a device that may fail any of them, lose its answer,   *)
(* or change its interface table in between, and a caller that cancels.    *)
(*                                                                         *)
(* What is listed of a device is a function from key to port name, and so  *)
(* are its counters, whose value is the name of the port they count.  The  *)
(* key is the name itself with FOS REST, ifIndex with SNMP.                *)
(***************************************************************************)
EXTENDS Utilisation, FiniteSets

CONSTANTS
    Index,    \* values of ifIndex
    Vacant    \* no port has this index

\* Ports are named by numbers, first those of their index.
Port == Index
Methods == {"demo", "fos_rest", "snmp"}

ASSUME CollectorsAssumption == Index \subseteq Nat /\ Vacant \notin Port

VARIABLES
    table,    \* the device's interface table
    method,   \* of the switch collected
    pc,       \* the request awaited
    fate,     \* the exception under way, or "fine"
    listed,   \* the ports read
    counted,  \* the counters read
    session,  \* whether the device has a session open for this collect()
    bare,     \* history variable: which of Lists were answered without a list
    result,   \* the snapshot, or NULL if it raised
    lost,     \* history variable: login or logout had no proper answer
    steady,   \* history variable: the ports the device had all the while
    moved     \* history variable: a port changed its index meanwhile

frame == <<method, pc, fate, listed, counted, session, bare, result>>
vars == <<table, frame, lost, steady, moved>>

Nothing == [n \in {} |-> n]    \* the empty dict

\* The requests for the ports, and for the counters of the SNMP agent.
Lists == {"ports", "descr", "out"}

Ports(t) == {t[i] : i \in DOMAIN t} \ {Vacant}
Filled == [i \in {j \in Index : table[j] # Vacant} |-> table[i]]

Unreachable == [reachable |-> FALSE, ports |-> {}]
Reached(ports) == [reachable |-> TRUE, ports |-> ports]

Init ==
    /\ table = [i \in Index |-> i]
    /\ method = "demo" /\ pc = "idle" /\ fate = "fine"
    /\ listed = Nothing /\ counted = Nothing
    /\ session = FALSE /\ bare = {}
    /\ result = Unreachable
    /\ lost = FALSE /\ steady = {} /\ moved = FALSE

-----------------------------------------------------------------------------
(* The device, between two collections and between two requests. *)

Rewire == /\ pc = "idle"
          /\ table' \in {t \in [Index -> Port \cup {Vacant}] :
                           \A i, j \in Index : i # j /\ t[i] = t[j] => t[i] = Vacant}
          /\ UNCHANGED <<frame, lost, moved>>
          /\ steady' = {}

Unplug == /\ pc # "idle"
          /\ \E i \in Index : /\ table[i] # Vacant
                              /\ table' = [table EXCEPT ![i] = Vacant]
                              /\ steady' = steady \ {table[i]}
          /\ UNCHANGED <<frame, lost, moved>>

Renumber == /\ pc # "idle"
            /\ \E i, j \in Index : /\ i # j
                                   /\ table' = [table EXCEPT ![i] = table[j], ![j] = table[i]]
            /\ moved' = TRUE
            /\ UNCHANGED <<frame, lost, steady>>

-----------------------------------------------------------------------------

\* Mutant: the rows of two answers are paired by position, not by key.
MergeByPosition(ports, octets) ==
    LET nth(f, n) == CHOOSE k \in DOMAIN f : Cardinality({j \in DOMAIN f : j < k}) = n
        at(k) == Cardinality({j \in DOMAIN ports : j < k})
    IN  {[name |-> ports[k],
          octets |-> IF at(k) < Cardinality(DOMAIN octets) THEN octets[nth(octets, at(k))]
                                                           ELSE NULL] : k \in DOMAIN ports}

\* stats.get(p.name), out_oct.get(idx)
Merge(ports, octets) ==
    {[name |-> ports[k], octets |-> IF k \in DOMAIN octets THEN octets[k] ELSE NULL] :
        k \in DOMAIN ports}

\* Mutant: only httpx.HTTPError is caught.
ReturnNarrow(end) ==
    /\ pc' = "idle" /\ fate' = end
    /\ result' = CASE end = "fine"      -> Reached(Merge(listed', counted'))
                   [] end = "HTTPError" -> Unreachable
                   [] OTHER             -> NULL

\* collect() returns: every Exception becomes a snapshot, CancelledError is none.
Return(end) ==
    /\ pc' = "idle" /\ fate' = end
    /\ result' = CASE end = "fine"           -> Reached(Merge(listed', counted'))
                   [] end = "CancelledError" -> NULL
                   [] OTHER                  -> Unreachable

Start(m) == /\ pc = "idle"
            /\ method' = m
            /\ listed' = Nothing /\ counted' = Nothing
            /\ session' = FALSE /\ bare' = {} /\ lost' = FALSE /\ moved' = FALSE
            /\ steady' = Ports(table)
            /\ UNCHANGED table

\* DemoCollector: made up at once, without counters.
CollectDemo == /\ Start("demo")
               /\ pc' = "idle" /\ fate' = "fine"
               /\ result' = Reached({[name |-> n, octets |-> NULL] : n \in Port})

Collect == \E m \in {"fos_rest", "snmp"} :
               /\ Start(m)
               /\ pc' = IF m = "snmp" THEN "scalars" ELSE "login"
               /\ fate' = "fine"
               /\ UNCHANGED result

-----------------------------------------------------------------------------
(* FOSRestCollector *)

Keep == UNCHANGED <<table, method, steady, moved>>

Login == /\ pc = "login"
         /\ session' = TRUE
         /\ pc' = "switch_info"
         /\ Keep /\ UNCHANGED <<fate, listed, counted, bare, result, lost>>

\* No answer, an error, no token, or cancelled; the device may have opened a
\* session all the same.
LoginFails ==
    /\ pc = "login"
    /\ session' \in BOOLEAN
    /\ lost' = TRUE
    /\ UNCHANGED <<listed, counted, bare>>
    /\ \E end \in {"HTTPError", "CancelledError"} : Return(end)
    /\ Keep

Then(step) == CASE step = "switch_info" -> "chassis"
                [] step = "chassis"     -> "ports"
                [] step = "ports"       -> "statistics"
                [] step = "statistics"  -> "logout"

Requests == {"switch_info", "chassis", "ports", "statistics"}

\* The answer lists what the device has.  JSON without "Response" or without the
\* list is no error but an empty list, `.get("Response", {})` and _as_list(None),
\* and a firmware without octet fields has no counters.
Get == /\ pc \in Requests
       /\ pc' = Then(pc)
       /\ \E answer \in {[n \in Ports(table) |-> n], Nothing} :
              /\ listed' = IF pc = "ports" THEN answer ELSE listed
              /\ counted' = IF pc = "statistics" THEN answer ELSE counted
              /\ bare' = IF answer = Nothing THEN bare \cup ({pc} \cap Lists) ELSE bare
       /\ Keep /\ UNCHANGED <<fate, session, result, lost>>

\* What _chassis_model() and _statistics() do not let pass.
Tolerated(step, error) == \/ step = "chassis" /\ error = "HTTPError"
                          \/ step = "statistics" /\ error \in {"HTTPError", "ValueError"}

\* Mutant: without `finally`, the logout is for collections that go well.
GetFailsInTry ==
    /\ pc \in Requests
    /\ UNCHANGED <<listed, counted, bare>>
    /\ \E error \in {"HTTPError", "ValueError", "AttributeError", "CancelledError"} :
           IF Tolerated(pc, error)
           THEN pc' = Then(pc) /\ UNCHANGED <<fate, result>>
           ELSE Return(error)
    /\ Keep /\ UNCHANGED <<session, bare, lost>>

\* An error answer or none, no JSON, a list or text where an object must be, or cancelled.
GetFails ==
    /\ pc \in Requests
    /\ \E error \in {"HTTPError", "ValueError", "AttributeError", "CancelledError"} :
           IF Tolerated(pc, error)
           THEN pc' = Then(pc) /\ UNCHANGED fate
           ELSE pc' = "logout" /\ fate' = error
    /\ Keep /\ UNCHANGED <<listed, counted, bare, session, result, lost>>

\* `finally`; the exception it was entered with goes on, ...
Logout == /\ pc = "logout"
          /\ session' = FALSE
          /\ UNCHANGED <<listed, counted, bare>>
          /\ Return(fate)
          /\ Keep /\ UNCHANGED lost

\* ... unless the logout raises another; an HTTPError is passed over.
LogoutFails == /\ pc = "logout"
               /\ session' \in BOOLEAN
               /\ lost' = TRUE
               /\ UNCHANGED <<listed, counted, bare>>
               /\ \E end \in {fate, "Exception", "CancelledError"} : Return(end)
               /\ Keep

-----------------------------------------------------------------------------
(* SNMPCollector *)

Walking == {"scalars", "descr", "oper", "speed", "in", "out"}

After(walk) == CASE walk = "scalars" -> "descr"
                 [] walk = "descr"   -> "oper"
                 [] walk = "oper"    -> "speed"
                 [] walk = "speed"   -> "in"
                 [] walk = "in"      -> "out"

\* A walk is one step, whatever number of requests it takes.  An agent without
\* the column ends it at once with none.
Walk == /\ pc \in Walking
        /\ \E answer \in {Filled, Nothing} :
               /\ listed'  = IF pc = "descr" THEN answer ELSE listed
               /\ counted' = IF pc = "out" THEN answer ELSE counted
               /\ bare' = IF answer = Nothing THEN bare \cup ({pc} \cap Lists) ELSE bare
        /\ IF pc = "out" THEN Return("fine")
           ELSE pc' = After(pc) /\ UNCHANGED <<fate, result>>
        /\ Keep /\ UNCHANGED <<session, lost>>

\* Mutant: an error ends the walk, and what it has so far counts.
WalkFailsShort ==
    /\ pc \in Walking
    /\ \E S \in SUBSET DOMAIN Filled :
           LET some == [i \in S |-> Filled[i]]
           IN  /\ listed'  = IF pc = "descr" THEN some ELSE listed
               /\ counted' = IF pc = "out" THEN some ELSE counted
    /\ IF pc = "out" THEN Return("fine")
       ELSE pc' = After(pc) /\ UNCHANGED <<fate, result>>
    /\ Keep /\ UNCHANGED <<session, bare, lost>>

\* pysnmp is missing, no answer or an error, after some rows perhaps, or cancelled.
WalkFails == /\ pc \in Walking
             /\ UNCHANGED <<listed, counted, bare>>
             /\ \E end \in {"RuntimeError", "CancelledError"} : Return(end)
             /\ Keep /\ UNCHANGED <<session, lost>>

-----------------------------------------------------------------------------

Step == \/ Login \/ LoginFails \/ Get \/ GetFails \/ Logout \/ LogoutFails
        \/ Walk \/ WalkFails

Next == CollectDemo \/ Collect \/ Step \/ Rewire \/ Unplug \/ Renumber

\* A request is answered or runs into HTTP_TIMEOUT or SNMP_TIMEOUT, taken as a bound on
\* all of it: a device that keeps sending a little before each timeout is left out.
Spec == Init /\ [][Next]_vars /\ WF_vars(Step)

-----------------------------------------------------------------------------
(* Properties. *)

Snapshot == [reachable : BOOLEAN, ports : SUBSET [name : Port, octets : Port \cup {NULL}]]

TypeOK ==
    /\ table \in [Index -> Port \cup {Vacant}]
    /\ method \in Methods
    /\ pc \in {"idle", "login", "logout"} \cup Requests \cup Walking
    /\ Ports(listed) \cup Ports(counted) \subseteq Port
    /\ bare \subseteq Lists
    /\ session \in BOOLEAN /\ lost \in BOOLEAN /\ moved \in BOOLEAN
    /\ result # NULL => result \in Snapshot
    /\ steady \subseteq Ports(table)

\* A device has few sessions to give: whatever fails, and wherever the poll is cancelled,
\* none stays open unless the answer to the login or the logout itself was lost.
SessionClosed == pc = "idle" /\ session => lost

\* A snapshot that says reachable is whole: it has every port the device had all the
\* while, by SNMP with its counter if the agent has the column; a collection that breaks
\* off never passes for a small switch.  An answer without a list is all or nothing: it
\* gives no ports at all, and not some.  A device that renumbers its interfaces under a
\* walk is excused.
WholeSnapshot ==
    pc = "idle" /\ result # NULL /\ ~(method = "snmp" /\ moved) =>
        (result.reachable =>
            \/ \A n \in steady : \E x \in result.ports :
                   x.name = n /\ (method = "snmp" /\ "out" \notin bare => x.octets = n)
            \/ result.ports = {} /\ bare \cap {"ports", "descr"} # {})

\* Counters go to the port they count, also when ports come and go between the requests;
\* only a device that renumbers its interfaces during a walk can mix them up.
CountersOfPort ==
    pc = "idle" /\ result # NULL =>
        \A x \in result.ports : x.octets \in {NULL, x.name} \/ (method = "snmp" /\ moved)

\* collectors/base.py: collect() always returns a snapshot and does not raise, unless
\* it is cancelled.
AlwaysSnapshot == pc # "idle" ~> pc = "idle" /\ (result = NULL => fate = "CancelledError")
=============================================================================
