------------------------- MODULE Collectors_proofs -------------------------
(***************************************************************************)
(* What collect() returns and leaves behind, for interface tables of any   *)
(* size: a poll ends without a session (SessionClosed), with a whole list  *)
(* of ports or none (WholeSnapshot) and with counters of these ports               *)
(* (CountersOfPort).  Read is why: what has been listed is what the device *)
(* still has or had.  Then the utilisation that Poller reports: it never   *)
(* exceeds the traffic, for counters of any width.                         *)
(***************************************************************************)
EXTENDS Collectors, TLAPS

Fates == {"fine", "HTTPError", "ValueError", "AttributeError", "RuntimeError", "Exception",
          "CancelledError"}

Typed == /\ TypeOK
         /\ fate \in Fates
         /\ \A k \in DOMAIN listed : listed[k] \in Port
         /\ \A k \in DOMAIN counted : counted[k] \in Port

\* Which collector is where, and where a session may be open or an exception under way.
Protocol == /\ pc \in Walking => method = "snmp" /\ ~session
            /\ pc \in Requests \cup {"login", "logout"} => method = "fos_rest"
            /\ pc = "login" => ~session
            /\ pc \notin {"idle", "logout"} => fate = "fine"

\* The answer had no list, so nothing is listed.
NoList(request) == request \in bare /\ DOMAIN listed = {}

\* FOS REST keys what it read by name, and has listed the steady ports before "statistics".
ReadByName ==
    method = "fos_rest" =>
        /\ \A k \in DOMAIN listed : listed[k] = k
        /\ \A k \in DOMAIN counted : counted[k] = k
        /\ pc = "statistics" \/ (pc = "logout" /\ fate = "fine") =>
               steady \subseteq DOMAIN listed \/ NoList("ports")

\* SNMP keys it by ifIndex: unless the device renumbers, an index listed is of the same
\* port or vacant, and after "descr" the steady ports are listed at theirs.
ReadByIndex ==
    method = "snmp" /\ pc # "idle" /\ ~moved =>
        /\ \A i \in DOMAIN listed : i \in Index /\ table[i] \in {listed[i], Vacant}
        /\ pc \in {"oper", "speed", "in", "out"} =>
               \/ \A i \in Index :
                      table[i] \in steady => i \in DOMAIN listed /\ listed[i] = table[i]
               \/ NoList("descr")

IInv == /\ Typed /\ Protocol /\ ReadByName /\ ReadByIndex
        /\ SessionClosed /\ WholeSnapshot /\ CountersOfPort

-----------------------------------------------------------------------------

\* A snapshot of what was read has the type of one.
LEMMA MergeType ==
    ASSUME NEW p, NEW c, \A k \in DOMAIN p : p[k] \in Port, \A k \in DOMAIN c : c[k] \in Port
    PROVE  Reached(Merge(p, c)) \in Snapshot
<1>1. \A k \in DOMAIN p : [name |-> p[k], octets |-> IF k \in DOMAIN c THEN c[k] ELSE NULL]
                             \in [name : Port, octets : Port \cup {NULL}]
  OBVIOUS
<1>2. Merge(p, c) \in SUBSET [name : Port, octets : Port \cup {NULL}]
  BY <1>1 DEF Merge
<1> QED
  BY <1>2 DEF Reached, Snapshot

\* A collection that breaks off keeps what must hold of its result.
LEMMA BreaksOff ==
    ASSUME IInv, NEW end \in Fates \ {"fine"}, Return(end), Keep, UNCHANGED <<listed, counted, bare>>,
           session' \in BOOLEAN, lost' \in BOOLEAN, session' => lost'
    PROVE  IInv'
<1>1. result' \in {NULL, Unreachable} /\ pc' = "idle" /\ fate' = end
  BY DEF Return, Fates
<1>2. Typed'
  <2>1. Unreachable \in Snapshot
    BY DEF Unreachable, Snapshot
  <2> QED
    BY <1>1, <2>1 DEF IInv, Typed, TypeOK, Keep, Fates, Ports
<1>3. Protocol' /\ ReadByName' /\ ReadByIndex' /\ SessionClosed'
  BY <1>1 DEF IInv, Protocol, ReadByName, ReadByIndex, SessionClosed, Keep, Walking, Requests
<1>4. WholeSnapshot' /\ CountersOfPort'
  BY <1>1 DEF WholeSnapshot, CountersOfPort, Unreachable
<1> QED
  BY <1>2, <1>3, <1>4 DEF IInv

\* A collection by FOS REST that goes well ends with all it listed, by name.
LEMMA EndsByName ==
    ASSUME IInv, pc = "logout", fate = "fine", Return("fine"), Keep, UNCHANGED <<listed, counted, bare>>,
           session' \in BOOLEAN, lost' \in BOOLEAN, session' => lost'
    PROVE  IInv'
<1>1. result' = Reached(Merge(listed, counted)) /\ pc' = "idle" /\ fate' = "fine"
  BY DEF Return
<1>2. /\ method = "fos_rest" /\ method' = method /\ steady' = steady
      /\ steady \subseteq DOMAIN listed \/ NoList("ports")
      /\ bare' = bare
      /\ \A k \in DOMAIN listed : listed[k] = k
      /\ \A k \in DOMAIN counted : counted[k] = k
  BY DEF IInv, Protocol, ReadByName, Keep
<1>3. Typed'
  <2>1. result' \in Snapshot
    BY <1>1, MergeType DEF IInv, Typed
  <2> QED
    BY <1>1, <2>1 DEF IInv, Typed, TypeOK, Keep, Fates, Ports
<1>4. Protocol' /\ ReadByName' /\ ReadByIndex' /\ SessionClosed'
  BY <1>1 DEF IInv, Protocol, ReadByName, ReadByIndex, SessionClosed, Keep, Walking, Requests
<1>5. \A x \in result'.ports : x.octets \in {NULL, x.name}
  BY <1>1, <1>2 DEF Reached, Merge
<1>6. ASSUME NEW n \in steady, steady \subseteq DOMAIN listed
      PROVE  \E x \in result'.ports : x.name = n
  <2> DEFINE x == [name |-> n, octets |-> IF n \in DOMAIN counted THEN counted[n] ELSE NULL]
  <2>1. n \in DOMAIN listed /\ listed[n] = n
    BY <1>2, <1>6
  <2>2. x \in result'.ports /\ x.name = n
    BY <1>1, <2>1 DEF Reached, Merge
  <2> HIDE DEF x
  <2> QED
    BY <2>2
<1>7. NoList("ports") => result'.ports = {} /\ bare' \cap {"ports", "descr"} # {}
  BY <1>1, <1>2 DEF NoList, Reached, Merge
<1> QED
  BY <1>2, <1>3, <1>4, <1>5, <1>6, <1>7 DEF IInv, WholeSnapshot, CountersOfPort

\* The last walk: every port listed that is still there gets its own counter, or none has one.
LEMMA EndsByIndex ==
    ASSUME IInv, pc = "out", Walk
    PROVE  IInv'
<1>1. PICK answer \in {Filled, Nothing} :
          counted' = answer /\ bare' = IF answer = Nothing THEN bare \cup ({"out"} \cap Lists) ELSE bare
  BY DEF Walk
<1>2. /\ result' = Reached(Merge(listed, answer)) /\ pc' = "idle" /\ fate' = "fine"
      /\ listed' = listed /\ session' = session /\ lost' = lost
      /\ method' = method /\ steady' = steady /\ moved' = moved /\ table' = table
  BY <1>1 DEF Walk, Return, Keep
<1>3. method = "snmp" /\ ~session
  BY DEF IInv, Protocol, Walking
<1>4. /\ DOMAIN Filled = {j \in Index : table[j] # Vacant} /\ DOMAIN Nothing = {}
      /\ \A i \in DOMAIN Filled : Filled[i] = table[i] /\ table[i] \in Port
      /\ bare \subseteq bare' /\ bare' \subseteq Lists
      /\ answer # Filled => "out" \in bare'
  BY <1>1 DEF Filled, Nothing, Lists, IInv, Typed, TypeOK
<1>5. \A i \in DOMAIN answer : i \in DOMAIN Filled /\ answer[i] = table[i] /\ answer[i] \in Port
  BY <1>4
<1>6. Typed'
  <2>1. result' \in Snapshot
    BY <1>2, <1>5, MergeType DEF IInv, Typed
  <2>2. Ports(counted') \subseteq Port /\ \A i \in DOMAIN counted' : counted'[i] \in Port
    BY <1>1, <1>5 DEF Ports
  <2> QED
    BY <1>2, <1>4, <2>1, <2>2 DEF IInv, Typed, TypeOK, Fates, Ports
<1>7. Protocol' /\ ReadByName' /\ ReadByIndex' /\ SessionClosed'
  BY <1>2, <1>3 DEF Protocol, ReadByName, ReadByIndex, SessionClosed, Walking, Requests
<1>8. ASSUME ~moved
      PROVE  \A x \in result'.ports : x.octets \in {NULL, x.name}
  <2>1. \A i \in DOMAIN listed : i \in Index /\ table[i] \in {listed[i], Vacant}
    BY <1>3, <1>8 DEF IInv, ReadByIndex
  <2> QED
    BY <1>2, <1>4, <1>5, <2>1 DEF Reached, Merge
<1>9. ASSUME ~moved, ~NoList("descr"), NEW n \in steady
      PROVE  \E x \in result'.ports : x.name = n /\ ("out" \notin bare' => x.octets = n)
  <2>1. \A i \in Index : table[i] \in steady => i \in DOMAIN listed /\ listed[i] = table[i]
    BY <1>3, <1>9 DEF IInv, ReadByIndex
  <2>2. PICK i \in Index : table[i] = n /\ n # Vacant
    BY <1>9 DEF IInv, Typed, TypeOK, Ports
  <2>3. i \in DOMAIN listed /\ listed[i] = n /\ i \in DOMAIN Filled /\ Filled[i] = n
    BY <1>4, <1>9, <2>1, <2>2
  <2> DEFINE x == [name |-> listed[i], octets |-> IF i \in DOMAIN answer THEN answer[i] ELSE NULL]
  <2>4. x \in result'.ports
    BY <1>2, <2>3 DEF Reached, Merge
  <2>5. x.name = n /\ ("out" \notin bare' => x.octets = n)
    BY <1>4, <2>3
  <2> HIDE DEF x
  <2> QED
    BY <2>4, <2>5
<1>10. NoList("descr") => result'.ports = {} /\ bare' \cap {"ports", "descr"} # {}
  BY <1>2, <1>4 DEF NoList, Reached, Merge
<1>11. WholeSnapshot'
  BY <1>2, <1>3, <1>9, <1>10 DEF WholeSnapshot
<1>12. CountersOfPort'
  BY <1>2, <1>3, <1>8 DEF CountersOfPort
<1> QED
  BY <1>6, <1>7, <1>11, <1>12 DEF IInv

-----------------------------------------------------------------------------

\* The first state satisfies the invariant.
LEMMA InitInv == Init => IInv
<1> SUFFICES ASSUME Init PROVE IInv
  OBVIOUS
<1>1. DOMAIN Nothing = {} /\ Ports(Nothing) = {}
  BY DEF Nothing, Ports
<1>2. Unreachable \in Snapshot /\ Unreachable.ports = {}
  BY DEF Unreachable, Snapshot
<1>3. table \in [Index -> Port \cup {Vacant}]
  BY DEF Init, Port
<1>4. Typed
  BY <1>1, <1>2, <1>3 DEF Init, Typed, TypeOK, Methods, Fates
<1>5. Protocol /\ ReadByName /\ ReadByIndex /\ SessionClosed
  BY DEF Init, Protocol, ReadByName, ReadByIndex, SessionClosed, Walking, Requests
<1>6. WholeSnapshot /\ CountersOfPort
  BY <1>2 DEF Init, WholeSnapshot, CountersOfPort
<1> QED
  BY <1>4, <1>5, <1>6 DEF IInv

\* The device may change between two collections, ...
LEMMA RewireInv == IInv /\ Rewire => IInv'
<1> SUFFICES ASSUME IInv, Rewire PROVE IInv'
  OBVIOUS
<1>1. /\ pc = "idle" /\ table' \in [Index -> Port \cup {Vacant}] /\ steady' = {}
      /\ UNCHANGED <<frame, lost, moved>>
  BY DEF Rewire
<1> QED
  BY <1>1 DEF IInv, Typed, TypeOK, Protocol, ReadByName, ReadByIndex, SessionClosed, WholeSnapshot,
              CountersOfPort, frame, Ports, Walking, Requests

\* ... lose a port during one, ...
LEMMA UnplugInv == IInv /\ Unplug => IInv'
<1> SUFFICES ASSUME IInv, pc # "idle", UNCHANGED <<frame, lost, moved>>,
                    NEW i \in Index, table[i] # Vacant,
                    table' = [table EXCEPT ![i] = Vacant], steady' = steady \ {table[i]}
             PROVE  IInv'
  BY DEF Unplug
<1>1. table \in [Index -> Port \cup {Vacant}] /\ steady \subseteq Ports(table)
  BY DEF IInv, Typed, TypeOK
<1>2. /\ table' \in [Index -> Port \cup {Vacant}]
      /\ table'[i] = Vacant
      /\ \A j \in Index : j # i => table'[j] = table[j]
  BY <1>1
<1>3. steady' \subseteq Ports(table')
  <2>1. ASSUME NEW n \in steady' PROVE n \in Ports(table')
    <3>1. PICK j \in Index : table[j] = n /\ n # Vacant
      BY <1>1, <2>1 DEF Ports
    <3>2. table'[j] = n
      BY <1>2, <2>1, <3>1
    <3> QED
      BY <1>2, <3>1, <3>2 DEF Ports
  <2> QED
    BY <2>1
<1>4. Typed'
  BY <1>2, <1>3 DEF IInv, Typed, TypeOK, frame, Ports
<1>5. Protocol' /\ ReadByName' /\ SessionClosed' /\ WholeSnapshot' /\ CountersOfPort'
  BY DEF IInv, Protocol, ReadByName, NoList, SessionClosed, WholeSnapshot, CountersOfPort, frame
<1>6. ReadByIndex'
  <2> SUFFICES ASSUME method = "snmp", ~moved
               PROVE  /\ \A j \in DOMAIN listed : j \in Index /\ table'[j] \in {listed[j], Vacant}
                      /\ pc \in {"oper", "speed", "in", "out"} =>
                             \/ \A j \in Index : table'[j] \in steady' =>
                                    j \in DOMAIN listed /\ listed[j] = table'[j]
                             \/ NoList("descr")
    BY DEF ReadByIndex, NoList, frame
  <2>1. Vacant \notin steady'
    BY <1>1 DEF Ports
  <2> QED
    BY <1>2, <2>1 DEF IInv, ReadByIndex
<1> QED
  BY <1>4, <1>5, <1>6 DEF IInv

\* ... or number its ports anew.
LEMMA RenumberInv == IInv /\ Renumber => IInv'
<1> SUFFICES ASSUME IInv, pc # "idle", UNCHANGED <<frame, lost, steady>>, moved' = TRUE,
                    NEW i \in Index, NEW j \in Index, i # j,
                    table' = [table EXCEPT ![i] = table[j], ![j] = table[i]]
             PROVE  IInv'
  BY DEF Renumber
<1>1. table \in [Index -> Port \cup {Vacant}] /\ steady \subseteq Ports(table)
  BY DEF IInv, Typed, TypeOK
<1>2. /\ table' \in [Index -> Port \cup {Vacant}]
      /\ table'[i] = table[j] /\ table'[j] = table[i]
      /\ \A k \in Index : k \notin {i, j} => table'[k] = table[k]
  BY <1>1
<1>3. steady' \subseteq Ports(table')
  <2>1. ASSUME NEW n \in steady PROVE n \in Ports(table')
    <3>1. PICK k \in Index : table[k] = n /\ n # Vacant
      BY <1>1, <2>1 DEF Ports
    <3>2. \E m \in Index : table'[m] = n
      BY <1>2, <3>1
    <3> QED
      BY <1>2, <3>1, <3>2 DEF Ports
  <2> QED
    BY <2>1
<1>4. Typed'
  BY <1>2, <1>3 DEF IInv, Typed, TypeOK, frame, Ports
<1> QED
  BY <1>4 DEF IInv, Protocol, ReadByName, ReadByIndex, NoList, SessionClosed, WholeSnapshot,
              CountersOfPort,
              frame

\* The demo collector's snapshot has every port there may be.
LEMMA CollectDemoInv == IInv /\ CollectDemo => IInv'
<1> SUFFICES ASSUME IInv, CollectDemo PROVE IInv'
  OBVIOUS
<1> DEFINE made == {[name |-> n, octets |-> NULL] : n \in Port}
<1>1. /\ result' = Reached(made) /\ pc' = "idle" /\ fate' = "fine" /\ method' = "demo"
      /\ listed' = Nothing /\ counted' = Nothing /\ session' = FALSE /\ lost' = FALSE
      /\ moved' = FALSE /\ steady' = Ports(table) /\ table' = table /\ bare' = {}
  BY DEF CollectDemo, Start
<1>2. table \in [Index -> Port \cup {Vacant}]
  BY DEF IInv, Typed, TypeOK
<1>3. Ports(table) \subseteq Port /\ Ports(Nothing) = {} /\ DOMAIN Nothing = {}
  BY <1>2 DEF Ports, Nothing
<1>4. \A x \in made : x \in [name : Port, octets : Port \cup {NULL}] /\ x.octets = NULL
  OBVIOUS
<1>5. \A n \in Port : \E x \in made : x.name = n
  <2> SUFFICES ASSUME NEW n \in Port PROVE \E x \in made : x.name = n
    OBVIOUS
  <2>1. [name |-> n, octets |-> NULL] \in made
    OBVIOUS
  <2> HIDE DEF made
  <2> QED
    BY <2>1
<1> HIDE DEF made
<1>6. Reached(made) \in Snapshot /\ Reached(made).ports = made
  BY <1>4 DEF Reached, Snapshot
<1>7. Typed'
  BY <1>1, <1>2, <1>3, <1>6 DEF Typed, TypeOK, Methods, Fates
<1>8. Protocol' /\ ReadByName' /\ ReadByIndex' /\ SessionClosed'
  BY <1>1 DEF Protocol, ReadByName, ReadByIndex, SessionClosed, Walking, Requests
<1>9. WholeSnapshot' /\ CountersOfPort'
  BY <1>1, <1>3, <1>4, <1>5, <1>6 DEF WholeSnapshot, CountersOfPort
<1> QED
  BY <1>7, <1>8, <1>9 DEF IInv

\* A collection begins with nothing read and no session.
LEMMA CollectInv == IInv /\ Collect => IInv'
<1> SUFFICES ASSUME IInv, NEW m \in {"fos_rest", "snmp"}, Start(m),
                    pc' = IF m = "snmp" THEN "scalars" ELSE "login", fate' = "fine",
                    UNCHANGED result
             PROVE  IInv'
  BY DEF Collect
<1>1. /\ method' = m /\ listed' = Nothing /\ counted' = Nothing /\ session' = FALSE
      /\ lost' = FALSE /\ moved' = FALSE /\ steady' = Ports(table) /\ table' = table /\ bare' = {}
  BY DEF Start
<1>2. Ports(Nothing) = {} /\ DOMAIN Nothing = {}
  BY DEF Ports, Nothing
<1>3. Typed'
  BY <1>1, <1>2 DEF IInv, Typed, TypeOK, Methods, Fates, Requests, Walking
<1>4. Protocol' /\ ReadByName' /\ ReadByIndex'
  BY <1>1, <1>2 DEF Protocol, ReadByName, ReadByIndex, Walking, Requests
<1>5. pc' # "idle"
  OBVIOUS
<1> QED
  BY <1>3, <1>4, <1>5 DEF IInv, SessionClosed, WholeSnapshot, CountersOfPort

\* The session opens once the login is answered.
LEMMA LoginInv == IInv /\ Login => IInv'
<1> SUFFICES ASSUME IInv, Login PROVE IInv'
  OBVIOUS
<1>1. /\ pc = "login" /\ pc' = "switch_info" /\ session' = TRUE
      /\ UNCHANGED <<table, method, steady, moved, fate, listed, counted, bare, result, lost>>
  BY DEF Login, Keep
<1>2. Typed'
  BY <1>1 DEF IInv, Typed, TypeOK, Ports, Requests
<1> QED
  BY <1>1, <1>2 DEF IInv, Protocol, ReadByName, ReadByIndex, SessionClosed, WholeSnapshot,
                    CountersOfPort, Walking, Requests

\* A request answered goes on with what it listed or counted, by name.
LEMMA GetInv == IInv /\ Get => IInv'
<1> SUFFICES ASSUME IInv, Get PROVE IInv'
  OBVIOUS
<1> DEFINE named == [n \in Ports(table) |-> n]
<1>1. /\ pc \in Requests /\ pc' = Then(pc)
      /\ listed' \in {listed, named, Nothing} /\ counted' \in {counted, named, Nothing}
      /\ pc = "ports" => listed' = named \/ (listed' = Nothing /\ "ports" \in bare')
      /\ pc # "ports" => listed' = listed
      /\ bare \subseteq bare' /\ bare' \subseteq bare \cup Lists
      /\ UNCHANGED <<table, method, steady, moved, fate, session, result, lost>>
  BY DEF Get, Keep, Lists
<1>2. /\ pc' \in {"chassis", "ports", "statistics", "logout"}
      /\ pc' = "statistics" <=> pc = "ports"
      /\ pc' = "logout" <=> pc = "statistics"
  BY <1>1 DEF Then, Requests
<1>3. method = "fos_rest" /\ fate = "fine"
  BY <1>1 DEF IInv, Protocol, Requests
<1>4. /\ DOMAIN named = Ports(table) /\ \A n \in DOMAIN named : named[n] = n
      /\ Ports(table) \subseteq Port /\ Ports(named) \subseteq Port
      /\ DOMAIN Nothing = {} /\ Ports(Nothing) = {}
      /\ steady \subseteq DOMAIN named
  <2>1. Ports(table) \subseteq Port /\ steady \subseteq Ports(table)
    BY DEF IInv, Typed, TypeOK, Ports
  <2>2. DOMAIN named = Ports(table) /\ \A n \in DOMAIN named : named[n] = n
    OBVIOUS
  <2>3. Ports(named) \subseteq Ports(table)
    BY <2>2 DEF Ports
  <2>4. DOMAIN Nothing = {} /\ Ports(Nothing) = {}
    BY DEF Nothing, Ports
  <2> QED
    BY <2>1, <2>2, <2>3, <2>4
<1> HIDE DEF named
<1>5. Typed'
  <2>1. Ports(listed') \cup Ports(counted') \subseteq Port
    BY <1>1, <1>4 DEF IInv, Typed, TypeOK
  <2>2. /\ \A k \in DOMAIN listed' : listed'[k] \in Port
        /\ \A k \in DOMAIN counted' : counted'[k] \in Port
    BY <1>1, <1>4 DEF IInv, Typed
  <2>3. TypeOK'
    BY <1>1, <1>2, <2>1 DEF IInv, Typed, TypeOK, Requests, Ports
  <2> QED
    BY <1>1, <2>2, <2>3 DEF IInv, Typed
<1>6. Protocol'
  BY <1>1, <1>2, <1>3 DEF Protocol, Walking, Requests
<1>7. ReadByName'
  <2>1. /\ \A k \in DOMAIN listed' : listed'[k] = k
        /\ \A k \in DOMAIN counted' : counted'[k] = k
    BY <1>1, <1>3, <1>4 DEF IInv, ReadByName
  <2>2. pc' = "statistics" \/ pc' = "logout" =>
            steady' \subseteq DOMAIN listed' \/ NoList("ports")'
    BY <1>1, <1>2, <1>3, <1>4 DEF IInv, ReadByName, NoList
  <2> QED
    BY <2>1, <2>2 DEF ReadByName
<1> QED
  BY <1>1, <1>2, <1>3, <1>5, <1>6, <1>7
  DEF IInv, ReadByIndex, SessionClosed, WholeSnapshot, CountersOfPort

\* A request that fails goes on or goes to the logout.
LEMMA GetFailsInv == IInv /\ GetFails => IInv'
<1> SUFFICES ASSUME IInv, GetFails PROVE IInv'
  OBVIOUS
<1>1. /\ pc \in Requests
      /\ UNCHANGED <<table, method, steady, moved, listed, counted, bare, session, result, lost>>
      /\ \/ pc' = "logout" /\ fate' \in Fates \ {"fine"}
         \/ pc \in {"chassis", "statistics"} /\ pc' = Then(pc) /\ fate' = fate
  BY DEF GetFails, Keep, Fates, Tolerated
<1>2. method = "fos_rest" /\ fate = "fine"
  BY <1>1 DEF IInv, Protocol, Requests
<1>3. \/ pc' = "logout" /\ fate' \in Fates \ {"fine"}
      \/ pc = "chassis" /\ pc' = "ports" /\ fate' = fate
      \/ pc = "statistics" /\ pc' = "logout" /\ fate' = fate
  BY <1>1 DEF Then
<1>4. Typed'
  BY <1>1, <1>3 DEF IInv, Typed, TypeOK, Ports, Requests
<1>5. Protocol' /\ ReadByName'
  BY <1>1, <1>2, <1>3 DEF IInv, Protocol, ReadByName, NoList, Walking, Requests
<1> QED
  BY <1>1, <1>2, <1>3, <1>4, <1>5
  DEF IInv, ReadByIndex, SessionClosed, WholeSnapshot, CountersOfPort

\* Before the last, a walk lists the ports at their index or changes nothing.
LEMMA WalkInv == IInv /\ Walk => IInv'
<1> SUFFICES ASSUME IInv, Walk, pc # "out" PROVE IInv'
  BY EndsByIndex
<1>1. /\ pc \in Walking /\ pc' = After(pc) /\ counted' = counted
      /\ pc = "descr" => listed' = Filled \/ (listed' = Nothing /\ "descr" \in bare')
      /\ pc # "descr" => listed' = listed
      /\ bare \subseteq bare' /\ bare' \subseteq bare \cup Lists
      /\ UNCHANGED <<table, method, steady, moved, session, lost, fate, result>>
  BY DEF Walk, Keep, Lists
<1>2. /\ pc' \in {"descr", "oper", "speed", "in", "out"}
      /\ pc \in {"descr", "oper", "speed", "in"} \/ pc' = "descr"
  BY <1>1 DEF After, Walking
<1>3. method = "snmp" /\ ~session /\ fate = "fine"
  BY <1>1 DEF IInv, Protocol, Walking
<1>4. /\ DOMAIN Filled = {j \in Index : table[j] # Vacant}
      /\ \A i \in DOMAIN Filled : Filled[i] = table[i] /\ table[i] \in Port
      /\ Ports(Filled) \subseteq Port
      /\ Vacant \notin steady /\ DOMAIN Nothing = {} /\ Ports(Nothing) = {}
  BY DEF Filled, Nothing, IInv, Typed, TypeOK, Ports
<1>5. Typed'
  <2>1. Ports(listed') \subseteq Port /\ \A k \in DOMAIN listed' : listed'[k] \in Port
    BY <1>1, <1>4 DEF IInv, Typed, TypeOK, Ports
  <2>2. TypeOK'
    BY <1>1, <1>2, <2>1 DEF IInv, Typed, TypeOK, Walking, Ports
  <2> QED
    BY <1>1, <2>1, <2>2 DEF IInv, Typed
<1>6. Protocol' /\ ReadByName'
  BY <1>1, <1>2, <1>3 DEF Protocol, ReadByName, Walking, Requests
<1>7. ReadByIndex'
  <2>1. CASE pc = "descr"
    BY <1>1, <1>4, <2>1 DEF ReadByIndex, NoList
  <2>2. CASE pc # "descr"
    <3>1. pc \in {"scalars", "oper", "speed", "in"} /\ listed' = listed
      BY <1>1, <2>2 DEF Walking
    <3>2. pc' \in {"oper", "speed", "in", "out"} => pc \in {"oper", "speed", "in"}
      BY <1>2, <3>1
    <3> QED
      BY <1>1, <1>3, <3>1, <3>2 DEF IInv, ReadByIndex, NoList
  <2> QED
    BY <2>1, <2>2
<1> QED
  BY <1>1, <1>2, <1>5, <1>6, <1>7 DEF IInv, SessionClosed, WholeSnapshot, CountersOfPort

\* Every other end of a collection is one of the two above.
LEMMA EndsInv == IInv /\ (LoginFails \/ Logout \/ LogoutFails \/ WalkFails) => IInv'
<1> SUFFICES ASSUME IInv PROVE LoginFails \/ Logout \/ LogoutFails \/ WalkFails => IInv'
  OBVIOUS
<1>0. session \in BOOLEAN /\ lost \in BOOLEAN /\ fate \in Fates
  BY DEF IInv, Typed, TypeOK
<1>1. ASSUME LoginFails PROVE IInv'
  <2>1. PICK end \in {"HTTPError", "CancelledError"} : Return(end)
    BY <1>1 DEF LoginFails
  <2>2. end \in Fates \ {"fine"} /\ session' \in BOOLEAN /\ lost' = TRUE /\ Keep
        /\ UNCHANGED <<listed, counted, bare>>
    BY <1>1 DEF LoginFails, Fates
  <2> QED
    BY <2>1, <2>2, BreaksOff
<1>2. ASSUME WalkFails PROVE IInv'
  <2>1. PICK end \in {"RuntimeError", "CancelledError"} : Return(end)
    BY <1>2 DEF WalkFails
  <2>2. end \in Fates \ {"fine"} /\ session' = FALSE /\ lost' = lost /\ Keep
        /\ UNCHANGED <<listed, counted, bare>>
    BY <1>2 DEF WalkFails, Fates, IInv, Protocol
  <2> QED
    BY <1>0, <2>1, <2>2, BreaksOff
<1>3. ASSUME Logout PROVE IInv'
  <2>1. pc = "logout" /\ session' = FALSE /\ lost' = lost /\ Keep /\ Return(fate)
        /\ UNCHANGED <<listed, counted, bare>>
    BY <1>3 DEF Logout
  <2>2. CASE fate = "fine"
    BY <1>0, <2>1, <2>2, EndsByName
  <2>3. CASE fate # "fine"
    BY <1>0, <2>1, <2>3, BreaksOff
  <2> QED
    BY <2>2, <2>3
<1>4. ASSUME LogoutFails PROVE IInv'
  <2>1. PICK end \in {fate, "Exception", "CancelledError"} : Return(end)
    BY <1>4 DEF LogoutFails
  <2>2. pc = "logout" /\ session' \in BOOLEAN /\ lost' = TRUE /\ Keep
        /\ UNCHANGED <<listed, counted, bare>> /\ end \in Fates
    BY <1>0, <1>4, <2>1 DEF LogoutFails, Fates
  <2>3. CASE end = "fine"
    BY <2>1, <2>2, <2>3, EndsByName
  <2>4. CASE end # "fine"
    BY <2>1, <2>2, <2>4, BreaksOff
  <2> QED
    BY <2>3, <2>4
<1> QED
  BY <1>1, <1>2, <1>3, <1>4

\* Every step keeps the invariant.
LEMMA StepInv == IInv /\ [Next]_vars => IInv'
<1> SUFFICES ASSUME IInv, [Next]_vars PROVE IInv'
  OBVIOUS
<1>1. CASE UNCHANGED vars
  BY <1>1 DEF vars, frame, IInv, Typed, TypeOK, Protocol, ReadByName, ReadByIndex, NoList, SessionClosed,
              WholeSnapshot, CountersOfPort, Ports
<1>2. CASE Step
  BY <1>2, LoginInv, GetInv, GetFailsInv, WalkInv, EndsInv DEF Step
<1> QED
  BY <1>1, <1>2, CollectDemoInv, CollectInv, RewireInv, UnplugInv, RenumberInv DEF Next

\* collect(): the invariant holds in every reachable state.
THEOREM CollectorsInv == Spec => []IInv
<1> QED
  BY InitInv, StepInv, PTL DEF Spec

\* A poll ends without an open session unless the answer to the login or the logout was
\* lost, for interface tables of any size (FOSRestCollector.collect).
THEOREM SessionClosedAlways == Spec => [](TypeOK /\ SessionClosed)
<1>1. IInv => TypeOK /\ SessionClosed
  BY DEF IInv, Typed
<1> QED
  BY <1>1, CollectorsInv, PTL

\* A snapshot that says reachable is whole, or has no ports if the answer had no list of
\* them, whatever fails and whatever the device does meanwhile but renumber under SNMP
\* (fos_rest.py, snmp.py, collect()).
THEOREM SnapshotsWhole == Spec => []WholeSnapshot
<1>1. IInv => WholeSnapshot
  BY DEF IInv
<1> QED BY <1>1, CollectorsInv, PTL

\* The counters of a snapshot are those of the ports they stand beside, also when ports
\* come and go between the requests.
THEOREM SnapshotsOfPorts == Spec => []CountersOfPort
<1>1. IInv => CountersOfPort
  BY DEF IInv
<1> QED BY <1>1, CollectorsInv, PTL

-----------------------------------------------------------------------------
(* Utilisation: the arithmetic first, quotients, remainders, rounding. *)

\* What a quotient is, by multiplication.
LEMMA QuotientBounds ==
    ASSUME NEW x \in Nat, NEW d \in Nat \ {0}
    PROVE  /\ x \div d \in Nat
           /\ d * (x \div d) <= x
           /\ x < d * (x \div d) + d
OBVIOUS

\* A remainder is below the divisor and at most the dividend.
LEMMA ModAtMost ==
    ASSUME NEW x \in Nat, NEW d \in Nat \ {0}
    PROVE  x % d \in 0 .. d - 1 /\ x % d <= x
OBVIOUS

\* A larger dividend has no smaller quotient.
LEMMA QuotientMonotone ==
    ASSUME NEW x \in Nat, NEW y \in Nat, x <= y, NEW d \in Nat \ {0}
    PROVE  x \div d <= y \div d
<1> DEFINE p == x \div d
           q == y \div d
<1>1. /\ p \in Nat /\ q \in Nat /\ d * p <= x /\ y < d * q + d
  BY QuotientBounds
<1> HIDE DEF p, q
<1>2. ASSUME p > q PROVE FALSE
  <2>1. d * p >= d * (q + 1)
    BY <1>1, <1>2
  <2> QED
    BY <1>1, <2>1
<1> QED
  BY <1>1, <1>2 DEF p, q

\* Between two readings a counter never advances by more than was carried.
LEMMA ShownBounds ==
    ASSUME NEW width \in Nat \ {0}, NEW from \in 0 .. width - 1, NEW carried \in Nat, NEW since \in Nat
    PROVE  LET to == Shown(from, carried, since, width)
           IN  to \in Nat /\ to - from <= carried
<1>1. CASE since <= carried
  <2>1. since % width \in Nat /\ since % width <= since
    BY ModAtMost
  <2> QED
    BY <1>1, <2>1 DEF Shown
<1>2. CASE ~(since <= carried)
  <2> DEFINE n == from + carried
  <2>1. n \in Nat /\ n - from = carried
    OBVIOUS
  <2> HIDE DEF n
  <2>2. n % width \in Nat /\ n % width <= n
    BY <2>1, ModAtMost
  <2>3. Shown(from, carried, since, width) = n % width
    BY <1>2 DEF Shown, n
  <2>4. (n % width) - from <= carried
    BY <2>1, <2>2
  <2> QED
    BY <2>2, <2>3, <2>4
<1> QED
  BY <1>1, <1>2

\* Rounding keeps the order of what it rounds.
LEMMA TenthsMonotone ==
    ASSUME NEW x \in Nat, NEW y \in Nat, x <= y, NEW d \in Nat \ {0}
    PROVE  Tenths(x, d) \in Nat /\ Tenths(x, d) <= Tenths(y, d)
<1>1. 2000 * x + d \in Nat /\ 2000 * y + d \in Nat /\ 2 * d \in Nat \ {0}
  OBVIOUS
<1>2. 2000 * x + d <= 2000 * y + d
  OBVIOUS
<1> QED
  BY <1>1, <1>2, QuotientMonotone, QuotientBounds DEF Tenths

\* The line rate is 100 %, which is where the code clamps.
LEMMA TenthsOfWhole ==
    ASSUME NEW d \in Nat \ {0}
    PROVE  Tenths(d, d) = 1000
<1> DEFINE q == (2000 * d + d) \div (2 * d)
<1>1. q \in Nat /\ (2 * d) * q <= 2000 * d + d /\ 2000 * d + d < (2 * d) * q + 2 * d
  <2>1. 2000 * d + d \in Nat /\ 2 * d \in Nat \ {0}
    OBVIOUS
  <2> QED
    BY <2>1, QuotientBounds
<1> HIDE DEF q
<1>2. ASSUME q >= 1001 PROVE FALSE
  <2>1. (2 * d) * q >= (2 * d) * 1001
    BY <1>1, <1>2
  <2> QED
    BY <1>1, <2>1
<1>3. ASSUME q <= 999 PROVE FALSE
  <2>1. (2 * d) * q <= (2 * d) * 999
    BY <1>1, <1>3
  <2> QED
    BY <1>1, <2>1
<1> QED
  BY <1>1, <1>2, <1>3 DEF q, Tenths

\* bandwidth_util_pct() and its caller report no more than was carried, whatever the
\* counter's width and whether it went on, wrapped or was reset.
THEOREM UtilisationEarned ==
    ASSUME NEW width \in Nat \ {0}, NEW from \in 0 .. width - 1, NEW carried \in Nat,
           NEW since \in Nat, NEW t \in Int, NEW speed \in Nat \cup {NULL}
    PROVE  Earned(from, carried, since, width, t, speed)
<1> DEFINE to == Shown(from, carried, since, width)
           d == t * speed * Capacity
           util == bandwidth_util_pct(to - from, t, speed)
<1>1. to \in Nat /\ to - from <= carried
  BY ShownBounds
<1>2. NULL \notin Int /\ Capacity \in Nat \ {0}
  BY UtilisationAssumption
<1> HIDE DEF to
<1>3. to # NULL /\ from # NULL /\ t - 0 = t
  BY <1>1, <1>2
<1>4. ASSUME speed \in Nat \ {0}, t > 0, to >= from
      PROVE  /\ util \in 0 .. 1000
             /\ util <= Tenths(carried, d)
  <2> DEFINE x == to - from
  <2>1. d \in Nat \ {0} /\ x \in Nat /\ x <= carried
    BY <1>1, <1>2, <1>4
  <2>2. util = IF x > d THEN 1000 ELSE Tenths(x, d)
    <3>1. speed # NULL /\ ~(speed <= 0) /\ ~(t <= 0) /\ ~(x < 0)
      BY <1>1, <1>2, <1>4
    <3> QED
      BY <3>1 DEF bandwidth_util_pct
  <2> HIDE DEF x, d, util
  <2>3. CASE x > d
    <3>1. d <= carried
      BY <2>1, <2>3
    <3>2. Tenths(d, d) <= Tenths(carried, d)
      BY <2>1, <3>1, TenthsMonotone
    <3> QED
      BY <2>1, <2>2, <2>3, <3>2, TenthsOfWhole
  <2>4. CASE ~(x > d)
    <3>1. x <= d
      BY <2>1, <2>4
    <3>2. Tenths(x, d) \in Nat /\ Tenths(x, d) <= Tenths(d, d)
      BY <2>1, <3>1, TenthsMonotone
    <3>3. Tenths(x, d) <= Tenths(carried, d)
      BY <2>1, TenthsMonotone
    <3> QED
      BY <2>1, <2>2, <2>4, <3>2, <3>3, TenthsOfWhole
  <2> QED
    BY <2>3, <2>4
<1>5. ASSUME port_util([octets |-> to, ts |-> t], [octets |-> from, ts |-> 0], speed) # NULL
      PROVE  /\ speed \in Nat \ {0} /\ speed # NULL /\ t > 0 /\ to >= from
             /\ port_util([octets |-> to, ts |-> t], [octets |-> from, ts |-> 0], speed) = util
  <2>1. speed # NULL /\ speed # 0 /\ speed \in Nat \ {0}
    BY <1>5 DEF port_util
  <2>2. port_util([octets |-> to, ts |-> t], [octets |-> from, ts |-> 0], speed) = util
    BY <1>3, <1>5, <2>1 DEF port_util
  <2>3. t > 0 /\ to >= from
    <3>1. ~(t <= 0) /\ ~(to - from < 0)
      BY <1>5, <2>2, <2>1 DEF bandwidth_util_pct
    <3> QED
      BY <1>1, <3>1
  <2> QED
    BY <2>1, <2>2, <2>3
<1> HIDE DEF util, d
<1>6. Earned(from, carried, since, width, t, speed)
      <=> (port_util([octets |-> to, ts |-> t], [octets |-> from, ts |-> 0], speed) # NULL
           => /\ speed # NULL /\ t > 0 /\ to >= from
              /\ port_util([octets |-> to, ts |-> t], [octets |-> from, ts |-> 0], speed) \in 0 .. 1000
              /\ port_util([octets |-> to, ts |-> t], [octets |-> from, ts |-> 0], speed)
                     <= Tenths(carried, d))
  BY DEF Earned, to, d
<1> QED
  BY <1>4, <1>5, <1>6
=============================================================================
