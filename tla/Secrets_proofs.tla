--------------------------- MODULE Secrets_proofs ---------------------------
(***************************************************************************)
(* Theorems about passwords at rest, for any number of threads, rows and   *)
(* keys: the types (TypeOK), that a password comes back as it was entered  *)
(* (RoundTrip) and that a process started later can read it                *)
(* (OpensAfterRestart), but for what a process sealed in which two threads *)
(* generated a key each.                                                   *)
(***************************************************************************)
EXTENDS Secrets, TLAPS

\* What is stored for a row stands for what was typed.
StoredIsTyped ==
    \A s \in SwitchId :
        /\ stored[s] = NULL <=> typed[s] = NULL
        /\ stored[s] \in Text => stored[s] = typed[s]
        /\ stored[s] \in Sealed => stored[s].text = typed[s]

WithKey == {"load", "check", "read", "open", "write", "assign", "use"}

\* What a call has in hand at each of its steps.
Held(t) ==
    /\ th[t].pc # "idle" => th[t].s \in SwitchId /\ th[t].text \in Text /\ th[t].op # "none"
    /\ th[t].pc \in WithKey /\ th[t].op = "resolve" =>
           /\ th[t].value \in Sealed /\ th[t].value.text = th[t].text
           /\ th[t].by = th[t].value.by
    /\ th[t].pc \in {"open", "write", "assign"} => th[t].key \in AnyKey
    /\ th[t].pc = "read" => file # Absent
    /\ th[t].pc = "use" => fernet # NULL
    /\ th[t].pc = "save" => th[t].value \in Sealed /\ th[t].value.text = th[t].text
    /\ th[t].pc \in {"done"} => th[t].op = "resolve"

BaseInv == TypeOK /\ StoredIsTyped /\ \A t \in Thread : Held(t)

\* The key of this and of every later process.
Current == IF env # NULL THEN env ELSE file

\* Sealed by a process in which one thread created the key: with that key.
SealedWell(value) == value \in Sealed /\ value.by = "one" => value.key = Current

Creating(t) == th[t].pc \in {"open", "write"}

\* While no two threads have generated keys, the one that has is alone with the file.
AloneKeyed(t) ==
    /\ th[t].pc = "assign" => th[t].key = Current
    /\ th[t].pc = "open" => file = Absent
    /\ th[t].pc = "write" => file = Empty
    /\ \A u \in Thread : Creating(t) /\ Creating(u) => t = u

\* A process with two creators starts with no key, so nothing was sealed before.
NoneOfOne(value) == value \in Sealed => value.by = "two"

Keyed(t) ==
    /\ SealedWell(th[t].value)
    /\ env # NULL => th[t].pc \notin {"check", "read", "open", "write"}
    /\ creators = "one" => AloneKeyed(t)
    /\ creators = "two" => NoneOfOne(th[t].value)
    /\ th[t].pc = "done" /\ th[t].text.form = "plain" /\ th[t].by = "one" =>
           th[t].value = th[t].text

KeyInv == /\ creators = "one" /\ fernet # NULL => fernet = Current
          /\ creators = "two" => env = NULL /\ \A s \in SwitchId : NoneOfOne(stored[s])
          /\ \A s \in SwitchId : SealedWell(stored[s])
          /\ \A t \in Thread : Keyed(t)

-----------------------------------------------------------------------------
(* Types *)

LEMMA Forms ==
    /\ \A x \in Text : x \notin Sealed /\ x.form \in {"plain", "vault"} /\ x # NULL
    /\ \A x \in Sealed : x.form = "enc" /\ x # NULL /\ x.text \in Text
    /\ \A x \in Sealed : x.key \in AnyKey /\ x.by \in Creators
    /\ \A x \in Fetched : x \notin Sealed /\ x.form = "plain"
    /\ NULL \notin Sealed
    /\ NULL \notin AnyKey /\ Absent \notin AnyKey /\ Empty \notin AnyKey
    /\ Key \subseteq AnyKey
BY SecretsAssumption DEF Text, Sealed, Fetched, AnyKey

LEMMA CreatorsAre == Creators = {"one", "two"} /\ "one" \in Creators /\ "one" # "two"
BY DEF Creators

LEMMA NoCallTyped == NoCall \in Call /\ NoCall.pc = "idle" /\ NoCall.value = NULL
BY DEF NoCall, Call, Location, Creators

LEMMA InitBase == Init => BaseInv
<1> SUFFICES ASSUME Init PROVE BaseInv
  OBVIOUS
<1>1. TypeOK
  <2>1. th \in [Thread -> Call]
    BY NoCallTyped DEF Init
  <2>2. stored \in [SwitchId -> Text \cup Sealed \cup {NULL}]
    BY DEF Init
  <2> QED BY <2>1, <2>2, CreatorsAre, SecretsAssumption DEF Init, TypeOK
<1>2. StoredIsTyped
  BY Forms DEF Init, StoredIsTyped
<1>3. \A t \in Thread : Held(t)
  BY NoCallTyped DEF Init, Held, WithKey
<1> QED BY <1>1, <1>2, <1>3 DEF BaseInv

\* A step of one thread that keeps rows, key file and global in their types.
LEMMA OneMoves ==
    ASSUME BaseInv, NEW t \in Thread, NEW f \in Call, th' = [th EXCEPT ![t] = f],
           env' = env, file' \in AnyKey \cup {Absent, Empty}, fernet' \in AnyKey \cup {NULL},
           stored' \in [SwitchId -> Text \cup Sealed \cup {NULL}],
           typed' \in [SwitchId -> Text \cup {NULL}],
           keys' \in 0 .. MaxKeys, creators' \in Creators, lock' \in Thread \cup {NULL},
           StoredIsTyped',
           file # Absent => file' # Absent, fernet # NULL => fernet' # NULL,
           Held(t)'
    PROVE  BaseInv'
<1>1. th' \in [Thread -> Call]
  BY DEF BaseInv, TypeOK
<1>2. TypeOK'
  BY <1>1 DEF BaseInv, TypeOK
<1>3. ASSUME NEW u \in Thread PROVE Held(u)'
  <2>1. CASE u = t
    BY <2>1
  <2>2. CASE u # t
    <3>1. th'[u] = th[u] /\ Held(u)
      BY <2>2 DEF BaseInv, TypeOK
    <3> QED BY <3>1 DEF Held
  <2> QED BY <2>1, <2>2
<1> QED BY <1>2, <1>3 DEF BaseInv

\* ... when it changes the frame only.
LEMMA FrameMoves ==
    ASSUME BaseInv, NEW t \in Thread, NEW f \in Call, th' = [th EXCEPT ![t] = f],
           UNCHANGED <<env, file, fernet, stored, typed, keys, creators>>, lock' \in Thread \cup {NULL},
           Held(t)'
    PROVE  BaseInv'
<1>1. StoredIsTyped'
  BY DEF BaseInv, StoredIsTyped
<1> QED BY <1>1, OneMoves DEF BaseInv, TypeOK

\* Facts of a frame before its step.
LEMMA FrameBefore ==
    ASSUME BaseInv, NEW t \in Thread
    PROVE  /\ th[t] \in Call /\ Held(t) /\ TypeOK /\ StoredIsTyped
           /\ th[t].text \in Text \cup {NULL} /\ th[t].key \in AnyKey \cup {NULL}
BY DEF BaseInv, TypeOK, Call

LEMMA CreateBase ==
    ASSUME BaseInv, NEW t \in Thread, NEW s \in SwitchId, create_switch(t, s)
    PROVE  BaseInv'
<1>1. PICK text \in Text :
          /\ lock' = t
          /\ th' = [th EXCEPT ![t] = [NoCall EXCEPT !.pc = "load", !.op = "create",
                                                   !.s = s, !.text = text]]
          /\ UNCHANGED <<env, file, fernet, stored, typed, keys, creators>>
  BY DEF create_switch
<1> DEFINE f == [NoCall EXCEPT !.pc = "load", !.op = "create", !.s = s, !.text = text]
<1>2. f \in Call /\ f.pc = "load" /\ f.op = "create" /\ f.s = s /\ f.text = text
  BY DEF NoCall, Call, Location, Creators
<1>3. th' = [th EXCEPT ![t] = f]
  BY <1>1
<1> HIDE DEF f
<1>4. th'[t] = f
  BY <1>3 DEF BaseInv, TypeOK
<1>5. Held(t)'
  BY <1>2, <1>4 DEF Held
<1> QED BY <1>1, <1>2, <1>3, <1>5, FrameMoves

LEMMA UpdateBase ==
    ASSUME BaseInv, NEW t \in Thread, NEW s \in SwitchId, update_switch(t, s)
    PROVE  BaseInv'
<1>1. PICK text \in Text :
          /\ th' = [th EXCEPT ![t] = [NoCall EXCEPT !.pc = "load", !.op = "update",
                                                   !.s = s, !.text = text]]
          /\ UNCHANGED <<env, file, fernet, stored, typed, keys, creators, lock>>
  BY DEF update_switch
<1> DEFINE f == [NoCall EXCEPT !.pc = "load", !.op = "update", !.s = s, !.text = text]
<1>2. f \in Call /\ f.pc = "load" /\ f.op = "update" /\ f.s = s /\ f.text = text
  BY DEF NoCall, Call, Location, Creators
<1>3. th' = [th EXCEPT ![t] = f]
  BY <1>1
<1> HIDE DEF f
<1>4. th'[t] = f
  BY <1>3 DEF BaseInv, TypeOK
<1>5. Held(t)'
  BY <1>2, <1>4 DEF Held
<1> QED BY <1>1, <1>2, <1>3, <1>5, FrameMoves DEF BaseInv, TypeOK

LEMMA UnsealedTyped ==
    ASSUME NEW x \in Text
    PROVE  /\ Unsealed(x) \in Text \cup Fetched
           /\ x.form = "plain" => Unsealed(x) = x
           /\ Unsealed(x) \notin Sealed
<1>1. CASE x.form = "vault"
  <2>1. x \in [form : {"vault"}, body : Field]
    BY <1>1 DEF Text
  <2>2. Unsealed(x) = [form |-> "plain", body |-> x.body] /\ x.body \in Field
    BY <1>1, <2>1 DEF Unsealed
  <2>3. Unsealed(x) \in Fetched
    BY <2>2 DEF Fetched
  <2> QED BY <1>1, <2>3, Forms
<1>2. CASE x.form # "vault"
  BY <1>2, Forms DEF Unsealed
<1> QED BY <1>1, <1>2

LEMMA ResolveBase ==
    ASSUME BaseInv, NEW t \in Thread, NEW s \in SwitchId, resolve_password(t, s)
    PROVE  BaseInv'
<1> DEFINE pc == IF stored[s].form = "enc" THEN "load" ELSE "done"
           value == IF stored[s].form = "enc" THEN stored[s] ELSE Unsealed(stored[s])
           by == IF stored[s].form = "enc" THEN stored[s].by ELSE "one"
           f == [NoCall EXCEPT !.op = "resolve", !.s = s, !.text = typed[s],
                               !.pc = pc, !.value = value, !.by = by]
<1>1. th' = [th EXCEPT ![t] = f] /\ UNCHANGED <<env, file, fernet, stored, typed, keys, creators, lock>>
  BY DEF resolve_password
<1>2. stored[s] \in Text \cup Sealed /\ typed[s] \in Text
  BY DEF resolve_password, BaseInv, TypeOK, StoredIsTyped
<1>3. /\ value \in Text \cup Fetched \cup Sealed
      /\ pc = "load" => value \in Sealed /\ value.text = typed[s] /\ by = value.by
      /\ by \in Creators
      /\ pc \in {"load", "done"}
  <2>1. CASE stored[s] \in Sealed
    BY <2>1, Forms DEF BaseInv, StoredIsTyped
  <2>2. CASE stored[s] \in Text
    BY <2>2, Forms, UnsealedTyped, CreatorsAre
  <2> QED BY <1>2, <2>1, <2>2
<1> HIDE DEF pc, value, by
<1>4. f \in Call /\ f.pc = pc /\ f.op = "resolve" /\ f.s = s /\ f.text = typed[s]
      /\ f.value = value /\ f.by = by
  BY <1>2, <1>3 DEF NoCall, Call, Location, Creators
<1> HIDE DEF f
<1>5. th'[t] = f
  BY <1>1 DEF BaseInv, TypeOK
<1>6. Held(t)'
  BY <1>2, <1>3, <1>4, <1>5 DEF Held, WithKey
<1> QED BY <1>1, <1>4, <1>6, FrameMoves DEF BaseInv, TypeOK

LEMMA ReturnBase ==
    ASSUME BaseInv, NEW t \in Thread, Return(t)
    PROVE  BaseInv'
<1>1. th'[t] = NoCall
  BY DEF Return, BaseInv, TypeOK
<1>2. Held(t)'
  BY <1>1, NoCallTyped DEF Held, WithKey
<1> QED BY <1>2, NoCallTyped, FrameMoves DEF Return, BaseInv, TypeOK

\* Goes and GoesWith as one new frame of one thread.
LEMMA GoesIsStep ==
    ASSUME BaseInv, NEW t \in Thread, NEW pc, Goes(t, pc)
    PROVE  th' = [th EXCEPT ![t] = [th[t] EXCEPT !.pc = pc, !.key = th[t].key]]
BY FrameBefore DEF Goes, Call, BaseInv, TypeOK

LEMMA GoesWithIsStep ==
    ASSUME BaseInv, NEW t \in Thread, NEW pc, NEW key, GoesWith(t, pc, key)
    PROVE  th' = [th EXCEPT ![t] = [th[t] EXCEPT !.pc = pc, !.key = key]]
BY FrameBefore DEF GoesWith, Call, BaseInv, TypeOK

\* A step on the way to the key keeps rows and what is in hand.
LEMMA OnTheWay ==
    ASSUME BaseInv, NEW t \in Thread, NEW pc \in WithKey, NEW key \in AnyKey \cup {NULL},
           th[t].pc \in WithKey, UNCHANGED <<env, stored, typed, lock>>,
           th' = [th EXCEPT ![t] = [th[t] EXCEPT !.pc = pc, !.key = key]],
           file' \in AnyKey \cup {Absent, Empty}, fernet' \in AnyKey \cup {NULL},
           keys' \in 0 .. MaxKeys, creators' \in Creators,
           file # Absent => file' # Absent, fernet # NULL => fernet' # NULL,
           pc \in {"open", "write", "assign"} => key \in AnyKey,
           pc = "read" => file' # Absent, pc = "use" => fernet' # NULL
    PROVE  BaseInv'
<1> DEFINE f == [th[t] EXCEPT !.pc = pc, !.key = key]
<1>1. pc \in Location
  BY DEF WithKey, Location
<1>2. /\ f \in Call /\ f.pc = pc /\ f.key = key /\ f.op = th[t].op
      /\ f.s = th[t].s /\ f.text = th[t].text /\ f.value = th[t].value /\ f.by = th[t].by
  BY <1>1, FrameBefore DEF Call
<1>3. th' = [th EXCEPT ![t] = f]
  OBVIOUS
<1> HIDE DEF f
<1>4. th'[t] = f
  BY <1>3 DEF BaseInv, TypeOK
<1>5. Held(t)
  BY FrameBefore
<1>6. Held(t)'
  BY <1>2, <1>4, <1>5 DEF Held, WithKey
<1>7. StoredIsTyped'
  BY DEF BaseInv, StoredIsTyped
<1> QED BY <1>2, <1>3, <1>6, <1>7, OneMoves DEF BaseInv, TypeOK

LEMMA LoadBase ==
    ASSUME BaseInv, NEW t \in Thread, Load(t)
    PROVE  BaseInv'
<1> USE DEF Load
<1>0. th[t].pc \in WithKey /\ th[t].key \in AnyKey \cup {NULL} /\ TypeOK
  BY FrameBefore DEF WithKey
<1>1. CASE fernet # NULL
  <2>1. th' = [th EXCEPT ![t] = [th[t] EXCEPT !.pc = "use", !.key = th[t].key]]
    BY <1>1, GoesIsStep
  <2> QED BY <1>0, <1>1, <2>1, OnTheWay DEF TypeOK, WithKey
<1>2. CASE fernet = NULL /\ env # NULL
  <2>1. th' = [th EXCEPT ![t] = [th[t] EXCEPT !.pc = "assign", !.key = env]]
    BY <1>2, GoesWithIsStep
  <2>2. env \in AnyKey
    BY <1>0, <1>2 DEF TypeOK, AnyKey
  <2> QED BY <1>0, <1>2, <2>1, <2>2, OnTheWay DEF TypeOK, WithKey
<1>3. CASE fernet = NULL /\ env = NULL
  <2>1. th' = [th EXCEPT ![t] = [th[t] EXCEPT !.pc = "check", !.key = th[t].key]]
    BY <1>3, GoesIsStep
  <2> QED BY <1>0, <1>3, <2>1, OnTheWay DEF TypeOK, WithKey
<1> QED BY <1>1, <1>2, <1>3

LEMMA CheckBase ==
    ASSUME BaseInv, NEW t \in Thread, Check(t)
    PROVE  BaseInv'
<1> USE DEF Check
<1>0. th[t].pc \in WithKey /\ th[t].key \in AnyKey \cup {NULL} /\ TypeOK
  BY FrameBefore DEF WithKey
<1>1. CASE file = Absent
  <2>1. th' = [th EXCEPT ![t] = [th[t] EXCEPT !.pc = "open", !.key = keys']]
    BY <1>1, FrameBefore DEF GoesWith, Call, BaseInv, TypeOK
  <2>2. keys' \in 0 .. MaxKeys /\ keys' \in Key
    BY <1>0, <1>1, SecretsAssumption DEF TypeOK, Key
  <2>3. keys' \in AnyKey
    BY <2>2, Forms
  <2>4. creators' \in Creators
    BY <1>0, <1>1 DEF TypeOK, Creators
  <2> QED BY <1>0, <1>1, <2>1, <2>2, <2>3, <2>4, OnTheWay DEF TypeOK, WithKey
<1>2. CASE file # Absent
  <2>1. th' = [th EXCEPT ![t] = [th[t] EXCEPT !.pc = "read", !.key = th[t].key]]
    BY <1>2, GoesIsStep
  <2> QED BY <1>0, <1>2, <2>1, OnTheWay DEF TypeOK, WithKey
<1> QED BY <1>1, <1>2

LEMMA ReadBase ==
    ASSUME BaseInv, NEW t \in Thread, Read(t)
    PROVE  BaseInv'
<1> USE DEF Read
<1>0. th[t].pc \in WithKey /\ TypeOK /\ Held(t)
  BY FrameBefore DEF WithKey
<1>1. CASE file = Empty
  <2>1. th'[t] = NoCall
    BY <1>1 DEF BaseInv, TypeOK
  <2>2. Held(t)'
    BY <2>1, NoCallTyped DEF Held, WithKey
  <2>3. lock' \in Thread \cup {NULL}
    BY <1>0, <1>1 DEF Unlock, TypeOK
  <2> QED BY <1>1, <2>2, <2>3, NoCallTyped, FrameMoves
<1>2. CASE file # Empty
  <2>1. th' = [th EXCEPT ![t] = [th[t] EXCEPT !.pc = "assign", !.key = file]]
    BY <1>2, GoesWithIsStep
  <2>2. file \in AnyKey
    BY <1>0, <1>2 DEF TypeOK, Held
  <2> QED BY <1>0, <1>2, <2>1, <2>2, OnTheWay DEF TypeOK, WithKey
<1> QED BY <1>1, <1>2

LEMMA OpenBase ==
    ASSUME BaseInv, NEW t \in Thread, Open(t)
    PROVE  BaseInv'
<1> USE DEF Open
<1>0. th[t].pc \in WithKey /\ TypeOK /\ th[t].key \in AnyKey
  BY FrameBefore DEF WithKey, Held
<1>1. th' = [th EXCEPT ![t] = [th[t] EXCEPT !.pc = "write", !.key = th[t].key]]
  BY GoesIsStep
<1> QED BY <1>0, <1>1, OnTheWay, SecretsAssumption DEF TypeOK, WithKey

LEMMA WriteBase ==
    ASSUME BaseInv, NEW t \in Thread, Write(t)
    PROVE  BaseInv'
<1> USE DEF Write
<1>0. th[t].pc \in WithKey /\ TypeOK /\ th[t].key \in AnyKey
  BY FrameBefore DEF WithKey, Held
<1>1. th' = [th EXCEPT ![t] = [th[t] EXCEPT !.pc = "assign", !.key = th[t].key]]
  BY GoesIsStep
<1>2. file' \in AnyKey /\ file' # Absent
  BY <1>0, Forms
<1> QED BY <1>0, <1>1, <1>2, OnTheWay DEF TypeOK, WithKey

LEMMA AssignBase ==
    ASSUME BaseInv, NEW t \in Thread, Assign(t)
    PROVE  BaseInv'
<1> USE DEF Assign
<1>0. th[t].pc \in WithKey /\ TypeOK /\ th[t].key \in AnyKey
  BY FrameBefore DEF WithKey, Held
<1>1. th' = [th EXCEPT ![t] = [th[t] EXCEPT !.pc = "use", !.key = th[t].key]]
  BY GoesIsStep
<1>2. fernet' \in AnyKey /\ fernet' # NULL
  BY <1>0, Forms
<1> QED BY <1>0, <1>1, <1>2, OnTheWay DEF TypeOK, WithKey

LEMMA UseBase ==
    ASSUME BaseInv, NEW t \in Thread, Use(t)
    PROVE  BaseInv'
<1> USE DEF Use
<1>0. /\ th[t] \in Call /\ TypeOK /\ Held(t) /\ th[t].pc \in WithKey
      /\ fernet \in AnyKey /\ th[t].text \in Text /\ th[t].s \in SwitchId
  BY FrameBefore DEF Held, WithKey, TypeOK
<1>1. CASE th[t].op = "resolve"
  <2> DEFINE v == IF th[t].value.key = fernet THEN th[t].value.text ELSE NULL
             f == [th[t] EXCEPT !.pc = "done", !.key = NULL, !.value = v]
  <2>1. v \in Text \cup {NULL}
    BY <1>0, <1>1 DEF Held
  <2>2. th' = [th EXCEPT ![t] = f]
    BY <1>1
  <2> HIDE DEF v
  <2>3. /\ f \in Call /\ f.pc = "done" /\ f.op = th[t].op /\ f.s = th[t].s
        /\ f.text = th[t].text /\ f.value = v
    BY <1>0, <2>1 DEF Call, Location
  <2> HIDE DEF f
  <2>4. th'[t] = f
    BY <2>2 DEF BaseInv, TypeOK
  <2>5. Held(t)'
    BY <1>0, <1>1, <2>3, <2>4 DEF Held, WithKey
  <2> QED BY <1>0, <2>2, <2>3, <2>5, FrameMoves DEF TypeOK
<1>2. CASE th[t].op # "resolve"
  <2> DEFINE v == [form |-> "enc", key |-> fernet, text |-> th[t].text, by |-> creators]
             f == [th[t] EXCEPT !.pc = "save", !.key = NULL, !.value = v]
  <2>1. v \in Sealed /\ v.text = th[t].text
    BY <1>0 DEF Sealed, TypeOK
  <2>2. th' = [th EXCEPT ![t] = f]
    BY <1>2
  <2> HIDE DEF v
  <2>3. /\ f \in Call /\ f.pc = "save" /\ f.op = th[t].op /\ f.s = th[t].s
        /\ f.text = th[t].text /\ f.value = v
    BY <1>0, <2>1 DEF Call, Location
  <2> HIDE DEF f
  <2>4. th'[t] = f
    BY <2>2 DEF BaseInv, TypeOK
  <2>5. Held(t)'
    BY <1>0, <1>2, <2>1, <2>3, <2>4 DEF Held, WithKey
  <2> QED BY <1>0, <2>2, <2>3, <2>5, FrameMoves DEF TypeOK
<1> QED BY <1>1, <1>2

LEMMA SaveBase ==
    ASSUME BaseInv, NEW t \in Thread, Save(t)
    PROVE  BaseInv'
<1> USE DEF Save
<1>0. /\ TypeOK /\ StoredIsTyped /\ th[t].value \in Sealed
      /\ th[t].value.text = th[t].text /\ th[t].text \in Text /\ th[t].s \in SwitchId
  BY FrameBefore DEF Held
<1>1. /\ stored' \in [SwitchId -> Text \cup Sealed \cup {NULL}]
      /\ typed' \in [SwitchId -> Text \cup {NULL}]
  BY <1>0 DEF TypeOK
<1>2. StoredIsTyped'
  <2> SUFFICES ASSUME NEW s \in SwitchId
               PROVE  /\ stored'[s] = NULL <=> typed'[s] = NULL
                      /\ stored'[s] \in Text => stored'[s] = typed'[s]
                      /\ stored'[s] \in Sealed => stored'[s].text = typed'[s]
    BY DEF StoredIsTyped
  <2>1. CASE s = th[t].s
    <3>1. stored'[s] = th[t].value /\ typed'[s] = th[t].text
      BY <1>0, <2>1 DEF TypeOK
    <3> QED BY <1>0, <3>1, Forms
  <2>2. CASE s # th[t].s
    <3>1. stored'[s] = stored[s] /\ typed'[s] = typed[s]
      BY <1>0, <2>2 DEF TypeOK
    <3> QED BY <1>0, <3>1 DEF StoredIsTyped
  <2> QED BY <2>1, <2>2
<1>3. th'[t] = NoCall
  BY <1>0 DEF TypeOK
<1>4. Held(t)'
  BY <1>3, NoCallTyped DEF Held, WithKey
<1> QED BY <1>0, <1>1, <1>2, <1>4, NoCallTyped, OneMoves DEF TypeOK

LEMMA CrashBase ==
    ASSUME BaseInv, Crash
    PROVE  BaseInv'
<1> USE DEF Crash
<1>1. th' \in [Thread -> Call] /\ \A t \in Thread : th'[t] = NoCall
  BY NoCallTyped
<1>2. TypeOK'
  BY <1>1, CreatorsAre DEF BaseInv, TypeOK
<1>3. StoredIsTyped'
  BY DEF BaseInv, StoredIsTyped
<1>4. \A t \in Thread : Held(t)'
  BY <1>1, NoCallTyped DEF Held, WithKey
<1> QED BY <1>2, <1>3, <1>4 DEF BaseInv

LEMMA StepBase == BaseInv /\ [Next]_vars => BaseInv'
<1> SUFFICES ASSUME BaseInv, [Next]_vars PROVE BaseInv'
  OBVIOUS
<1>1. ASSUME NEW t \in Thread, NEW s \in SwitchId,
             create_switch(t, s) \/ update_switch(t, s) \/ resolve_password(t, s)
      PROVE  BaseInv'
  BY <1>1, CreateBase, UpdateBase, ResolveBase
<1>2. ASSUME NEW t \in Thread,
             \/ Load(t) \/ Check(t) \/ Read(t) \/ Open(t) \/ Write(t)
             \/ Assign(t) \/ Use(t) \/ Save(t) \/ Return(t)
      PROVE  BaseInv'
  BY <1>2, LoadBase, CheckBase, ReadBase, OpenBase, WriteBase, AssignBase, UseBase, SaveBase,
     ReturnBase
<1>3. CASE UNCHANGED vars
  BY <1>3 DEF vars, BaseInv, TypeOK, StoredIsTyped, Held
<1> QED BY <1>1, <1>2, <1>3, CrashBase DEF Next

\* Rows, key file, global and frames stay in their types, whoever creates the key and however
\* many threads do (crypto.py, secrets.py and the password columns of repository.py).
THEOREM SecretsType == Spec => []TypeOK
<1>1. BaseInv => TypeOK
  BY DEF BaseInv
<1> QED BY InitBase, StepBase, <1>1, PTL DEF Spec

-----------------------------------------------------------------------------
(* Keys: no password is lost that a process with one creator sealed. *)

LEMMA InitKey == Init => KeyInv
<1> SUFFICES ASSUME Init PROVE KeyInv
  OBVIOUS
<1>1. \A s \in SwitchId : SealedWell(stored[s])
  BY Forms DEF Init, SealedWell
<1>2. \A t \in Thread : Keyed(t)
  BY NoCallTyped, Forms, CreatorsAre DEF Init, Keyed, AloneKeyed, SealedWell, Creating
<1> QED BY <1>1, <1>2, CreatorsAre DEF Init, KeyInv

\* While there is no key, nothing is sealed.
LEMMA NothingSealed ==
    ASSUME BaseInv, KeyInv,
           creators = "one" => env = NULL /\ fernet \in AnyKey \cup {NULL} /\ file \in {Absent, Empty}
    PROVE  /\ \A s \in SwitchId : NoneOfOne(stored[s])
           /\ \A t \in Thread : NoneOfOne(th[t].value)
           /\ creators = "one" => fernet = NULL /\ \A t \in Thread : th[t].pc # "assign"
<1>1. creators \in Creators
  BY DEF BaseInv, TypeOK
<1>2. CASE creators = "two"
  BY <1>2, CreatorsAre DEF KeyInv, Keyed
<1>3. CASE creators = "one"
  <2>1. Current \in {Absent, Empty} /\ Current \notin AnyKey
    BY <1>3, Forms DEF Current
  <2>2. \A x \in Sealed : x.by \in Creators /\ x.key \in AnyKey
    BY Forms
  <2>3. \A s \in SwitchId : NoneOfOne(stored[s])
    BY <2>1, <2>2, CreatorsAre DEF KeyInv, SealedWell, NoneOfOne
  <2>4. \A t \in Thread : NoneOfOne(th[t].value)
    BY <2>1, <2>2, CreatorsAre DEF KeyInv, Keyed, SealedWell, NoneOfOne
  <2>5. \A t \in Thread : th[t].pc # "assign"
    BY <1>3, <2>1 DEF BaseInv, Held, KeyInv, Keyed, AloneKeyed
  <2> QED BY <1>3, <2>1, <2>3, <2>4, <2>5 DEF KeyInv
<1> QED BY <1>1, <1>2, <1>3, CreatorsAre

\* A step of one thread that leaves the key file alone and has no generated key in hand.
LEMMA OneKeyed ==
    ASSUME BaseInv, KeyInv, NEW t \in Thread, NEW f \in Call, th' = [th EXCEPT ![t] = f],
           UNCHANGED <<env, file, creators>>,
           creators = "one" /\ fernet' # NULL => fernet' = Current,
           \A s \in SwitchId : SealedWell(stored'[s]),
           creators = "two" => \A s \in SwitchId : NoneOfOne(stored'[s]),
           SealedWell(f.value), creators = "two" => NoneOfOne(f.value),
           f.pc \notin {"open", "write"},
           env # NULL => f.pc \notin {"check", "read"},
           creators = "one" /\ f.pc = "assign" => f.key = Current,
           f.pc = "done" /\ f.text.form = "plain" /\ f.by = "one" => f.value = f.text
    PROVE  KeyInv'
<1>1. Current' = Current
  BY DEF Current
<1>2. th'[t] = f /\ \A u \in Thread \ {t} : th'[u] = th[u]
  BY DEF BaseInv, TypeOK
<1>3. ASSUME NEW u \in Thread PROVE Keyed(u)'
  <2>1. Keyed(u)
    BY DEF KeyInv
  <2>2. SealedWell(th[u].value)' /\ (creators = "two" => NoneOfOne(th[u].value))'
    BY <1>1, <1>2, <2>1 DEF Keyed, SealedWell, NoneOfOne
  <2>3. creators = "one" => AloneKeyed(u)'
    <3>1. \A w \in Thread : Creating(w)' => w # t /\ Creating(w)
      BY <1>2 DEF Creating
    <3> QED BY <1>1, <1>2, <2>1, <3>1 DEF Keyed, AloneKeyed
  <2> QED BY <1>1, <1>2, <2>1, <2>2, <2>3 DEF Keyed
<1>4. \A s \in SwitchId : SealedWell(stored[s])'
  BY <1>1 DEF SealedWell
<1>5. (creators = "two" => env = NULL /\ \A s \in SwitchId : NoneOfOne(stored[s]))'
  BY DEF KeyInv, NoneOfOne
<1> QED BY <1>1, <1>3, <1>4, <1>5 DEF KeyInv

\* A step of a thread that creates the key: before it nothing is sealed with one.
LEMMA CreatorKeyed ==
    ASSUME BaseInv, KeyInv, NEW t \in Thread, NEW f \in Call, th' = [th EXCEPT ![t] = f],
           UNCHANGED <<env, fernet, stored>>, env = NULL, f.value = th[t].value,
           creators' \in Creators, f.pc \in {"open", "write", "assign"},
           creators = "one" => file \in {Absent, Empty},
           creators' = "one" => /\ creators = "one"
                                /\ \A u \in Thread \ {t} : ~Creating(u)
                                /\ f.pc = "open" => file' = Absent
                                /\ f.pc = "write" => file' = Empty
                                /\ f.pc = "assign" => f.key = file'
    PROVE  KeyInv'
<1>1. /\ \A s \in SwitchId : NoneOfOne(stored[s])
      /\ \A u \in Thread : NoneOfOne(th[u].value)
      /\ creators = "one" => fernet = NULL /\ \A u \in Thread : th[u].pc # "assign"
  BY NothingSealed DEF BaseInv, TypeOK
<1>2. th'[t] = f /\ \A u \in Thread \ {t} : th'[u] = th[u]
  BY DEF BaseInv, TypeOK
<1>3. ASSUME NEW u \in Thread PROVE Keyed(u)'
  <2>1. NoneOfOne(th[u].value)'
    BY <1>1, <1>2 DEF NoneOfOne
  <2>2. SealedWell(th[u].value)'
    BY <2>1, CreatorsAre DEF NoneOfOne, SealedWell
  <2>3. creators' = "one" => AloneKeyed(u)'
    <3>1. SUFFICES ASSUME creators' = "one" PROVE AloneKeyed(u)'
      OBVIOUS
    <3>2. \A w \in Thread : Creating(w)' => w = t
      BY <1>2, <3>1 DEF Creating
    <3>3. Current' = file'
      BY DEF Current
    <3> QED BY <1>1, <1>2, <3>1, <3>2, <3>3 DEF AloneKeyed, Creating
  <2>4. (th[u].pc = "done" /\ th[u].text.form = "plain" /\ th[u].by = "one" =>
            th[u].value = th[u].text)'
    BY <1>2 DEF KeyInv, Keyed
  <2> QED BY <2>1, <2>2, <2>3, <2>4 DEF Keyed
<1>4. \A s \in SwitchId : SealedWell(stored[s])' /\ NoneOfOne(stored[s])'
  BY <1>1, CreatorsAre DEF NoneOfOne, SealedWell
<1> QED BY <1>1, <1>3, <1>4 DEF KeyInv

\* What a step keeps when it leaves rows, key file and global alone.
LEMMA KeptKeyed ==
    ASSUME KeyInv, UNCHANGED <<fernet, stored>>
    PROVE  /\ creators = "one" /\ fernet' # NULL => fernet' = Current
           /\ \A s \in SwitchId : SealedWell(stored'[s])
           /\ creators = "two" => \A s \in SwitchId : NoneOfOne(stored'[s])
BY DEF KeyInv

LEMMA CallKey ==
    ASSUME BaseInv, KeyInv, NEW t \in Thread, NEW s \in SwitchId,
           create_switch(t, s) \/ update_switch(t, s)
    PROVE  KeyInv'
<1>1. PICK text \in Text, op \in {"create", "update"} :
          /\ th' = [th EXCEPT ![t] = [NoCall EXCEPT !.pc = "load", !.op = op,
                                                   !.s = s, !.text = text]]
          /\ UNCHANGED <<env, file, fernet, stored, creators>>
  BY DEF create_switch, update_switch
<1> DEFINE f == [NoCall EXCEPT !.pc = "load", !.op = op, !.s = s, !.text = text]
<1>2. f \in Call /\ f.pc = "load" /\ f.value = NULL
  BY DEF NoCall, Call, Location, Creators
<1>3. th' = [th EXCEPT ![t] = f]
  BY <1>1
<1> HIDE DEF f
<1>4. SealedWell(f.value) /\ NoneOfOne(f.value)
  BY <1>2, Forms DEF SealedWell, NoneOfOne
<1> QED BY <1>1, <1>2, <1>3, <1>4, KeptKeyed, OneKeyed

LEMMA ResolveKey ==
    ASSUME BaseInv, KeyInv, NEW t \in Thread, NEW s \in SwitchId, resolve_password(t, s)
    PROVE  KeyInv'
<1> DEFINE pc == IF stored[s].form = "enc" THEN "load" ELSE "done"
           value == IF stored[s].form = "enc" THEN stored[s] ELSE Unsealed(stored[s])
           by == IF stored[s].form = "enc" THEN stored[s].by ELSE "one"
           f == [NoCall EXCEPT !.op = "resolve", !.s = s, !.text = typed[s],
                               !.pc = pc, !.value = value, !.by = by]
<1>1. /\ th' = [th EXCEPT ![t] = f]
      /\ UNCHANGED <<env, file, fernet, stored, typed, keys, creators, lock>>
  BY DEF resolve_password
<1>2. stored[s] \in Text \cup Sealed /\ typed[s] \in Text
  BY DEF resolve_password, BaseInv, TypeOK, StoredIsTyped
<1>3. /\ value \in Text \cup Fetched \cup Sealed
      /\ by \in Creators
      /\ SealedWell(value)
      /\ creators = "two" => NoneOfOne(value)
      /\ pc = "done" /\ typed[s].form = "plain" => value = typed[s]
      /\ pc \in {"load", "done"}
  <2>1. CASE stored[s] \in Sealed
    BY <2>1, Forms DEF KeyInv
  <2>2. CASE stored[s] \in Text
    <3>1. value = Unsealed(stored[s]) /\ stored[s] = typed[s] /\ by = "one"
      BY <2>2, Forms DEF BaseInv, StoredIsTyped
    <3> QED BY <2>2, <3>1, UnsealedTyped, CreatorsAre DEF SealedWell, NoneOfOne
  <2> QED BY <1>2, <2>1, <2>2
<1> HIDE DEF pc, value, by
<1>4. f \in Call /\ f.pc = pc /\ f.text = typed[s] /\ f.value = value
  BY <1>2, <1>3 DEF NoCall, Call, Location, Creators
<1> HIDE DEF f
<1> QED BY <1>1, <1>3, <1>4, KeptKeyed, OneKeyed

LEMMA IdleKey ==
    ASSUME BaseInv, KeyInv, NEW t \in Thread, th' = [th EXCEPT ![t] = NoCall],
           UNCHANGED <<env, file, fernet, stored, creators>>
    PROVE  KeyInv'
<1>1. SealedWell(NoCall.value) /\ NoneOfOne(NoCall.value)
  BY NoCallTyped, Forms DEF SealedWell, NoneOfOne
<1> QED BY <1>1, NoCallTyped, KeptKeyed, OneKeyed

\* A step on the way to the key that changes neither file nor global.
LEMMA OnTheWayKey ==
    ASSUME BaseInv, KeyInv, NEW t \in Thread, NEW pc \in WithKey, NEW key \in AnyKey \cup {NULL},
           th' = [th EXCEPT ![t] = [th[t] EXCEPT !.pc = pc, !.key = key]],
           UNCHANGED <<env, file, fernet, stored, creators>>,
           creators = "one" /\ pc = "assign" => key = Current,
           env # NULL => pc \notin {"check", "read"},
           pc \notin {"open", "write"}
    PROVE  KeyInv'
<1> DEFINE f == [th[t] EXCEPT !.pc = pc, !.key = key]
<1>1. pc \in Location /\ pc # "done"
  BY DEF WithKey, Location
<1>2. f \in Call /\ f.pc = pc /\ f.key = key /\ f.value = th[t].value
  BY <1>1, FrameBefore DEF Call
<1>3. th' = [th EXCEPT ![t] = f]
  OBVIOUS
<1> HIDE DEF f
<1>4. SealedWell(f.value) /\ (creators = "two" => NoneOfOne(f.value))
  BY <1>2 DEF KeyInv, Keyed
<1> QED BY <1>1, <1>2, <1>3, <1>4, KeptKeyed, OneKeyed

LEMMA LoadKey ==
    ASSUME BaseInv, KeyInv, NEW t \in Thread, Load(t)
    PROVE  KeyInv'
<1> USE DEF Load
<1>0. th[t].key \in AnyKey \cup {NULL} /\ TypeOK
  BY FrameBefore
<1>1. CASE fernet # NULL
  <2>1. th' = [th EXCEPT ![t] = [th[t] EXCEPT !.pc = "use", !.key = th[t].key]]
    BY <1>1, GoesIsStep
  <2> QED BY <1>0, <1>1, <2>1, OnTheWayKey DEF WithKey
<1>2. CASE fernet = NULL /\ env # NULL
  <2>1. th' = [th EXCEPT ![t] = [th[t] EXCEPT !.pc = "assign", !.key = env]]
    BY <1>2, GoesWithIsStep
  <2>2. env \in AnyKey /\ env = Current
    BY <1>0, <1>2 DEF TypeOK, AnyKey, Current
  <2> QED BY <1>0, <1>2, <2>1, <2>2, OnTheWayKey DEF WithKey
<1>3. CASE fernet = NULL /\ env = NULL
  <2>1. th' = [th EXCEPT ![t] = [th[t] EXCEPT !.pc = "check", !.key = th[t].key]]
    BY <1>3, GoesIsStep
  <2> QED BY <1>0, <1>3, <2>1, OnTheWayKey DEF WithKey
<1> QED BY <1>1, <1>2, <1>3

\* The second of two threads that generate a key is the last with one creator.
LEMMA CheckKey ==
    ASSUME BaseInv, KeyInv, NEW t \in Thread, Check(t)
    PROVE  KeyInv'
<1> USE DEF Check
<1>0. /\ th[t] \in Call /\ th[t].key \in AnyKey \cup {NULL} /\ TypeOK
      /\ env = NULL
  BY FrameBefore DEF KeyInv, Keyed
<1>1. CASE file = Absent
  <2> DEFINE f == [th[t] EXCEPT !.pc = "open", !.key = keys']
  <2>1. th' = [th EXCEPT ![t] = f]
    BY <1>1, FrameBefore DEF GoesWith, Call, BaseInv, TypeOK
  <2>2. keys' \in AnyKey
    BY <1>0, <1>1, SecretsAssumption DEF TypeOK, Key, AnyKey
  <2>3. f \in Call /\ f.pc = "open" /\ f.value = th[t].value
    BY <1>0, <2>2 DEF Call, Location
  <2> HIDE DEF f
  <2>4. creators' \in Creators
    BY <1>0, <1>1 DEF TypeOK, Creators
  <2>5. creators' = "one" => creators = "one" /\ \A u \in Thread \ {t} : th[u].pc # "open"
    BY <1>1, CreatorsAre DEF Rivals
  <2>6. creators = "one" => \A u \in Thread : th[u].pc # "write"
    BY <1>1, SecretsAssumption DEF KeyInv, Keyed, AloneKeyed
  <2>7. creators' = "one" => \A u \in Thread \ {t} : ~Creating(u)
    BY <2>5, <2>6 DEF Creating
  <2> QED BY <1>0, <1>1, <2>1, <2>3, <2>4, <2>5, <2>7, CreatorKeyed
<1>2. CASE file # Absent
  <2>1. th' = [th EXCEPT ![t] = [th[t] EXCEPT !.pc = "read", !.key = th[t].key]]
    BY <1>2, GoesIsStep
  <2> QED BY <1>0, <1>2, <2>1, OnTheWayKey DEF WithKey
<1> QED BY <1>1, <1>2

LEMMA ReadKey ==
    ASSUME BaseInv, KeyInv, NEW t \in Thread, Read(t)
    PROVE  KeyInv'
<1> USE DEF Read
<1>0. TypeOK /\ Held(t) /\ env = NULL
  BY FrameBefore DEF KeyInv, Keyed
<1>1. CASE file = Empty
  BY <1>1, IdleKey
<1>2. CASE file # Empty
  <2>1. th' = [th EXCEPT ![t] = [th[t] EXCEPT !.pc = "assign", !.key = file]]
    BY <1>2, GoesWithIsStep
  <2>2. file \in AnyKey /\ file = Current
    BY <1>0, <1>2 DEF TypeOK, Held, Current
  <2> QED BY <1>0, <1>2, <2>1, <2>2, OnTheWayKey DEF WithKey
<1> QED BY <1>1, <1>2

LEMMA OpenKey ==
    ASSUME BaseInv, KeyInv, NEW t \in Thread, Open(t)
    PROVE  KeyInv'
<1> USE DEF Open
<1> DEFINE f == [th[t] EXCEPT !.pc = "write", !.key = th[t].key]
<1>1. /\ th[t] \in Call /\ env = NULL /\ Creating(t)
      /\ creators = "one" => AloneKeyed(t)
      /\ creators' \in Creators
  BY FrameBefore DEF KeyInv, Keyed, Creating, BaseInv, TypeOK
<1>2. th' = [th EXCEPT ![t] = f]
  BY GoesIsStep
<1>3. f \in Call /\ f.pc = "write" /\ f.value = th[t].value
  BY <1>1 DEF Call, Location
<1> HIDE DEF f
<1>4. creators = "one" => file = Absent /\ \A u \in Thread \ {t} : ~Creating(u)
  BY <1>1 DEF AloneKeyed
<1> QED BY <1>1, <1>2, <1>3, <1>4, CreatorKeyed

LEMMA WriteKey ==
    ASSUME BaseInv, KeyInv, NEW t \in Thread, Write(t)
    PROVE  KeyInv'
<1> USE DEF Write
<1> DEFINE f == [th[t] EXCEPT !.pc = "assign", !.key = th[t].key]
<1>1. /\ th[t] \in Call /\ env = NULL /\ Creating(t)
      /\ creators = "one" => AloneKeyed(t)
      /\ creators' \in Creators
  BY FrameBefore DEF KeyInv, Keyed, Creating, BaseInv, TypeOK
<1>2. th' = [th EXCEPT ![t] = f]
  BY GoesIsStep
<1>3. f \in Call /\ f.pc = "assign" /\ f.value = th[t].value /\ f.key = th[t].key
  BY <1>1 DEF Call, Location
<1> HIDE DEF f
<1>4. creators = "one" => file = Empty /\ \A u \in Thread \ {t} : ~Creating(u)
  BY <1>1 DEF AloneKeyed
<1> QED BY <1>1, <1>2, <1>3, <1>4, CreatorKeyed

LEMMA AssignKey ==
    ASSUME BaseInv, KeyInv, NEW t \in Thread, Assign(t)
    PROVE  KeyInv'
<1> USE DEF Assign
<1> DEFINE f == [th[t] EXCEPT !.pc = "use", !.key = th[t].key]
<1>1. th' = [th EXCEPT ![t] = f]
  BY GoesIsStep
<1>2. f \in Call /\ f.pc = "use" /\ f.value = th[t].value
  BY FrameBefore DEF Call, Location
<1> HIDE DEF f
<1>3. creators = "one" => fernet' = Current
  BY DEF KeyInv, Keyed, AloneKeyed
<1>4. SealedWell(f.value) /\ (creators = "two" => NoneOfOne(f.value))
  BY <1>2 DEF KeyInv, Keyed
<1>5. /\ \A s \in SwitchId : SealedWell(stored'[s])
      /\ creators = "two" => \A s \in SwitchId : NoneOfOne(stored'[s])
  BY DEF KeyInv
<1> QED BY <1>1, <1>2, <1>3, <1>4, <1>5, OneKeyed

LEMMA UseKey ==
    ASSUME BaseInv, KeyInv, NEW t \in Thread, Use(t)
    PROVE  KeyInv'
<1> USE DEF Use
<1>0. /\ th[t] \in Call /\ TypeOK /\ Held(t) /\ th[t].pc \in WithKey /\ Keyed(t)
      /\ fernet \in AnyKey /\ th[t].text \in Text /\ creators \in Creators
      /\ creators = "one" => fernet = Current
  BY FrameBefore DEF Held, WithKey, TypeOK, KeyInv
<1>1. CASE th[t].op = "resolve"
  <2> DEFINE v == IF th[t].value.key = fernet THEN th[t].value.text ELSE NULL
             f == [th[t] EXCEPT !.pc = "done", !.key = NULL, !.value = v]
  <2>1. v \in Text \cup {NULL}
    BY <1>0, <1>1 DEF Held
  <2>2. th[t].by = "one" => v = th[t].text
    BY <1>0, <1>1, CreatorsAre DEF Held, Keyed, SealedWell, NoneOfOne
  <2>3. th' = [th EXCEPT ![t] = f]
    BY <1>1
  <2> HIDE DEF v
  <2>4. f \in Call /\ f.pc = "done" /\ f.text = th[t].text /\ f.value = v /\ f.by = th[t].by
    BY <1>0, <2>1 DEF Call, Location
  <2> HIDE DEF f
  <2>5. SealedWell(f.value) /\ NoneOfOne(f.value)
    BY <2>1, <2>4, Forms DEF SealedWell, NoneOfOne
  <2> QED BY <2>2, <2>3, <2>4, <2>5, KeptKeyed, OneKeyed
<1>2. CASE th[t].op # "resolve"
  <2> DEFINE v == [form |-> "enc", key |-> fernet, text |-> th[t].text, by |-> creators]
             f == [th[t] EXCEPT !.pc = "save", !.key = NULL, !.value = v]
  <2>1. v \in Sealed /\ SealedWell(v) /\ (creators = "two" => NoneOfOne(v))
    BY <1>0 DEF Sealed, SealedWell, NoneOfOne
  <2>2. th' = [th EXCEPT ![t] = f]
    BY <1>2
  <2> HIDE DEF v
  <2>3. f \in Call /\ f.pc = "save" /\ f.value = v
    BY <1>0, <2>1 DEF Call, Location
  <2> HIDE DEF f
  <2> QED BY <2>1, <2>2, <2>3, KeptKeyed, OneKeyed
<1> QED BY <1>1, <1>2

LEMMA SaveKey ==
    ASSUME BaseInv, KeyInv, NEW t \in Thread, Save(t)
    PROVE  KeyInv'
<1> USE DEF Save
<1>0. /\ TypeOK /\ SealedWell(th[t].value) /\ th[t].s \in SwitchId
      /\ creators = "two" => NoneOfOne(th[t].value)
  BY FrameBefore DEF Held, KeyInv, Keyed
<1>1. \A s \in SwitchId : stored'[s] \in {th[t].value, stored[s]}
  BY <1>0 DEF TypeOK
<1>2. \A s \in SwitchId : SealedWell(stored'[s])
  BY <1>0, <1>1 DEF KeyInv
<1>3. creators = "two" => \A s \in SwitchId : NoneOfOne(stored'[s])
  BY <1>0, <1>1 DEF KeyInv
<1>4. SealedWell(NoCall.value) /\ NoneOfOne(NoCall.value)
  BY NoCallTyped, Forms DEF SealedWell, NoneOfOne
<1>5. creators = "one" /\ fernet' # NULL => fernet' = Current
  BY DEF KeyInv
<1> QED BY <1>2, <1>3, <1>4, <1>5, NoCallTyped, OneKeyed

LEMMA CrashKey ==
    ASSUME BaseInv, KeyInv, Crash
    PROVE  KeyInv'
<1> USE DEF Crash
<1>1. Current' = Current
  BY DEF Current
<1>2. \A s \in SwitchId : SealedWell(stored[s])'
  BY <1>1 DEF SealedWell, KeyInv
<1>3. \A t \in Thread : th'[t] = NoCall
  OBVIOUS
<1>4. \A t \in Thread : Keyed(t)'
  BY <1>3, NoCallTyped, Forms, CreatorsAre DEF Keyed, AloneKeyed, SealedWell, Creating
<1> QED BY <1>2, <1>4, CreatorsAre DEF KeyInv

LEMMA StepKey == BaseInv /\ KeyInv /\ [Next]_vars => KeyInv'
<1> SUFFICES ASSUME BaseInv, KeyInv, [Next]_vars PROVE KeyInv'
  OBVIOUS
<1>1. ASSUME NEW t \in Thread, NEW s \in SwitchId,
             create_switch(t, s) \/ update_switch(t, s) \/ resolve_password(t, s)
      PROVE  KeyInv'
  BY <1>1, CallKey, ResolveKey
<1>2. ASSUME NEW t \in Thread,
             \/ Load(t) \/ Check(t) \/ Read(t) \/ Open(t) \/ Write(t)
             \/ Assign(t) \/ Use(t) \/ Save(t)
      PROVE  KeyInv'
  BY <1>2, LoadKey, CheckKey, ReadKey, OpenKey, WriteKey, AssignKey, UseKey, SaveKey
<1>3. ASSUME NEW t \in Thread, Return(t) PROVE KeyInv'
  BY <1>3, IdleKey DEF Return
<1>4. CASE UNCHANGED vars
  <2>1. Current' = Current
    BY <1>4 DEF vars, Current
  <2> QED BY <1>4, <2>1 DEF vars, KeyInv, Keyed, AloneKeyed, SealedWell, NoneOfOne, Creating
<1> QED BY <1>1, <1>2, <1>3, <1>4, CrashKey DEF Next

\* A password comes back as it was entered (crypto.py lines 20-81), at each crash, whatever
\* it leaves of the key file, unless two threads of the process that sealed it generated a
\* key each.
THEOREM SecretsKept == Spec => []RoundTrip
<1>1. BaseInv /\ KeyInv => RoundTrip
  BY DEF KeyInv, Keyed, RoundTrip, Resolved
<1> QED BY InitBase, StepBase, InitKey, StepKey, <1>1, PTL DEF Spec

\* With the same exception, a process started later can read every password saved.
THEOREM SecretsOpen == Spec => []OpensAfterRestart
<1>1. BaseInv /\ KeyInv => OpensAfterRestart
  BY DEF KeyInv, SealedWell, Current, OpensAfterRestart
<1> QED BY InitBase, StepBase, InitKey, StepKey, <1>1, PTL DEF Spec
=============================================================================
