------------------------------- MODULE Secrets -------------------------------
(***************************************************************************)
(* Switch passwords at rest: backend/app/crypto.py with its key, created   *)
(* on first use, and backend/app/secrets.py, which turns a stored value    *)
(* into the password of a poll.                                            *)
(*                                                                         *)
(* Passwords are saved and resolved by worker threads.  Neither the global *)
(* _fernet nor the key file is locked; create_switch() happens to encrypt  *)
(* under the database lock, update_switch() and decrypted_switch() do not. *)
(* A process may die and leave the key file in any state; then _fernet is  *)
(* None again.                                                             *)
(***************************************************************************)
EXTENDS Integers

CONSTANTS
    Thread,     \* worker threads
    SwitchId,   \* rows of switches
    Plain,      \* passwords
    Field,      \* fields of the vault, typed as "vault:<field>"
    EnvKeys,    \* what SANSW_SECRET_KEY may be: a key, NULL if it is not set
    MaxKeys,    \* bound: how many keys are generated
    NULL,
    Absent,     \* there is no key file
    Empty       \* the key file has no key

\* What a user may enter; a vault reference is not a password itself.
Text == [form : {"plain"}, body : Plain] \cup [form : {"vault"}, body : Field]

\* Fernet.generate_key() never gives the same key twice.
Key == 1 .. MaxKeys
AnyKey == Key \cup (EnvKeys \ {NULL})

\* Whether one thread of a process created the key, or two did at once.
Creators == {"one", "two"}

\* A column value is text, or text sealed with a key: "enc:<token>".  What
\* sealed it, by, is history: no step depends on it.
Sealed == [form : {"enc"}, key : AnyKey, text : Text, by : Creators]

ASSUME SecretsAssumption ==
    /\ MaxKeys \in Nat
    /\ EnvKeys \cap (Key \cup {Absent, Empty}) = {}
    /\ Absent \notin Key /\ Empty \notin Key /\ Absent # Empty
    /\ NULL \notin Thread \cup Key \cup Text \cup Sealed \cup {Absent, Empty}

VARIABLES
    env,       \* SANSW_SECRET_KEY
    file,      \* data/secret.key: Absent, Empty or a key
    fernet,    \* crypto._fernet
    stored,    \* the password column
    typed,     \* history variable: the text a user entered for the row
    keys,      \* how many keys were generated
    creators,  \* history variable: whether two threads of this process generated keys at once
    lock,      \* who has the lock of db.py
    th         \* the threads' frames

vars == <<env, file, fernet, stored, typed, keys, creators, lock, th>>

NoCall == [pc |-> "idle", op |-> "none", s |-> NULL, text |-> NULL, value |-> NULL,
           key |-> NULL, by |-> "one"]

Location == {"idle", "load", "check", "read", "open", "write", "assign", "use", "save", "done"}

\* What the vault answers for a field, written as the plain text of that field.
Fetched == [form : {"plain"}, body : Field]

\* text is what is to be saved, or what the row read stands for; value the
\* column value in hand, after a resolution its result; key the key in hand;
\* by is history: of a resolution, what sealed the value read.
Call == [pc : Location, op : {"none", "create", "update", "resolve"},
         s : SwitchId \cup {NULL}, text : Text \cup {NULL},
         value : Text \cup Fetched \cup Sealed \cup {NULL}, key : AnyKey \cup {NULL},
         by : Creators]

\* Rows written before passwords were encrypted hold them as entered.
Init ==
    /\ env \in EnvKeys
    /\ file = Absent
    /\ fernet = NULL
    /\ stored \in [SwitchId -> Text \cup {NULL}]
    /\ typed = stored
    /\ keys = 0
    /\ creators = "one"
    /\ lock = NULL
    /\ th = [t \in Thread |-> NoCall]

-----------------------------------------------------------------------------
(* Calls *)

\* create_switch() and update_switch() with a password; encrypt() gets it as
\* it was entered.  (What is entered with "enc:" in front is stored as it is,
\* test_double_encrypt_is_noop, and no Text here.)
create_switch(t, s) ==
    \E text \in Text :
        /\ th[t].pc = "idle"
        /\ stored[s] = NULL
        /\ lock = NULL
        /\ lock' = t
        /\ th' = [th EXCEPT ![t] = [NoCall EXCEPT !.pc = "load", !.op = "create",
                                                  !.s = s, !.text = text]]
        /\ UNCHANGED <<env, file, fernet, stored, typed, keys, creators>>

update_switch(t, s) ==
    \E text \in Text :
        /\ th[t].pc = "idle"
        /\ stored[s] # NULL
        /\ th' = [th EXCEPT ![t] = [NoCall EXCEPT !.pc = "load", !.op = "update",
                                                  !.s = s, !.text = text]]
        /\ UNCHANGED <<env, file, fernet, stored, typed, keys, creators, lock>>

\* resolve_password() of a value without "enc:" needs no key.
Unsealed(value) == IF value.form = "vault" THEN [form |-> "plain", body |-> value.body]
                   ELSE value

\* decrypted_switch() of a row read before.
resolve_password(t, s) ==
    /\ th[t].pc = "idle"
    /\ stored[s] # NULL
    /\ th' = [th EXCEPT ![t] =
           [NoCall EXCEPT !.op = "resolve", !.s = s, !.text = typed[s],
                          !.pc = IF stored[s].form = "enc" THEN "load" ELSE "done",
                          !.value = IF stored[s].form = "enc" THEN stored[s]
                                    ELSE Unsealed(stored[s]),
                          !.by = IF stored[s].form = "enc" THEN stored[s].by ELSE "one"]]
    /\ UNCHANGED <<env, file, fernet, stored, typed, keys, creators, lock>>

Return(t) == /\ th[t].pc = "done"
             /\ th' = [th EXCEPT ![t] = NoCall]
             /\ UNCHANGED <<env, file, fernet, stored, typed, keys, creators, lock>>

-----------------------------------------------------------------------------
(* _get_fernet(), _load_key() *)

Goes(t, pc) == th' = [th EXCEPT ![t].pc = pc]
GoesWith(t, pc, key) == th' = [th EXCEPT ![t].pc = pc, ![t].key = key]

\* `if _fernet is None`, and SECRET_KEY if there is one.
Load(t) ==
    /\ th[t].pc = "load"
    /\ CASE fernet # NULL -> Goes(t, "use")
         [] fernet = NULL /\ env # NULL -> GoesWith(t, "assign", env)
         [] OTHER -> Goes(t, "check")
    /\ UNCHANGED <<env, file, fernet, stored, typed, keys, creators, lock>>

\* Mutant: every process generates a key.
CheckNothing(t) ==
    /\ th[t].pc = "check"
    /\ keys < MaxKeys
    /\ keys' = keys + 1
    /\ GoesWith(t, "open", keys')
    /\ UNCHANGED <<env, file, fernet, stored, typed, creators, lock>>

\* Nothing keeps two threads from generating a key each, before one has opened the file.
Rivals(t) == \E u \in Thread \ {t} : th[u].pc = "open"

\* SECRET_KEY_FILE.exists(); if not, generate_key().
Check(t) ==
    /\ th[t].pc = "check"
    /\ IF file = Absent
       THEN /\ keys < MaxKeys
            /\ keys' = keys + 1
            /\ GoesWith(t, "open", keys')
            /\ creators' = IF Rivals(t) THEN "two" ELSE creators
       ELSE Goes(t, "read") /\ UNCHANGED <<keys, creators>>
    /\ UNCHANGED <<env, file, fernet, stored, typed, lock>>

\* Raising releases the lock on the way out.
Unlock(t) == lock' = IF lock = t THEN NULL ELSE lock

\* read_bytes(): Fernet() of an empty key raises ValueError.
Read(t) ==
    /\ th[t].pc = "read"
    /\ IF file = Empty
       THEN th' = [th EXCEPT ![t] = NoCall] /\ Unlock(t)
       ELSE GoesWith(t, "assign", file) /\ UNCHANGED lock
    /\ UNCHANGED <<env, file, fernet, stored, typed, keys, creators>>

\* Mutant: the key is not written.
OpenOnly(t) ==
    /\ th[t].pc = "open"
    /\ file' = Empty
    /\ Goes(t, "assign")
    /\ UNCHANGED <<env, fernet, stored, typed, keys, creators, lock>>

\* write_bytes() truncates what is there ...
Open(t) ==
    /\ th[t].pc = "open"
    /\ file' = Empty
    /\ Goes(t, "write")
    /\ UNCHANGED <<env, fernet, stored, typed, keys, creators, lock>>

\* ... and writes.
Write(t) ==
    /\ th[t].pc = "write"
    /\ file' = th[t].key
    /\ Goes(t, "assign")
    /\ UNCHANGED <<env, fernet, stored, typed, keys, creators, lock>>

Assign(t) ==
    /\ th[t].pc = "assign"
    /\ fernet' = th[t].key
    /\ Goes(t, "use")
    /\ UNCHANGED <<env, file, stored, typed, keys, creators, lock>>

-----------------------------------------------------------------------------
(* encrypt(), decrypt() *)

\* `return _fernet` reads the global again.  A token of another key is an
\* InvalidToken: no password.
Use(t) ==
    /\ th[t].pc = "use"
    /\ th' = [th EXCEPT ![t] =
           IF th[t].op = "resolve"
           THEN [th[t] EXCEPT !.pc = "done", !.key = NULL,
                              !.value = IF th[t].value.key = fernet
                                        THEN th[t].value.text ELSE NULL]
           ELSE [th[t] EXCEPT !.pc = "save", !.key = NULL,
                              !.value = [form |-> "enc", key |-> fernet, text |-> th[t].text,
                                         by |-> creators]]]
    /\ UNCHANGED <<env, file, fernet, stored, typed, keys, creators, lock>>

\* The INSERT or UPDATE, under the lock.
Save(t) ==
    /\ th[t].pc = "save"
    /\ lock \in {NULL, t}
    /\ lock' = NULL
    /\ stored' = [stored EXCEPT ![th[t].s] = th[t].value]
    /\ typed' = [typed EXCEPT ![th[t].s] = th[t].text]
    /\ th' = [th EXCEPT ![t] = NoCall]
    /\ UNCHANGED <<env, file, fernet, keys, creators>>

\* The process dies: what is on disk stays, the file as far as it was written.
Crash ==
    /\ fernet' = NULL
    /\ creators' = "one"
    /\ lock' = NULL
    /\ th' = [t \in Thread |-> NoCall]
    /\ UNCHANGED <<env, file, stored, typed, keys>>

Next == \/ \E t \in Thread, s \in SwitchId :
               create_switch(t, s) \/ update_switch(t, s) \/ resolve_password(t, s)
        \/ \E t \in Thread : \/ Load(t)
                             \/ Check(t)
                             \/ Read(t)
                             \/ Open(t)
                             \/ Write(t)
                             \/ Assign(t)
                             \/ Use(t)
                             \/ Save(t)
                             \/ Return(t)
        \/ Crash

Spec == Init /\ [][Next]_vars

-----------------------------------------------------------------------------
(* Properties. *)

TypeOK ==
    /\ env \in EnvKeys
    /\ file \in AnyKey \cup {Absent, Empty}
    /\ fernet \in AnyKey \cup {NULL}
    /\ stored \in [SwitchId -> Text \cup Sealed \cup {NULL}]
    /\ typed \in [SwitchId -> Text \cup {NULL}]
    /\ keys \in 0 .. MaxKeys
    /\ creators \in Creators
    /\ lock \in Thread \cup {NULL}
    /\ th \in [Thread -> Call]

Resolved(t) == th[t].pc = "done"

\* test_roundtrip, test_plaintext_passthrough_for_backcompat: a password comes
\* back as it was entered, whichever thread, process and version saved it,
\* unless two threads of the process that sealed it generated a key each.
RoundTrip ==
    \A t \in Thread :
        Resolved(t) /\ th[t].text.form = "plain" /\ th[t].by = "one" =>
            th[t].value = th[t].text

\* The same without the exception, as test_roundtrip has it
\* (tests/test_crypto.py:5-9): lost when two threads come to create the key at
\* once.
AnyRoundTrip ==
    \A t \in Thread :
        Resolved(t) /\ th[t].text.form = "plain" => th[t].value = th[t].text

\* Every password saved can be read again by a process started later, at any
\* time this one dies, with the same exception.
OpensAfterRestart ==
    \A s \in SwitchId : stored[s] \in Sealed /\ stored[s].by = "one" =>
        stored[s].key = IF env # NULL THEN env ELSE file

\* secrets.py lines 4, 20: a value entered as "vault:<field>" is the vault's.
VaultResolved ==
    \A t \in Thread :
        Resolved(t) /\ th[t].text.form = "vault" => th[t].value = Unsealed(th[t].text)
=============================================================================
