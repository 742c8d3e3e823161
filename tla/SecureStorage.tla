--------------------------- MODULE SecureStorage ----------------------------
(***************************************************************************)
(* secure_storage: one JSON document in the keyring of libsecret holds all  *)
(* items.  Every call reads the document, and the writing ones store it     *)
(* whole (keyring.h).                                                       *)
(*                                                                         *)
(* readFromKeyring tests an unset error: a look-up that fails, like one     *)
(* that finds nothing, stores and returns a document that is the JSON null. *)
(* What rapidjson makes of adding a member to null is undefined: built with *)
(* assertions the process aborts, without them the member is not written.   *)
(*                                                                         *)
(* External: a look-up or a store may fail (a locked keyring, no service).  *)
(***************************************************************************)
EXTENDS Integers, FiniteSets

CONSTANTS
    Keys,       \* the keys of the items
    Values,     \* their values
    NoValue     \* no such item

VARIABLES
    stored,     \* what the keyring holds: nothing, null, or the items
    expected,   \* the items Dart has been told are stored
    excused,    \* a look-up or a store failed, or null was written to
    aborted     \* an assertion of rapidjson has ended the process

storageVars == <<stored, expected, excused, aborted>>

Items == [Keys -> Values \cup {NoValue}]
NoItems == [k \in Keys |-> NoValue]

Object(items) == [kind |-> "object", items |-> items]
Null   == [kind |-> "null",   items |-> NoItems]
Absent == [kind |-> "absent", items |-> NoItems]

TypeOK ==
    /\ stored \in [kind : {"object", "null", "absent"}, items : Items]
    /\ expected \in Items
    /\ excused \in BOOLEAN
    /\ aborted \in BOOLEAN

\* The keyring may hold the items of an earlier run of the program.
Init ==
    /\ \/ stored = Absent /\ expected = NoItems
       \/ expected \in Items /\ stored = Object(expected)
    /\ excused = FALSE
    /\ aborted = FALSE

-----------------------------------------------------------------------------
(* keyring.h. *)

\* A look-up that is not null, not empty and can be parsed.
Found(s) == s.kind # "absent"

\* storeToKeyring: its result, and an error never seen.
StoreOutcomes(s, doc) == {doc, s}

\* What readFromKeyring returns and leaves in the keyring: the document, null
\* as the empty one; or null, stored, when the look-up fails or finds nothing.
ReadOutcomes(s) ==
    (IF Found(s) THEN {[doc |-> Object(s.items), left |-> s, ok |-> TRUE]} ELSE {})
        \cup {[doc |-> Null, left |-> l, ok |-> ~Found(s) /\ l = Null] :
                  l \in StoreOutcomes(s, Null)}

\* Mutant: the member is added beside the one of the same name.
AddBeside(items, k, v) ==
    IF items[k] = NoValue THEN [items EXCEPT ![k] = v] ELSE items

\* RemoveMember, if there is one, and AddMember.
AddMember(items, k, v) == [items EXCEPT ![k] = v]

Fails(b) == excused' = (excused \/ b)

\* A call ends: the keyring holds what was stored, and Dart is told `items`.
Store(r, doc, items) ==
    \E l \in StoreOutcomes(r.left, doc) :
        /\ stored' = l
        /\ expected' = items
        /\ Fails(~r.ok \/ l # doc)
        /\ UNCHANGED aborted

Abort(r) ==
    /\ r.doc = Null
    /\ aborted' = TRUE
    /\ stored' = r.left
    /\ Fails(TRUE)
    /\ UNCHANGED expected

-----------------------------------------------------------------------------
(* The calls. *)

\* addItem; the result of the store is ignored and Dart is told TRUE.
Write(k, v) ==
    \E r \in ReadOutcomes(stored) :
        \/ /\ r.doc # Null
           /\ Store(r, Object(AddMember(r.doc.items, k, v)),
                    [expected EXCEPT ![k] = v])
        \/ /\ r.doc = Null
           /\ \E l \in StoreOutcomes(r.left, Null) : stored' = l
           /\ expected' = [expected EXCEPT ![k] = v]
           /\ Fails(TRUE)
           /\ UNCHANGED aborted
        \/ Abort(r)

\* getItem and readAll change only what readFromKeyring does.
Read ==
    \E r \in ReadOutcomes(stored) :
        /\ stored' = r.left
        /\ Fails(~r.ok)
        /\ UNCHANGED <<expected, aborted>>

\* HasMember of null: an assertion, or no such member.
ContainsKey == Read \/ \E r \in ReadOutcomes(stored) : Abort(r)

DeleteIt(k) ==
    \E r \in ReadOutcomes(stored) :
        \/ Store(r, IF r.doc = Null THEN Null
                    ELSE Object([r.doc.items EXCEPT ![k] = NoValue]),
                 [expected EXCEPT ![k] = NoValue])
        \/ Abort(r)

\* deleteKeyring does not read.
DeleteAll ==
    Store([doc |-> Null, left |-> stored, ok |-> TRUE], Object(NoItems), NoItems)

Next ==
    /\ ~aborted
    /\ \/ \E k \in Keys, v \in Values : Write(k, v)
       \/ Read
       \/ ContainsKey
       \/ \E k \in Keys : DeleteIt(k)
       \/ DeleteAll

Spec == Init /\ [][Next]_storageVars

-----------------------------------------------------------------------------
(* Properties. *)

\* What Dart was told is stored is what the keyring holds, over any calls,
\* unless the keyring has failed or an item was written to an empty keyring.
StoresWhatWasTold == ~excused => stored.items = expected
=============================================================================
