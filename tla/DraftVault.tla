----------------------------- MODULE DraftVault -----------------------------
(***************************************************************************)
(* The encrypted drafts of the browser (apps/c2c-studio/src/lib/editor/    *)
(* editorPersistence.ts): rows of an IndexedDB store, found by selectors   *)
(* and sealed under a key, both derived from the secret of the session.    *)
(* A derivation is injective in what it is given: it is the tuple of that. *)
(* The operators say what one call makes of the rows; how the calls        *)
(* interleave is for the module that makes them (StudioJava).              *)
(***************************************************************************)
EXTENDS Naturals, Sequences, FiniteSets

CONSTANT None

RecordSchemaVersion == "v3"
Ages == {"fresh", "near", "expired"}

-----------------------------------------------------------------------------
(* Selectors and seals; a session is [user, secret] *)

(* Fields are prefixed by their lengths, so no two lists run together. *)
HmacSelector(session, domain, fields) == <<session.secret, domain, fields>>

DraftKeySelectorFields(session, key) == <<session.user, key>>

DeriveRecordSelector(session, key) ==
    HmacSelector(session, "record", DraftKeySelectorFields(session, key))

DeriveScopeSelector(session) == HmacSelector(session, "scope", <<session.user>>)

(* The key is cached by the fingerprint of the secret and the identity: a  *)
(* cached key is the one that would be derived.                            *)
DeriveAesKey(session) == <<session.secret, session.user>>

(* Mutant: the seal says nothing of the row it is for. *)
AadOfVersion(recordKey, scope) == <<RecordSchemaVersion>>

DeriveAad(recordKey, scope) == <<RecordSchemaVersion, recordKey, scope>>

EncryptPayload(session, recordKey, scope, payload) ==
    [under |-> DeriveAesKey(session), aad |-> DeriveAad(recordKey, scope),
     payload |-> payload]

(* Another key, another row, or a payload of a later Studio: no payload. *)
Opens(session, row) ==
    /\ row.sealed.under = DeriveAesKey(session)
    /\ row.sealed.aad = DeriveAad(row.key, row.scope)
    /\ row.sealed.payload.version = "v0"
DecryptPayload(session, row) == IF Opens(session, row) THEN row.sealed.payload ELSE None

-----------------------------------------------------------------------------
(* The calls *)

PutRow(db, row) == {r \in db : r.key # row.key} \cup {row}

DraftRow(session, key, payload) ==
    LET recordKey == DeriveRecordSelector(session, key)
        scope == DeriveScopeSelector(session)
    IN  [key |-> recordKey, scope |-> scope, schema |-> RecordSchemaVersion,
         age |-> "fresh",
         sealed |-> EncryptPayload(session, recordKey, scope, payload)]

(* saveDraft *)
SavedDb(db, session, key, payload) == PutRow(db, DraftRow(session, key, payload))

(* loadDraft finds the row, and takes one it cannot read away. *)
RowOf(db, session, key) ==
    {r \in db : r.key = DeriveRecordSelector(session, key)}

Readable(row, session) ==
    /\ row.schema = RecordSchemaVersion
    /\ row.scope = DeriveScopeSelector(session)
    /\ Opens(session, row)

WithoutUnreadable(db, session, key) ==
    db \ {r \in RowOf(db, session, key) : ~Readable(r, session)}

ReadableRow(db, session, key) ==
    {r \in RowOf(db, session, key) : Readable(r, session)}

(* Mutant of TouchedDb: every load writes the row it has read. *)
TouchedAlways(db, row) == PutRow(db, [row EXCEPT !.age = "fresh"])

(* A live row close to its end is given its whole time again: the row that *)
(* was read is put back.                                                   *)
TouchedDb(db, row) ==
    IF row.age = "near" THEN PutRow(db, [row EXCEPT !.age = "fresh"]) ELSE db

InScope(db, session) == {r \in db : r.scope = DeriveScopeSelector(session)}

(* purgeExpired and clearAll reach the rows of this session's scope;       *)
(* clearLocalOrigin all.                                                   *)
PurgedDb(db, session) == db \ {r \in InScope(db, session) : r.age = "expired"}
ClearedDb(db, session) == db \ InScope(db, session)
ClearedOrigin(db) == {}

CountDrafts(db, session) == Cardinality(InScope(db, session))

(* What can be read, whether its time is over or not. *)
ListDrafts(db, session) ==
    {DecryptPayload(session, r) :
       r \in {s \in InScope(db, session) :
                s.schema = RecordSchemaVersion /\ Opens(session, s)}}

-----------------------------------------------------------------------------
(* Bounded inputs: rows of two users, two secrets and two files, as they   *)
(* were saved, by another build, or moved to another place.                *)

Sessions == [user : {"u", "v"}, secret : 1 .. 2]
Files == {"f", "g"}
PayloadOf(session, key, version) ==
    [version |-> version, by |-> session, file |-> key]

SavedRow(s, f, version, schema, age) ==
    [DraftRow(s, f, PayloadOf(s, f, version)) EXCEPT !.schema = schema, !.age = age]

SavedRows ==
    {SavedRow(s, f, version, schema, age) :
       s \in Sessions, f \in Files, version \in {"v0", "v1"},
       schema \in {RecordSchemaVersion, "v2"}, age \in Ages}

MovedRow(o, g, s, f) ==
    [DraftRow(o, g, PayloadOf(o, g, "v0")) EXCEPT
       !.key = DeriveRecordSelector(s, f), !.scope = DeriveScopeSelector(s)]

MovedRows ==
    {MovedRow(o, g, s, f) :
       o \in Sessions, g \in Files, s \in Sessions, f \in Files}

Stores == {PutRow({r}, q) : r \in SavedRows \cup MovedRows, q \in MovedRows}

(* Whatever rows are in the store, a session is given only what was saved  *)
(* under its own secret and user for that very file; a row it cannot read  *)
(* does not stand in the way of the next save; a clear leaves it nothing,  *)
(* and takes nothing of another session's; and what a list shows can be    *)
(* loaded.                                                                 *)
SealsHold ==
    \A db \in Stores, s \in Sessions :
       /\ \A f \in Files :
            LET found == ReadableRow(db, s, f)
                after == WithoutUnreadable(db, s, f)
                saved == SavedDb(after, s, f, PayloadOf(s, f, "v0"))
            IN  /\ \A r \in found : DecryptPayload(s, r) = PayloadOf(s, f, "v0")
                /\ RowOf(after, s, f) = found
                /\ \E r \in ReadableRow(saved, s, f) : r.age = "fresh"
                /\ Cardinality(RowOf(saved, s, f)) = 1
       /\ CountDrafts(ClearedDb(db, s), s) = 0
       /\ \A t \in Sessions \ {s} : InScope(ClearedDb(db, s), t) = InScope(db, t)
       /\ \A p \in ListDrafts(db, s) : ReadableRow(db, s, p.file) # {}
       /\ Cardinality(ListDrafts(db, s)) <= CountDrafts(db, s)
       /\ PurgedDb(db, s) \subseteq db /\ ListDrafts(PurgedDb(db, s), s)
                                            \subseteq ListDrafts(db, s)
=============================================================================
