----------------------------- MODULE FamilyView -----------------------------
(***************************************************************************)
(* The neg-risk families in the database (crates/persistence/src/repos.rs: *)
(* NegRiskFamilyRepo, persist_discovery_snapshot,                          *)
(* reconcile_current_family_view, JournalRepo) and their readers in        *)
(* crates/app-replay.                                                      *)
(*                                                                         *)
(* A validation or a halt of a family is upserted and journalled in one    *)
(* transaction; a discovery snapshot is one journal entry; a reconcile     *)
(* reads the latest snapshot and deletes the rows of other families in a   *)
(* later transaction; a summary reads snapshot, rows and journal in        *)
(* separate queries.  A journal number is taken when an entry is inserted  *)
(* and the entry is visible when its transaction commits.                  *)
(***************************************************************************)
EXTENDS Option, Sequences, FiniteSets, FiniteSetsExt

CONSTANTS
    FamilyWriter,   \* connections that write
    FamilyChange,   \* rows to upsert: kind, family, revision, hash, status, source
    FamilySnapshot, \* discovery snapshots: revision, families, source
    MaxJournal      \* bound: journal numbers taken in a behaviour

ASSUME FamilyAssumption ==
    /\ MaxJournal \in Nat
    /\ \A c \in FamilyChange :
           /\ DOMAIN c = {"kind", "family", "revision", "hash", "status", "source"}
           /\ c.kind \in {"family_validation", "family_halt"}
    /\ \A s \in FamilySnapshot : DOMAIN s = {"revision", "families", "source"}

VARIABLES
    journal,    \* committed entries of event_journal
    taken,      \* journal numbers taken so far
    view,       \* rows of neg_risk_family_validations and family_halt_settings
    writing,    \* what each writer is doing
    summary     \* a summary that is being loaded

familyVars == <<journal, taken, view, writing, summary>>

FamilyKinds == {"family_validation", "family_halt"}
NoWrite == [stage |-> "idle", change |-> None, entry |-> None, keep |-> {}]
NoSummary == [stage |-> "idle", snapshot |-> None, rows |-> {}, paths |-> {}]

---------------------------------------------------------------------------
(***************************************************************************)
(* Rows and entries                                                        *)
(***************************************************************************)

\* The columns of a row; the source of a change is journalled and not kept.
RowOfChange(c) == [kind |-> c.kind, family |-> c.family, revision |-> c.revision,
                   hash |-> c.hash, status |-> c.status]

RowsAt(kind, family) == {r \in view : r.kind = kind /\ r.family = family}

\* same_validation_state and same_halt_state.
SameState(c) == RowOfChange(c) \in view

\* The dedupe key of an entry, unique over the journal.
DedupeKey(x) ==
    IF x.kind = "neg_risk_discovery_snapshot" THEN <<x.kind, x.payload.source>>
    ELSE <<x.kind, x.payload.family, x.payload.revision, x.payload.hash, x.source>>

JournalEntry(seq, kind, payload, source) ==
    [seq |-> seq, kind |-> kind, payload |-> payload, source |-> source]

EntriesOf(kind) == {x \in journal : x.kind = kind}

Newest(entries) == CHOOSE x \in entries : \A y \in entries : y.seq <= x.seq

\* latest_discovery_snapshot: by journal number, not by revision.
LatestDiscoverySnapshot ==
    IF EntriesOf("neg_risk_discovery_snapshot") = {} THEN None
    ELSE Newest(EntriesOf("neg_risk_discovery_snapshot")).payload

---------------------------------------------------------------------------
(***************************************************************************)
(* Writers                                                                 *)
(***************************************************************************)

FamilyInit ==
    /\ journal = {}
    /\ taken = 0
    /\ view = {}
    /\ writing = [w \in FamilyWriter |-> NoWrite]
    /\ summary = NoSummary

\* The row of a change is locked by a transaction that has selected it for
\* update, or has inserted or updated it.
HoldsRow(w, kind, family) ==
    /\ writing[w].stage \in {"upsert_locked", "journal", "commit"}
    /\ writing[w].change.kind = kind /\ writing[w].change.family = family

LockedByOther(w, kind, family) == \E q \in FamilyWriter \ {w} : HoldsRow(q, kind, family)

\* SELECT ... FOR UPDATE: locks the row when there is one, and returns early when
\* nothing would change.
SelectForUpdate(w, c) ==
    /\ writing[w] = NoWrite
    /\ RowsAt(c.kind, c.family) # {} => ~LockedByOther(w, c.kind, c.family)
    /\ ~SameState(c)
    /\ writing' = [writing EXCEPT ![w] =
           [NoWrite EXCEPT !.stage = IF RowsAt(c.kind, c.family) = {} THEN "upsert" ELSE "upsert_locked",
                           !.change = c]]
    /\ UNCHANGED <<journal, taken, view, summary>>

\* Mutant: the insert does not wait for the transaction that holds the row.
WriteRowUnlocked(w) ==
    /\ writing[w].stage \in {"upsert", "upsert_locked"}
    /\ writing' = [writing EXCEPT ![w].stage = "journal"]
    /\ UNCHANGED <<journal, taken, view, summary>>

\* INSERT ... ON CONFLICT DO UPDATE: waits for the lock and writes, whatever the
\* SELECT saw.  What is written becomes visible with the commit.
WriteRow(w) ==
    /\ \/ writing[w].stage = "upsert_locked"
       \/ /\ writing[w].stage = "upsert"
          /\ ~LockedByOther(w, writing[w].change.kind, writing[w].change.family)
    /\ writing' = [writing EXCEPT ![w].stage = "journal"]
    /\ UNCHANGED <<journal, taken, view, summary>>

AbortWrite(w) ==
    /\ writing' = [writing EXCEPT ![w] = NoWrite]
    /\ UNCHANGED <<journal, view>>

\* Another open transaction has inserted the same dedupe key.
KeyPending(w, key) ==
    \E q \in FamilyWriter \ {w} : writing[q].entry # None /\ DedupeKey(writing[q].entry) = key

\* append_journal_entry: takes the next number; a key that is there is an error,
\* which ends the transaction.
AppendJournalEntry(w) ==
    /\ writing[w].stage = "journal"
    /\ taken < MaxJournal
    /\ LET c == writing[w].change
           x == JournalEntry(taken + 1, c.kind, RowOfChange(c), c.source)
       IN  /\ ~KeyPending(w, DedupeKey(x))
           /\ taken' = taken + 1
           /\ IF \E y \in journal : DedupeKey(y) = DedupeKey(x) THEN AbortWrite(w)
              ELSE /\ writing' = [writing EXCEPT ![w].stage = "commit", ![w].entry = x]
                   /\ UNCHANGED <<journal, view>>
    /\ UNCHANGED summary

CommitUpsert(w) ==
    /\ writing[w].stage = "commit"
    /\ LET c == writing[w].change IN
       view' = (view \ RowsAt(c.kind, c.family)) \cup {RowOfChange(c)}
    /\ journal' = journal \cup {writing[w].entry}
    /\ writing' = [writing EXCEPT ![w] = NoWrite]
    /\ UNCHANGED <<taken, summary>>

\* The connection is lost and the transaction with it.
LoseTransaction(w) == writing[w] # NoWrite /\ AbortWrite(w) /\ UNCHANGED <<taken, summary>>

\* persist_discovery_snapshot: one statement, which takes a number and commits.
PersistDiscoverySnapshot(w, s) ==
    /\ writing[w] = NoWrite
    /\ taken < MaxJournal
    /\ LET x == JournalEntry(taken + 1, "neg_risk_discovery_snapshot", s, s.source) IN
       /\ ~\E y \in journal : DedupeKey(y) = DedupeKey(x)
       /\ ~KeyPending(w, DedupeKey(x))
       /\ writing' = [writing EXCEPT ![w] = [NoWrite EXCEPT !.stage = "snapshot", !.entry = x]]
    /\ taken' = taken + 1
    /\ UNCHANGED <<journal, view, summary>>

CommitSnapshot(w) ==
    /\ writing[w].stage = "snapshot"
    /\ journal' = journal \cup {writing[w].entry}
    /\ writing' = [writing EXCEPT ![w] = NoWrite]
    /\ UNCHANGED <<taken, view, summary>>

\* reconcile_current_family_view: the families of the latest snapshot, whatever
\* revision the caller names; without a snapshot it is an error.
ReadLatestSnapshot(w) ==
    /\ writing[w] = NoWrite
    /\ LatestDiscoverySnapshot # None
    /\ writing' = [writing EXCEPT ![w] =
           [NoWrite EXCEPT !.stage = "delete", !.keep = LatestDiscoverySnapshot.families]]
    /\ UNCHANGED <<journal, taken, view, summary>>

\* The two DELETEs and their commit; they wait for rows that are locked.
DeleteOtherFamilies(w) ==
    /\ writing[w].stage = "delete"
    /\ LET gone == {r \in view : r.family \notin writing[w].keep} IN
       /\ \A r \in gone : ~LockedByOther(w, r.kind, r.family)
       /\ view' = view \ gone
    /\ writing' = [writing EXCEPT ![w] = NoWrite]
    /\ UNCHANGED <<journal, taken, summary>>

---------------------------------------------------------------------------
(***************************************************************************)
(* Readers                                                                 *)
(***************************************************************************)

\* load_neg_risk_foundation_summary, its first query: without a snapshot there
\* is no summary.
LoadSnapshot ==
    /\ summary.stage \in {"idle", "done"}
    /\ LatestDiscoverySnapshot # None
    /\ summary' = [NoSummary EXCEPT !.stage = "rows", !.snapshot = LatestDiscoverySnapshot]
    /\ UNCHANGED <<journal, taken, view, writing>>

\* Its rows: of the families and of the revision of the snapshot.
LoadRows ==
    /\ summary.stage = "rows"
    /\ summary' = [summary EXCEPT !.stage = "paths",
           !.rows = {r \in view : r.family \in summary.snapshot.families
                                  /\ r.revision = summary.snapshot.revision}]
    /\ UNCHANGED <<journal, taken, view, writing>>

\* Mutant: the newest entry per kind and family.
LoadMemberVectorPathsOfFamily ==
    /\ summary.stage = "paths"
    /\ summary' = [summary EXCEPT !.stage = "done",
           !.paths = {x \in journal :
                         /\ x.kind \in FamilyKinds
                         /\ \A y \in journal :
                                y.kind = x.kind /\ y.payload.family = x.payload.family => y.seq <= x.seq}]
    /\ UNCHANGED <<journal, taken, view, writing>>

\* latest_member_vector_paths: the newest entry per kind, family and hash.
LoadMemberVectorPaths ==
    /\ summary.stage = "paths"
    /\ summary' = [summary EXCEPT !.stage = "done",
           !.paths = {x \in journal :
                         /\ x.kind \in FamilyKinds
                         /\ \A y \in journal :
                                /\ y.kind = x.kind /\ y.payload.family = x.payload.family
                                /\ y.payload.hash = x.payload.hash
                                => y.seq <= x.seq}]
    /\ UNCHANGED <<journal, taken, view, writing>>

FamilyNext ==
    \/ \E w \in FamilyWriter :
           \/ \E c \in FamilyChange : SelectForUpdate(w, c)
           \/ WriteRow(w) \/ AppendJournalEntry(w) \/ CommitUpsert(w) \/ LoseTransaction(w)
           \/ \E s \in FamilySnapshot : PersistDiscoverySnapshot(w, s)
           \/ CommitSnapshot(w) \/ ReadLatestSnapshot(w) \/ DeleteOtherFamilies(w)
    \/ LoadSnapshot \/ LoadRows \/ LoadMemberVectorPaths

FamilySpec == FamilyInit /\ [][FamilyNext]_familyVars

---------------------------------------------------------------------------
(***************************************************************************)
(* Properties                                                              *)
(***************************************************************************)

\* A row of the current view is what the newest entry of its family and kind
\* says: concurrent upserts of a family that has no row yet pass SELECT ... FOR
\* UPDATE together, and still commit in the order of their journal numbers.
RowIsLatestJournalled ==
    \A r \in view :
        LET mine == {x \in EntriesOf(r.kind) : x.payload.family = r.family}
        IN  mine # {} /\ Newest(mine).payload = r

\* Every family a finished summary shows as validated or halted has the journal
\* entry with its members, though rows and entries are read by separate queries
\* while writers commit and reconciles delete.
SummaryHasMemberVectors ==
    summary.stage = "done" =>
        \A r \in summary.rows :
            \E x \in summary.paths : x.kind = r.kind /\ x.payload.family = r.family /\ x.payload.hash = r.hash
=============================================================================
