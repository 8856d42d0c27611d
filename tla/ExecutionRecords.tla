-------------------------- MODULE ExecutionRecords --------------------------
(***************************************************************************)
(* The execution tables (crates/persistence/src/repos.rs:                  *)
(* ExecutionAttemptRepo, ShadowArtifactRepo, LiveArtifactRepo,             *)
(* LiveSubmissionRepo, PendingReconcileRepo and                            *)
(* append_shadow_execution_batch).                                         *)
(*                                                                         *)
(* Attempts, live artifacts, submissions and pending items are appended by *)
(* one statement each.  A shadow batch appends its attempts and artifacts  *)
(* in one transaction, row by row: an insert of a key that another open    *)
(* transaction has inserted waits for it, and everything committed is      *)
(* visible to the next statement (read committed).  Rows are never updated *)
(* or deleted.                                                             *)
(***************************************************************************)
EXTENDS Option, Sequences, FiniteSets, SequencesExt

CONSTANTS
    BatchWriter,    \* connections that record shadow batches
    ProcessOf,      \* the process each of them belongs to
    ShadowBatch,    \* batches: session, rows (attempts, then artifacts, in order)
    RecordedLiveAttempt, \* live attempts that runs append
    LiveFollowUp    \* artifacts, submissions and pending items that runs append

\* SHADOW_ARTIFACT_STREAM: execute_shadow_family makes one artifact of each of
\* its attempts, of this stream.
ShadowArtifactStream == "neg-risk-shadow-plan"

\* What eligible_shadow_records makes: attempts of shadow mode, each with its
\* artifact, recorded after them.
WellFormedBatch(b) ==
    /\ b.rows \in Seq(ToSet(b.rows))
    /\ b.rows # <<>> /\ b.rows[1].kind = "attempt"
    /\ \A i, j \in DOMAIN b.rows :
           b.rows[i].kind = "attempt" /\ b.rows[j].kind = "artifact" => i < j
    /\ \A i \in DOMAIN b.rows :
           /\ b.rows[i].kind \in {"attempt", "artifact"} /\ b.rows[i].attempt.mode = "shadow"
           /\ b.rows[i].kind = "artifact" => b.rows[i].stream = ShadowArtifactStream
           /\ \E j \in DOMAIN b.rows :
                  b.rows[j].kind # b.rows[i].kind /\ b.rows[j].attempt = b.rows[i].attempt

ASSUME RecordsAssumption ==
    /\ \A b \in ShadowBatch : WellFormedBatch(b)
    /\ \A l \in RecordedLiveAttempt : l.mode = "live"

VARIABLES
    attemptRows,        \* rows of execution_attempts, each with its created_at
    shadowArtifacts,    \* rows of shadow_execution_artifacts: a sequence, by artifact_id
    liveRecords,        \* rows of live_execution_artifacts, live_submission_records
                        \* and pending_reconcile_items
    batches             \* the transaction of each batch writer

recordVars == <<attemptRows, shadowArtifacts, liveRecords, batches>>

NoBatch == [batch |-> None, step |-> 0, attempts |-> {}, artifacts |-> <<>>, begun |-> 0]

---------------------------------------------------------------------------
(***************************************************************************)
(* Queries                                                                 *)
(***************************************************************************)

AttemptsWithId(rows, id) == {a \in rows : a.attempt.id = id}

\* shadow_attempt_rows_are_equivalent: the session does not count.
ShadowAttemptRowsAreEquivalent(existing, desired) ==
    /\ existing.id = desired.id /\ existing.route = desired.route /\ existing.scope = desired.scope
    /\ existing.mode = desired.mode /\ existing.snapshot = desired.snapshot

ListAttemptsByMode(mode) == {a \in attemptRows : a.attempt.mode = mode}

ListByRunSessionId(session) == {a \in attemptRows : a.attempt.session = session}

ListBySnapshotId(snapshot) == {a \in attemptRows : a.attempt.snapshot = snapshot}

ListCreatedSince(at) == {a \in attemptRows : a.at >= at}

\* ORDER BY created_at DESC, attempt_id DESC: rows of one transaction share
\* their created_at, and an attempt id is greater in model order.
NewerAttempt(a, b) == a.at > b.at \/ (a.at = b.at /\ a.attempt.rank >= b.attempt.rank)

\* LIMIT n of the rows in that order.
RecentOf(rows, n) == {a \in rows : Cardinality({b \in rows : b # a /\ NewerAttempt(b, a)}) < n}

ListRecentByMode(mode, n) == RecentOf(ListAttemptsByMode(mode), n)

ListRecentByModeAndRoute(mode, route, n) ==
    RecentOf({a \in ListAttemptsByMode(mode) : a.attempt.route = route}, n)

---------------------------------------------------------------------------
(***************************************************************************)
(* A shadow batch                                                          *)
(***************************************************************************)

RecordsInit ==
    /\ attemptRows = {}
    /\ shadowArtifacts = <<>>
    /\ liveRecords = {}
    /\ batches = [w \in BatchWriter |-> NoBatch]

\* shadow_batch_guard_key.
GuardKey(b) ==
    LET ids == {i \in DOMAIN b.rows : b.rows[i].kind = "attempt"}
    IN  <<b.session, Cardinality(ids), b.rows[1].attempt.id, b.rows[Cardinality(ids)].attempt.id>>

\* ActiveShadowBatchGuard: a process records a batch once at a time; a second
\* call returns an error.  Then the transaction begins, and its created_at.
BeginBatch(w, b) ==
    /\ batches[w] = NoBatch
    /\ \A q \in BatchWriter :
           ProcessOf[q] = ProcessOf[w] /\ batches[q] # NoBatch => GuardKey(batches[q].batch) # GuardKey(b)
    /\ batches' = [batches EXCEPT ![w] =
           [NoBatch EXCEPT !.batch = b, !.step = 1, !.begun = Cardinality(attemptRows)]]
    /\ UNCHANGED <<attemptRows, shadowArtifacts, liveRecords>>

NextRow(w) == batches[w].batch.rows[batches[w].step]

AtRow(w, kind) ==
    /\ batches[w] # NoBatch
    /\ batches[w].step <= Len(batches[w].batch.rows)
    /\ NextRow(w).kind = kind

\* An error drops the transaction, and the guard with it.
RollBack(w) ==
    /\ batches' = [batches EXCEPT ![w] = NoBatch]
    /\ UNCHANGED <<attemptRows, shadowArtifacts, liveRecords>>

NextStatement(w) ==
    /\ batches' = [batches EXCEPT ![w].step = @ + 1]
    /\ UNCHANGED <<attemptRows, shadowArtifacts, liveRecords>>

\* Another open transaction has inserted this attempt.
InsertedByOther(w, id) == \E q \in BatchWriter \ {w} : AttemptsWithId(batches[q].attempts, id) # {}

\* What the statements of a transaction see.
VisibleAttempts(w) == attemptRows \cup batches[w].attempts
VisibleArtifacts(w) == shadowArtifacts \o batches[w].artifacts

\* append_shadow_execution_attempt_idempotent: ON CONFLICT DO NOTHING, then the
\* row that is there has to be equivalent.
AppendShadowAttempt(w) ==
    /\ AtRow(w, "attempt")
    /\ ~InsertedByOther(w, NextRow(w).attempt.id)
    /\ LET row == NextRow(w).attempt
           existing == AttemptsWithId(VisibleAttempts(w), row.id)
       IN  IF existing = {}
           THEN /\ batches' = [batches EXCEPT ![w].step = @ + 1,
                       ![w].attempts = @ \cup {[attempt |-> row, at |-> batches[w].begun]}]
                /\ UNCHANGED <<attemptRows, shadowArtifacts, liveRecords>>
           ELSE IF \E a \in existing : ShadowAttemptRowsAreEquivalent(a.attempt, row)
           THEN NextStatement(w) ELSE RollBack(w)

ArtifactOf(row) == [attempt |-> row.attempt.id, stream |-> row.stream, payload |-> row.payload]

\* append_shadow_execution_artifact_idempotent: SELECT the first artifact of the
\* stream, and INSERT only if there is none; the attempt has to be a shadow one.
AppendShadowArtifact(w) ==
    /\ AtRow(w, "artifact")
    /\ LET artifact == ArtifactOf(NextRow(w))
           visible == VisibleArtifacts(w)
           existing == {i \in DOMAIN visible : /\ visible[i].attempt = artifact.attempt
                                               /\ visible[i].stream = artifact.stream}
           shadow == {a \in AttemptsWithId(VisibleAttempts(w), artifact.attempt) : a.attempt.mode = "shadow"}
       IN  IF existing # {}
           THEN IF visible[Min(existing)].payload = artifact.payload THEN NextStatement(w) ELSE RollBack(w)
           ELSE IF shadow = {} THEN RollBack(w)
           ELSE /\ batches' = [batches EXCEPT ![w].step = @ + 1, ![w].artifacts = Append(@, artifact)]
                /\ UNCHANGED <<attemptRows, shadowArtifacts, liveRecords>>

\* Mutant: the attempts are committed before the artifacts are recorded.
CommitBatchEarly(w) ==
    /\ batches[w] # NoBatch
    /\ \/ /\ AtRow(w, "artifact")
          /\ batches[w].attempts # {}
          /\ attemptRows' = attemptRows \cup batches[w].attempts
          /\ batches' = [batches EXCEPT ![w].attempts = {}]
          /\ UNCHANGED shadowArtifacts
       \/ /\ batches[w].step > Len(batches[w].batch.rows)
          /\ attemptRows' = attemptRows \cup batches[w].attempts
          /\ shadowArtifacts' = shadowArtifacts \o batches[w].artifacts
          /\ batches' = [batches EXCEPT ![w] = NoBatch]
    /\ UNCHANGED liveRecords

CommitBatch(w) ==
    /\ batches[w] # NoBatch
    /\ batches[w].step > Len(batches[w].batch.rows)
    /\ attemptRows' = attemptRows \cup batches[w].attempts
    /\ shadowArtifacts' = shadowArtifacts \o batches[w].artifacts
    /\ batches' = [batches EXCEPT ![w] = NoBatch]
    /\ UNCHANGED liveRecords

\* The connection is lost, the process ends, or the database breaks a deadlock.
LoseBatch(w) == batches[w] # NoBatch /\ RollBack(w)

---------------------------------------------------------------------------
(***************************************************************************)
(* Live records                                                            *)
(***************************************************************************)

\* append_execution_attempt: a key that is there is an error and changes nothing.
AppendLiveAttempt(l) ==
    /\ AttemptsWithId(attemptRows, l.id) = {}
    /\ \A w \in BatchWriter : AttemptsWithId(batches[w].attempts, l.id) = {}
    /\ attemptRows' = attemptRows \cup {[attempt |-> l, at |-> Cardinality(attemptRows)]}
    /\ UNCHANGED <<shadowArtifacts, liveRecords, batches>>

LiveAttemptsWithId(id) == {a \in AttemptsWithId(attemptRows, id) : a.attempt.mode = "live"}

\* validate_live_submission_record_row and ..._against_attempt: the anchor in the
\* payload names the row, and the row its attempt.
ValidSubmission(r) ==
    /\ r.anchor.ref = r.key /\ r.anchor.scope = r.scope /\ r.anchor.route = r.route
    /\ r.state \in {"submitted", "pending_reconcile"}
    /\ \E a \in LiveAttemptsWithId(r.attempt) : a.attempt.route = r.route /\ a.attempt.scope = r.scope

\* validate_pending_reconcile_row.
ValidPending(r) == r.anchor.scope = r.scope /\ r.anchor.reason = r.reason

\* What each of the three appends asks for before it inserts.
Acceptable(r) ==
    CASE r.table = "live_execution_artifacts" -> LiveAttemptsWithId(r.attempt) # {}
      [] r.table = "live_submission_records" -> ValidSubmission(r)
      [] OTHER -> ValidPending(r)

\* LiveArtifactRepo, LiveSubmissionRepo and PendingReconcileRepo append: a key that
\* is there is confirmed or refused, and changes nothing.
AppendLiveFollowUp(r) ==
    /\ Acceptable(r)
    /\ ~\E x \in liveRecords : x.table = r.table /\ x.key = r.key
    /\ liveRecords' = liveRecords \cup {r}
    /\ UNCHANGED <<attemptRows, shadowArtifacts, batches>>

RecordsNext ==
    \/ \E w \in BatchWriter :
           \/ \E b \in ShadowBatch : BeginBatch(w, b)
           \/ AppendShadowAttempt(w) \/ AppendShadowArtifact(w) \/ CommitBatch(w) \/ LoseBatch(w)
    \/ \E l \in RecordedLiveAttempt : AppendLiveAttempt(l)
    \/ \E r \in LiveFollowUp : AppendLiveFollowUp(r)

RecordsSpec == RecordsInit /\ [][RecordsNext]_recordVars
=============================================================================
