---------------------------- MODULE LiveStartup ----------------------------
(***************************************************************************)
(* A live start of app-live against the database and the venue             *)
(* (crates/app-live/src/{commands/run,daemon,runtime,supervisor,           *)
(* negrisk_live,negrisk_shadow,run_session}.rs and the repositories of     *)
(* crates/persistence they call).                                          *)
(*                                                                         *)
(* A run registers its session, loads the durable progress and the durable *)
(* execution records in separate queries, restores a store from them, and, *)
(* when nothing durable forbids it, submits every eligible family to the   *)
(* venue, applies one submit fact, and only then writes the attempt, the   *)
(* submission and the progress, each in a transaction of its own.  It may  *)
(* fail or crash between any two of these, and nothing keeps a second      *)
(* process from doing the same at the same time.                           *)
(***************************************************************************)
EXTENDS RuntimeOps, Risk, FiniteSetsExt

CONSTANTS
    Process,        \* places an operator may start app-live run from
    Config,         \* configurations a run may be started with
    MaxRuns,        \* bound: runs started in a behaviour
    MaxOverlapping  \* bound: runs started in a behaviour in which runs overlap

ASSUME StartupAssumption ==
    /\ {MaxRuns, MaxOverlapping} \subseteq Nat
    /\ Kind = [f \in Fact |-> "Pending"]
    /\ \A m \in Family : \E f \in Fact : FamilyOf[f] = m
    /\ \A c \in Config :
           /\ DOMAIN c = {"smoke", "revision", "targets", "approved", "ready"}
           /\ c.smoke \in BOOLEAN
           /\ c.targets \in Seq(Family)
           /\ c.approved \subseteq Family \cup {DefaultScope}
           /\ c.ready \subseteq Family

VARIABLES
    progress,       \* the row of runtime_apply_progress, or None
    attempts,       \* rows of execution_attempts
    submissions,    \* attempts that have a row in live_submission_records
    artifacts,      \* attempts that have a row in shadow_execution_artifacts
    anchors,        \* rows of pending_reconcile_items: read at a start, written by no one
    sessions,       \* state of the run_sessions row of each run, or None
    venue,          \* orders the venue has accepted, per family
    proc,           \* the processes and their memory
    crashed,        \* history: the runs whose process has crashed
    unclosed,       \* history: the runs that could not update their session
    overlapped      \* history: a run was started while another was under way

durableVars == <<progress, attempts, submissions, artifacts, anchors>>
historyVars == <<crashed, unclosed, overlapped>>
vars == <<durableVars, sessions, venue, proc, historyVars>>

Run == 1..MaxRuns

\* An attempt id is derived from the snapshot, and so from the state version,
\* and from the family; live and shadow attempts never share one.
ExecutionAttempt(mode, st, m) == [mode |-> mode, version |-> st.version, family |-> m]

AttemptsOf(mode, rows) == {a \in rows : a.mode = mode}

SubmitFact(m) == CHOOSE f \in Fact : FamilyOf[f] = m

\* The memory of a process: the run it executes, what it has loaded, its store,
\* the positions of the families still to submit in its configuration, the
\* families submitted, and the records it has applied and not yet written.
Idle == [pc |-> "idle", run |-> 0, config |-> None, progress |-> None, loaded |-> {},
         st |-> NewStore, todo |-> {}, submitted |-> <<>>, records |-> <<>>]

---------------------------------------------------------------------------
(***************************************************************************)
(* What a start decides                                                    *)
(***************************************************************************)

\* One live rule per approved family.
LivePolicy(config) == FromRules([key \in {"neg-risk"} \X config.approved |-> "Live"])

ShadowPolicy(config) == WithRealUserShadowSmoke(LivePolicy(config))

\* Where the families a start executes are among the targets, which are in key
\* order; live_records has the live policy, shadow_records the clamped one.
EligibleUnder(policy, config) ==
    {i \in DOMAIN config.targets :
        /\ config.targets[i] \in config.ready
        /\ EvaluateDecision("Strategy", ActivationFor(policy, "neg-risk", config.targets[i]))
               = "Approved"}

EligibleLiveRecords(config) == EligibleUnder(LivePolicy(config), config)

EligibleShadowRecords(config) == EligibleUnder(ShadowPolicy(config), config)

\* The gate in front of them counts the families approved by name.
LiveReadyCount(config) ==
    Cardinality({i \in DOMAIN config.targets :
                    config.targets[i] \in config.ready \cap config.approved})

FollowUpWork(live, shadow) == anchors # {} \/ live # {} \/ shadow # {}

\* validate_operator_revision, durable_progress_anchor and the checks on
\* half-written records and on a smoke start: what refuses a start.
LoadRefused(config, seen, live, shadow) ==
    \/ \E a \in live : a \notin submissions
    \/ \E a \in shadow : a \notin artifacts
    \/ /\ FollowUpWork(live, shadow)
       /\ \/ seen = None
          \/ config.revision # None /\ seen.revision # config.revision
    \/ config.smoke /\ live # {}

\* Mutant: the durable progress is not restored.
RestoredStoreFromZero(seen, refs) ==
    [RestoreCommittedAnchor(NewStore, 0, 0) EXCEPT !.pending = refs]

\* restore_seeded_startup_state: the committed anchor, then the pending ones.
RestoredStore(seen, refs) ==
    LET anchored == IF seen = None THEN RestoreCommittedAnchor(NewStore, 0, 0)
                    ELSE RestoreCommittedAnchor(NewStore, seen.version, seen.seq)
    IN  [ApplyRestorePosture([anchored EXCEPT !.pending = refs]) EXCEPT !.first_reconcile = TRUE]

\* Only records of the published snapshot are kept.
Retained(st, rows) == {a \in rows : a.version = st.version}

\* Mutant: durable records do not stand in the way of a new submit.
AllowSynthesisDespiteRecords(st, rows) == st.pending = {} /\ anchors = {}

\* allow_operator_rollout_evidence_synthesis for a start that was seeded.
AllowSynthesis(st, rows) == st.pending = {} /\ rows = {} /\ anchors = {}

---------------------------------------------------------------------------
(***************************************************************************)
(* A run                                                                   *)
(***************************************************************************)

StartupInit ==
    /\ progress = None
    /\ attempts = {}
    /\ submissions = {}
    /\ artifacts = {}
    /\ anchors = {}
    /\ sessions = [r \in Run |-> None]
    /\ venue = [m \in Family |-> 0]
    /\ proc = [p \in Process |-> Idle]
    /\ crashed = {}
    /\ unclosed = {}
    /\ overlapped = FALSE

Goto(p, pc) == proc' = [proc EXCEPT ![p].pc = pc]

\* RunSessionHandle::create_starting.
StartRun(p, config) ==
    /\ proc[p].pc = "idle"
    /\ overlapped' = (overlapped \/ \E q \in Process : proc[q].pc # "idle")
    /\ \E r \in Run :
           /\ sessions[r] = None
           /\ \A q \in 1..(r - 1) : sessions[q] # None
           /\ overlapped' => r <= MaxOverlapping
           /\ sessions' = [sessions EXCEPT ![r] = "starting"]
           /\ proc' = [proc EXCEPT ![p] = [Idle EXCEPT !.pc = "load_progress", !.run = r,
                                                       !.config = config]]
    /\ UNCHANGED <<durableVars, venue, crashed, unclosed>>

LoadProgress(p) ==
    /\ proc[p].pc = "load_progress"
    /\ proc' = [proc EXCEPT ![p].pc = "load_attempts", ![p].progress = progress]
    /\ UNCHANGED <<durableVars, sessions, venue, historyVars>>

LoadAttempts(p) ==
    /\ proc[p].pc = "load_attempts"
    /\ proc' = [proc EXCEPT ![p].pc = "load_records",
                            ![p].loaded = AttemptsOf("Live", attempts)]
    /\ UNCHANGED <<durableVars, sessions, venue, historyVars>>

\* The submissions of the attempts already loaded, the pending anchors and, for
\* a smoke start, the shadow attempts; then everything is validated.
LoadRecords(p) ==
    LET me     == proc[p]
        shadow == IF me.config.smoke THEN AttemptsOf("Shadow", attempts) ELSE {}
    IN  /\ me.pc = "load_records"
        /\ IF LoadRefused(me.config, me.progress, me.loaded, shadow)
           THEN Goto(p, "failed")
           ELSE proc' = [proc EXCEPT ![p].pc = "restore", ![p].loaded = me.loaded \cup shadow]
        /\ UNCHANGED <<durableVars, sessions, venue, historyVars>>

\* run_once up to the first effect: restore, publish, and decide whether to
\* submit, to record shadow attempts, or neither.
Restore(p) ==
    LET me      == proc[p]
        st      == RestoredStore(me.progress, anchors)
        kept    == Retained(st, me.loaded)
        allowed == AllowSynthesis(st, kept) /\ LiveReadyCount(me.config) > 0
    IN  /\ me.pc = "restore"
        /\ proc' = [proc EXCEPT
               ![p].st = st,
               ![p].loaded = kept,
               ![p].todo = CASE ~allowed -> {}
                             [] allowed /\ me.config.smoke -> EligibleShadowRecords(me.config)
                             [] OTHER -> EligibleLiveRecords(me.config),
               ![p].pc = IF AttemptsOf("Shadow", me.loaded) # {} /\ AttemptsOf("Shadow", kept) = {}
                         THEN "failed"
                         ELSE IF ~allowed THEN "persist_progress"
                         ELSE IF me.config.smoke THEN "persist_shadow" ELSE "submit"]
        /\ UNCHANGED <<durableVars, sessions, venue, historyVars>>

\* Families are submitted one after the other, in the order of the targets.
NextFamily(me) == me.config.targets[Min(me.todo)]

\* The venue took the order and the answer says so.
SubmitAccepted(p) ==
    LET me == proc[p]
        m  == NextFamily(me)
    IN  /\ me.pc = "submit" /\ me.todo # {}
        /\ venue' = [venue EXCEPT ![m] = @ + 1]
        /\ proc' = [proc EXCEPT ![p].todo = me.todo \ {Min(me.todo)},
                                ![p].submitted = Append(me.submitted, m)]
        /\ UNCHANGED <<durableVars, sessions, historyVars>>

\* A rejection, a lost answer to an order the venue may have taken, or an
\* answer that cannot be read: each ends the run.
SubmitFailed(p, reached) ==
    LET me == proc[p]
    IN  /\ me.pc = "submit" /\ me.todo # {}
        /\ venue' = IF reached THEN [venue EXCEPT ![NextFamily(me)] = @ + 1] ELSE venue
        /\ Goto(p, "failed")
        /\ UNCHANGED <<durableVars, sessions, historyVars>>

\* Mutant: the loop over the submitted families has no break.
AppliedSubmitsWithoutBreak(st, submitted) ==
    LET upTo[n \in 0..Len(submitted)] ==
            IF n = 0 THEN [st |-> st, records |-> <<>>]
            ELSE LET before == upTo[n - 1]
                 IN  [st |-> ApplyInputStore(before.st, before.st.last_consumed + 1,
                                             SubmitFact(submitted[n])),
                      records |-> Append(before.records, submitted[n])]
    IN  upTo[Len(submitted)]

\* apply_live_submit_facts over the submitted families, up to the n-th: it
\* stops as soon as something is pending.
AppliedSubmits(st, submitted) ==
    LET upTo[n \in 0..Len(submitted)] ==
            IF n = 0 THEN [st |-> st, records |-> <<>>]
            ELSE LET before == upTo[n - 1]
                 IN  IF before.st.pending # {} THEN before
                     ELSE [st |-> ApplyInputStore(before.st, before.st.last_consumed + 1,
                                                  SubmitFact(submitted[n])),
                           records |-> Append(before.records, submitted[n])]
    IN  upTo[Len(submitted)]

\* The bound JournalSeq leaves room for the fact of one submit.
ApplySubmitFacts(p) ==
    LET me      == proc[p]
        applied == AppliedSubmits(me.st, me.submitted)
    IN  /\ me.pc = "submit" /\ me.todo = {}
        /\ me.st.last_consumed + 1 \in JournalSeq
        /\ proc' = [proc EXCEPT ![p].st = applied.st, ![p].records = applied.records,
                                ![p].pc = "persist_attempt"]
        /\ UNCHANGED <<durableVars, sessions, venue, historyVars>>

LiveAttempt(me, m) == ExecutionAttempt("Live", me.st, m)

\* execute_shadow_family: planned and recorded, never sent; the attempt and one
\* artifact of its plan.
ShadowAttempt(me, m) == ExecutionAttempt("Shadow", me.st, m)

\* ExecutionAttemptRepo::append: a row that exists already ends the run.
PersistAttempt(p) ==
    LET me  == proc[p]
        row == LiveAttempt(me, Head(me.records))
    IN  /\ me.pc = "persist_attempt" /\ me.records # <<>>
        /\ IF row \in attempts
           THEN Goto(p, "failed") /\ UNCHANGED attempts
           ELSE Goto(p, "persist_submission") /\ attempts' = attempts \cup {row}
        /\ UNCHANGED <<progress, submissions, artifacts, anchors, sessions, venue, historyVars>>

PersistSubmission(p) ==
    LET me == proc[p]
    IN  /\ me.pc = "persist_submission"
        /\ submissions' = submissions \cup {LiveAttempt(me, Head(me.records))}
        /\ proc' = [proc EXCEPT ![p].records = Tail(me.records), ![p].pc = "persist_attempt"]
        /\ UNCHANGED <<progress, attempts, artifacts, anchors, sessions, venue, historyVars>>

RecordsPersisted(p) ==
    /\ proc[p].pc = "persist_attempt" /\ proc[p].records = <<>>
    /\ Goto(p, "persist_progress")
    /\ UNCHANGED <<durableVars, sessions, venue, historyVars>>

\* append_shadow_execution_batch: attempts and artifacts in one transaction,
\* rows that exist already are accepted.
PersistShadowBatch(p) ==
    LET me   == proc[p]
        rows == {ShadowAttempt(me, me.config.targets[i]) : i \in me.todo}
    IN  /\ me.pc = "persist_shadow"
        /\ attempts' = attempts \cup rows
        /\ artifacts' = artifacts \cup rows
        /\ Goto(p, "persist_progress")
        /\ UNCHANGED <<progress, submissions, anchors, sessions, venue, historyVars>>

\* persist_operator_target_revision_anchor: the row is overwritten with what
\* this process believes; a start without a revision writes none.
PersistProgress(p) ==
    LET me == proc[p]
    IN  /\ me.pc = "persist_progress"
        /\ progress' = IF me.config.revision = None THEN progress
                       ELSE [seq |-> me.st.last_consumed, version |-> me.st.version,
                             revision |-> me.config.revision, run |-> me.run]
        /\ Goto(p, "mark_running")
        /\ UNCHANGED <<attempts, submissions, artifacts, anchors, sessions, venue, historyVars>>

MarkRunning(p) ==
    /\ proc[p].pc = "mark_running"
    /\ sessions' = [sessions EXCEPT ![proc[p].run] = "running"]
    /\ Goto(p, "refresh_last_seen")
    /\ UNCHANGED <<durableVars, venue, historyVars>>

\* The time a session was last seen is not in its state.
RefreshLastSeen(p) ==
    /\ proc[p].pc = "refresh_last_seen"
    /\ Goto(p, "mark_exited")
    /\ UNCHANGED <<durableVars, sessions, venue, historyVars>>

MarkExited(p) ==
    /\ proc[p].pc = "mark_exited"
    /\ sessions' = [sessions EXCEPT ![proc[p].run] = "exited"]
    /\ proc' = [proc EXCEPT ![p] = Idle]
    /\ UNCHANGED <<durableVars, venue, historyVars>>

\* Mutant: a failed run leaves its session as it is.
MarkFailedNowhere(p) ==
    /\ proc[p].pc = "failed"
    /\ proc' = [proc EXCEPT ![p] = Idle]
    /\ UNCHANGED <<durableVars, sessions, venue, historyVars>>

MarkFailed(p) ==
    /\ proc[p].pc = "failed"
    /\ sessions' = [sessions EXCEPT ![proc[p].run] = "failed"]
    /\ proc' = [proc EXCEPT ![p] = Idle]
    /\ UNCHANGED <<durableVars, venue, historyVars>>

\* A database call of the start fails before it has an effect.
PersistenceError(p) ==
    /\ \/ proc[p].pc \in {"load_progress", "load_attempts", "load_records",
                          "persist_submission", "persist_shadow", "persist_progress"}
       \/ proc[p].pc = "persist_attempt" /\ proc[p].records # <<>>
    /\ Goto(p, "failed")
    /\ UNCHANGED <<durableVars, sessions, venue, historyVars>>

\* mark_running, refresh_last_seen, mark_exited or mark_failed fails: the run
\* returns with the error, and its session stays as it was.
SessionUpdateError(p) ==
    /\ proc[p].pc \in {"mark_running", "refresh_last_seen", "mark_exited", "failed"}
    /\ unclosed' = unclosed \cup {proc[p].run}
    /\ proc' = [proc EXCEPT ![p] = Idle]
    /\ UNCHANGED <<durableVars, sessions, venue, crashed, overlapped>>

\* The process dies.
Crash(p) ==
    /\ proc[p].pc # "idle"
    /\ crashed' = crashed \cup {proc[p].run}
    /\ proc' = [proc EXCEPT ![p] = Idle]
    /\ UNCHANGED <<durableVars, sessions, venue, unclosed, overlapped>>

\* What the process does of its own accord once it has been started.
ProcessStep(p) ==
    \/ LoadProgress(p) \/ LoadAttempts(p) \/ LoadRecords(p) \/ Restore(p)
    \/ SubmitAccepted(p) \/ \E reached \in BOOLEAN : SubmitFailed(p, reached)
    \/ ApplySubmitFacts(p)
    \/ PersistAttempt(p) \/ PersistSubmission(p) \/ RecordsPersisted(p)
    \/ PersistShadowBatch(p) \/ PersistProgress(p)
    \/ MarkRunning(p) \/ RefreshLastSeen(p) \/ MarkExited(p) \/ MarkFailed(p)
    \/ PersistenceError(p) \/ SessionUpdateError(p)

StartupNext ==
    \E p \in Process :
        \/ \E config \in Config : StartRun(p, config)
        \/ ProcessStep(p)
        \/ Crash(p)

StartupSpec ==
    /\ StartupInit
    /\ [][StartupNext]_vars
    /\ \A p \in Process : WF_vars(ProcessStep(p))

---------------------------------------------------------------------------
(***************************************************************************)
(* Properties                                                              *)
(***************************************************************************)

LiveAttempts == AttemptsOf("Live", attempts)

\* "restart refusing to re-submit when durable live truth already exists": once
\* a live attempt is durable, in whatever state the run that wrote it ended,
\* no later run submits anything, as long as runs follow each other (the load
\* checks, retain_current_neg_risk_live_execution_records,
\* allow_operator_rollout_evidence_synthesis).
RecordedNeverResubmitted ==
    [][~overlapped /\ LiveAttempts # {} => venue' = venue]_vars

\* Runs that follow each other record at most one live family, whatever the
\* number they submitted (the break of apply_live_submit_facts).
AtMostOneLiveRecord == ~overlapped => Cardinality(LiveAttempts) <= 1

\* The journal position the database remembers is never taken back by a run
\* that follows another (durable_progress_anchor, restore_committed_anchor, record_progress).
ProgressNeverRegresses ==
    [][~overlapped /\ progress # None =>
          progress'.seq >= progress.seq /\ progress'.version >= progress.version]_vars

\* Every run ends, and whichever of its steps fails it closes its session:
\* only a crash, and a failed update of the session itself, leave one open
\* (run_from_config_path_for_source over every error of the start).
SessionsEnd ==
    []<>(\A r \in Run : sessions[r] \in {None, "exited", "failed"} \/ r \in crashed \cup unclosed)

\* "Restart must never re-submit live attempts simply because loops restarted."
RestartNeverResubmits == \A m \in Family : venue[m] <= 1

\* Every submit whose outcome is not settled "must create at least one durable
\* follow-up artifact": after runs that did not crash, an order at the venue
\* has a durable attempt.
AcceptedHasFollowUp ==
    (crashed = {} /\ \A p \in Process : proc[p].pc = "idle") =>
        \A m \in Family : venue[m] > 0 => \E a \in LiveAttempts : a.family = m

Restored(p) ==
    proc[p].pc \in {"submit", "persist_attempt", "persist_submission", "persist_shadow",
                    "persist_progress", "mark_running", "refresh_last_seen", "mark_exited"}

\* "durable pending-reconcile anchors, and fail-closed restart restore": a start
\* that loaded a live submission knows that it is pending.
RestartKeepsPending ==
    \A p \in Process :
        Restored(p) /\ AttemptsOf("Live", proc[p].loaded) # {} => proc[p].st.pending # {}

=============================================================================
