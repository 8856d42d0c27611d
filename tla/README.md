# A TLA+ model of AxiomArb

AxiomArb (the Rust workspace under `src/`) is a live trading engine for
Polymarket with its operator tooling.  This directory holds TLA+ modules that
model its core, TLC configurations that check them on small instances, and
TLAPS proofs of the results that should hold for every instance.
`PROJECT.json` maps every definition to the lines it models and lists
components, hazards, runs, mutants, findings and theorems.

## 1. The system

| part | state it keeps | operations | talks to |
|---|---|---|---|
| state store, applier (`crates/state`) | version, consumed and applied journal numbers, pending reconciles, discovery records, open orders and four other tables, posture | `apply`, `reconcile`, `record_local_*`, `restore_*` | owned by the runtime |
| runtime (`app-live/src/runtime.rs`) | a store, the published snapshot | bootstrap, reconcile, apply, publish, replay, restore | called by the supervisor |
| dispatcher (`app-live/src/dispatch.rs`) | dirty records, last ready snapshot per route | `record_apply`, `observe_snapshot`, `flush` | called by the supervisor |
| supervisor, daemon (`supervisor.rs`, `daemon.rs`) | runtime, dispatcher, input queue, committed log, live and shadow records, rollout evidence, seeds | `run_once`, `resume_once`, seeds, discovery drains | runtime, dispatcher, venue, database |
| live start (`commands/run.rs`, `daemon.rs`, `runtime.rs`) | rows of progress, attempts, submissions, artifacts, sessions | one run: load, restore, submit, write | database, venue, supervisor |
| persistence (`crates/persistence`) | PostgreSQL tables | repositories, one transaction per call | every command |
| risk (`crates/risk`) | rollout rules, clamps | `activation_for`, `evaluate_decision` | live and shadow routes |
| execution (`crates/execution`) | attempts per plan | plan, sign, sink | venue providers |
| venue (`crates/venue-polymarket`) | sessions, heartbeats, metadata cache, pending events of the websocket client | websockets, metadata refresh, submit and reconcile providers | network |
| recovery (`crates/recovery`) | none | scopes that block each other | tests only so far |
| discovery and adoption (`discovery.rs`, `commands/targets`, `strategy_control`) | candidate and adoptable rows, provenance, history, the config file | discover, adopt, migrate, rollback, resolve | database, config file |
| operator workflow (`commands/{init,status,apply,bootstrap,verify,doctor}`) | none of its own | derive readiness, act on it, judge evidence | database, config, the commands above |
| configuration (`crates/config-schema`, `app-live/src/config.rs`) | the parsed file | validate, view, build runtime values | every command |
| strategies, replay, observability | none that survives a call | validation, pricing, summaries, metrics | |

What is hard in this code: facts are redelivered, collide and arrive out of
order; a fact that only asks for a reconcile is consumed but never applied;
posture depends on a set that several paths change; the venue is called before
anything durable says so, and attempt, submission and progress are separate
transactions; nothing keeps two processes from running at once, and the
repositories check before they write, under READ COMMITTED; a resume must
rebuild from a log what the previous process believed; a refused input aborts a
tick half way; coalescing in the dispatcher forgets on purpose; adoption writes
rows, history and a file one after the other, and the commands on top of it act
on what they read some steps ago; an answer of the venue may be lost after the
order was taken, and a listing changes while it is paged.  The hazards of
`PROJECT.json` give the line of each and the properties that watch it.

## 2. Modules

```
Option   RuntimePolicy ── PolicyReports ───────────────┐
   │          │     Dispatch ── DispatchLoop ──────────┤  (DispatchLoopProofs)
   └── Store ─┴─ StateStore ── MCStateStore ─┐         │  (StateStoreProofs)
         │                                   │         │
         └ RuntimeOps ┬─ AppRuntime ─┐       │         │  (AppRuntimeProofs)
               │      └─ Supervisor ─┴─ MCSupervisor   │  (SupervisorProofs)
               └─ LiveStartup (with Risk) ─────────────┼── MCLiveStartup  (LiveStartupProofs)
Catalog, FamilyView, ExecutionRecords ── Verify ─┐     │  (RepositoryProofs)
Metadata, Execution ─────────────────────────────┴─ MCBackends (with MCStateStore)  (VenueProofs)
Config, Discovery, VenueSessions ──────────────────────┴─ MCComponents
StrategyControl <= Adoption ── Workflow ── MCOperator     (WorkflowProofs)
```

The engine:

* **Option** is `Option<T>`: a value or the model value `None`.
* **RuntimePolicy** is the table of modes and overlays and `constrained_by`;
  **PolicyReports** applies one report after another to a policy.
* **Store** is `StateStore` as a record and every `&mut self` method as an
  operator from store to store, so that a module can hold several stores and
  replay history into a fresh one.  A fact is reduced to what `apply` does with
  it: `Kind` (the hint), the pending anchor it opens or reports on, its family
  and its time.  An order keeps the fields a reconcile compares; the other
  tables keep their keys.
* **StateStore** is that record as a state machine of its own: every call its
  clients make, in any order.
* **RuntimeOps** and **AppRuntime** add the runtime: what is published, the
  baseline a first reconcile is anchored at, and `replay_committed_history`.
* **Dispatch** and **DispatchLoop** are the dispatcher, as operators and as a
  machine that is told of changes and snapshots in any mix.
* **Supervisor** composes runtime, dispatcher, queue, log and live submit.  A
  tick is `RunOnce`, `DrainInput` per input, `FinishTick`; `Crash` keeps log,
  queue and the summary the next process is seeded with; `ResumeOnce` rebuilds
  or refuses.
* **Risk** has the rollout rules with their default scope, overlays and clamps,
  and the decision on an intent.
* **LiveStartup** is `app-live run` as processes against the database and the
  venue: one action per query, submit and write, with an error or a crash
  possible at each.  It reuses the store operators for what a run restores and
  applies, and Risk for the families it executes, live or as a shadow.

Behind the engine:

* **Catalog** is the identifier catalog, signed orders and account states.  A
  call is a transaction of several statements; an insert waits for an open
  transaction that holds the same unique key, and a statement sees what is
  committed when it starts.  A connection is lost at any step, also after the
  commit and before its answer; `acknowledged` remembers who was told Ok.
* **FamilyView** has the validations and halts of families, discovery snapshots,
  the journal they share, the reconcile that deletes rows, and the summary of the
  replay tool, which reads all of it in separate queries.  A journal number is
  taken at the insert and visible at the commit, so numbers can become visible
  out of order.
* **ExecutionRecords** is the execution tables with the shadow batch as a
  transaction row by row; **Verify** is `app-live verify` over them: its window,
  session, queries and verdicts, while runs go on recording.
* **Metadata** is the refresh of the venue's neg-risk metadata: the lock, the
  pages at growing offsets, a listing that changes in between, the rows and the
  published revision.
* **Execution** is a plan on its way through the orchestrator and a sink to the
  venue's providers, or to a hook: requests and answers that are lost, order ids
  that are blank, a family of one member (others are refused), and the reconcile
  against open orders and relayer transactions that fail, are replaced or are
  confirmed meanwhile.
* **VenueSessions** has the websocket client with its queue of parsed events, and
  the monitors of sessions, market channels and heartbeats.  With a gateway in
  place of a transport each call opens a subscription, takes its first message and
  drops the rest; what the venue sends while no call is open is lost.

Around the engine:

* **Config** takes a configuration from the schema's invariants through the view
  of a command to the values `app-live` runs with, so that checks made twice can
  be compared.
* **Discovery** is the daemon and the discover command, each turning discovery
  records into a candidate set and an adoptable revision, and writing both.
* **Adoption** has discovery's rows, adoption, migration, rollback and the
  resolution of a start, each a process whose writes to the database and the
  config file are single steps.  **StrategyControl** is what they promise
  together, three variables and three actions; Adoption instantiates it with the
  revisions that resolve, the one the config resolves to and the one in the
  progress row.
* **Workflow** puts init, bootstrap, status, apply, doctor, rollout and run on
  top of Adoption, with session rows, heartbeats and time.

**MC...** modules give the constants their values.  **MCBackends** and
**MCComponents** put machines side by side that share no state: a behaviour
steps one of them, its focus.  **...Proofs** hold the theorems:
VenueProofs those of Metadata, Execution, VenueSessions, Discovery and
PolicyReports, WorkflowProofs those of Adoption, Workflow and Config.

Definitions whose comment begins with "Mutant:" are variants of the definition
that follows them, with a plausible slip in it.  They are used by no
specification; `PROJECT.json` names the property each must break.

## 3. What the runs check

Runs that pass:

| run | what it shows |
|---|---|
| `store` | *store*: numbers are consumed in order, facts applied once where bound, none lost; the version counts them; never Healthy with a submit pending; cursor and completion time of a backfill survive every order of discoveries and backfills; an anchored full set is the open orders; no reconcile drops an order. *repositories*: overlapping upserts never leave a catalog that does not load; a caller that was told Ok has its record or order in the database, and no two were told Ok for rows that exclude each other, though lookups run ahead of inserts and answers of commits are lost; the row of a family is what its newest journal entry says; a summary finds the members of every row it shows; verify never sees half a shadow batch or an artifact twice. *venue*: later revisions come from later listings; a quiet listing is read whole, malformed events or not; no receipt contradicts the venue: no order rests there after a definitive failure, and a submission is there for every member; recovery is asked for only when nothing of the attempt can still be confirmed |
| `supervisor` | the committed log always rebuilds the store; the full set never lags; a shown live record is pending; between two submits of the journal lies the report that settled the first; no input that has arrived is lost, by an aborted drain, a crash or a resume; what a runtime has published is the store as it is; only an empty account can reconcile through the runtime |
| `components` | the policy is the start constrained by the strictest report, in whatever order they came; the dispatcher keeps the latest change of a route until it is covered, keeps what is covered clean, and its stable version only grows; after a durable live attempt no start submits, one live record at most, the durable position only grows in runs that follow each other, and every run closes its session unless it crashes or the update of the session itself fails; a config that passes the schema for live loads as the schema meant it; the websocket client loses, repeats and reorders nothing of what it reads, from a transport or through the calls of a gateway; an outage is reported once; what can be adopted was vetted |
| `operator` | the commands implement `StrategyControl`, wherever they stop and whichever overlap; a rollback goes back; apply and bootstrap start only what is ready; every command ends; no dead session blocks starts for ever |

Runs that end in a violation record where the code and what the repository says
of it disagree (`findings` quotes both):

| run | what TLC shows |
|---|---|
| `idempotent` | a submit fact delivered again after its reconcile reopens the pending anchor |
| `cancelonly` | submit and settlement make a store Healthy that never reconciled |
| `resubmit` | a crash or failed write between the venue and the first durable row, or a second process, submits twice |
| `followup` | an order whose answer was lost, or that of a second family, has no durable record |
| `pending` | a restart after a live submit comes up Healthy with nothing pending |
| `stuck` | an input at or below the journal position waits for ever |
| `refused` | a supervisor is refused when resumed from its own summary |
| `preserve` | init over an adopted config, told to keep its anchor, leaves a config that no longer resolves |

More behaviours were seen while modelling and have no run, since no document
says otherwise:

* a first reconcile that succeeds after facts were consumed and none applied puts
  `last_consumed_journal_seq` back to the baseline 0;
* `resume_once` ends Healthy whenever nothing is pending, whatever the posture
  was when the run ended;
* the neg-risk domain stays dirty for ever, since
  `PublishedSnapshot::from_store` never marks the neg-risk view as ready;
* a crash between migration's rewrite of the config and adopt's history entry
  leaves the migrated revision without a predecessor to roll back to;
* init over a legacy anchor renames `targets-rev-X` to `strategy-rev-X` without
  writing the lineage that would resolve it;
* the payload of an adoptable revision holds rendered targets that the revision
  does not digest, so a daemon with other targets gets a conflict, on which it
  returns silently; discover with no metadata rows runs into an `expect` of
  `CandidatePublication`;
* an order reference that was filled or cancelled is in no list
  `reconcile_order_ref` reads and stays `StillPending`; a matched order without a
  transaction hash is an error though the venue took it;
* an accepted answer with an unknown status and a blank order id makes the pending
  reference `order:`, and the hook provider makes `pending-hook:` ones;
  `parse_pending_ref` refuses both, so such work is never reconciled.  An answer
  that is lost leaves an error and no reference at all;
* a websocket client with a gateway misses every event between two of its calls,
  and those that follow the first message of a call;
* a run whose `mark_running`, `refresh_last_seen`, `mark_exited` or `mark_failed`
  fails returns with its session open, which ends by becoming stale;
* the heartbeat task group of `app-live` keeps the time of its construction, so
  its monitor never sees a heartbeat as stale.

### Bounds

* `StateStore`: `MCOneConcern` keeps a behaviour to one of three groups: six
  facts about reconciles under four journal numbers, five about discovery under
  five, or one plain fact under two together with local orders and rows.  That
  is enough for a number that is free, one that is bound and one that is
  overtaken, for a fact delivered twice beside another one, and for two pending
  submits of which one settles.  The groups share the version and the anchors and
  otherwise touch different fields; states in which two of them meet are checked,
  and not followed further.  `MCOrders` has an order that reuses a signed hash,
  one with other terms, one with another condition, one in another state;
  snapshots hold up to two.
* `Catalog`: two sessions; four records, of which a pair agrees, one clashes
  within a condition and one moves a token; four orders; two rows of account
  states.  `FamilyView`: two
  writers and three journal entries (`MaxJournal`), so that a row is replaced and
  another entry lies between.
* `ExecutionRecords`, `Verify`: two runs recording the same two attempts, one live
  attempt with its follow-ups, seven asks that reach every scenario and window.
* `Metadata`: two callers, two refreshes (`MaxRefreshes`), pages of two
  (`PageLimit`), one change of the listing (`MaxListings`) at any time.
  `Execution`: families of up to two members, two executions (`MaxExecutions`).
* `PolicyReports`: four different reports (`MaxSeen`) from every start.
  `DispatchLoop`: versions up to `MaxVersion = 4`.
* `LiveStartup`: `MaxRuns` runs (three after each other, `MaxOverlapping = 2`
  where two overlap), two families so that a second one is submitted
  and dropped, configurations under two revisions, live and smoke, one that
  approves the scope `default`, one that has no revision.  Families still to be
  submitted are positions in the order of the targets, and `JournalSeq` leaves room
  for the fact of each run that submits.
* `Config`: every combination within each of four groups of sections that are
  checked together.  `VenueSessions`: two frames a channel of up to two events,
  three reports, times up to five.  `Discovery`: two families and one without a
  name, two runs of discover beside a daemon that restarts.
* `Supervisor`: `MaxQueue` inputs wait, `MaxInputs` arrive, `MaxCrashes` crashes
  (two, so that a resumed supervisor crashes again); inputs of every
  kind under three journal numbers, or under five the inputs that let it submit
  again: a second submit needs a report without a submit, a fact, the submit, and
  the report that settles it before; with fewer, "at most one submit" would hold
  by the bound alone.  `AppRuntime`: durable anchors up to version
  `MaxVersion`.
* `Workflow`: three commands (`MaxCommand`), two where they overlap; four
  revisions: a legacy one, its canonical one, the one of explicit targets and one
  that discovery finds.  A config may have a `[negrisk]` line of its own, which
  decides what init keeps.  `InitOverwrites` is FALSE in the `operator` run: an
  init that replaces a config on purpose may leave one that names nothing; the
  `preserve` run is about the init that should not.

Deadlock is not checked where the actors may stop for good: writers, callers and
operators may issue no further call, and a refused resume stays refused.

### Fairness

* `LiveStartup`: weak fairness of each process's own steps.  A started run is
  one sequential function that always has a next statement until it returns;
  starting a run and crashing are not fair.
* `Supervisor`: `MovesOn` says that somebody calls the supervisor again, as
  `run_until_idle_for_tests` does.  The code does not promise it: a drain that
  aborts ends the daemon, and `app-live run` makes one call.  So no property that
  holds rests on it; it is assumed for the finding `stuck` alone, where it makes
  the counterexample stronger: an input waits for ever however often the
  supervisor is called.
* `Workflow`: weak fairness of the next step of a command that is under way (a
  command is a sequential program; the operator answers its prompts), and of
  `Age`: time passes, and a session that is not seen again becomes stale.  No command is
  promised to be started, and none is promised to survive.

Catalog, FamilyView, Verify, Metadata, Execution, Config, Discovery and
VenueSessions are checked for safety only: their transactions and requests may
be lost at any step.

## 4. What is proved

Every invariant, action property and refinement that a passing run checks is
also a theorem, for every value of the constants that satisfies the modules'
assumptions: any number of processes, connections, operators, callers and
writers, any (also infinite) sets of facts, journal numbers, orders, records,
revisions and listings, and any bounds.  Only liveness is left to TLC.  The
inductive invariants were checked with TLC on the runs' instances before they
were proved.

### Assumptions

The proofs use the `ASSUME`s of the modules and nothing else; TLC evaluates
them on every run.  Most are types of constants.  The others:

* `None` is different from every value it stands beside (`NoneAssumption`,
  `NoneIsNoRecord`, `NoneIsNoNumber`, `NoneIsNoOutcome`, `NoneIsNoResponse`, `NoneIsNoRuntimeValue`,
  and `None \notin Caller`): `Option` keeps them apart in Rust.
* `WellFormedBatch`: each attempt of a shadow batch comes with its artifact of the
  one stream `SHADOW_ARTIFACT_STREAM`, after all attempts, and every artifact with
  its attempt.  This is what `eligible_shadow_records` makes; for other batches
  `ShadowEvidenceIsWhole` would be false, since `append_shadow_execution_batch`
  does not ask for it.
* `VerifyAssumption`, `ExecutionAssumption`: scenarios, windows, modes and plan
  kinds are those of the enums.  Listings are sequences, `PageLimit` is not 0.
* `LiveStartup` has submits only (`Kind` is constantly `Pending`): a start applies
  no other facts.
* The theorems about the operator commands have the hypothesis `~InitOverwrites`:
  `init` is not run over a config that exists.  Without it the result is false,
  and the run `preserve` shows how.

Where a property says "until two runs (commands) overlap", the history variable
`overlapped` is part of the statement, not of the assumptions: the theorem is
about every behaviour.

### Engine

**StateStoreProofs.** `StoreTypeCorrect`, `JournalStaysConsistent`,
`NeverHealthyWhilePending`, `FullSetStaysCurrent`, `VersionIsMonotone`,
`NoOrderVanishes`, `BackfillsAreNeverLost`.  The inductive invariant `StoreOK` is
the type, the journal invariant, the posture and the anchor: posture is needed
since `apply_restore_posture` leaves a store that has not reconciled alone, and
the anchor is stronger than what a run checks, since it speaks of an anchor of an
old version too.  The key step is `AppliedIsFresh`: a fact is only ever applied
at a number consumed in the same call, because a number bound to it earlier would
have applied it then.  `BackfillOK` adds what `BackfillNeverLost` leaves open: a
family without backfills has an empty record, or its first backfill would be
merged with a completion time from nowhere.  One lemma per method says which
fields it leaves alone.

**AppRuntimeProofs.** `SnapshotStaysCurrent`, `OnlyEmptyAccounts`.  The journal
invariant of the store does not hold in a runtime: a restart and the baseline of
the first reconcile set the anchors without the journal behind them.  `RuntimeOK`
keeps what survives: a consumed fact that changes state was applied, an applied
position has an anchor at it, and the account is empty.  `PublishedOK` says of
the published snapshot what it shows.

**DispatchLoopProofs.** `DispatchTypeCorrect`, `LatestChangeIsKept`,
`CoveredStaysClean`, `StableIsMonotone`.  `LatestDirtyKept` alone is not
inductive: to see that a flush keeps the version that last dirtied a route one
must know that no record touching the route is newer, which is `CoveredIsClean`,
and that needs nothing to be ready or dirty ahead of the store's version.

**SupervisorProofs.** `LogAlwaysRebuildsStore`, `FullSetAlwaysKeepsUp`,
`LiveRecordStaysPending`, `SubmitsAreSettledBetween`, `InputsAreAlwaysKept`.  `SupervisorInv` is about
two stores at once: the one in use, and the one that `ReplayPrefix` computes of
the committed log, which must be accepted (`ReplayOK`) and agree with it
(`Agrees`), except that the baseline 0 may stand in for a position that the log
does not have.  While the supervisor is down it says that the seed fits the log
(`SeedOK`), while it drains that no input waits behind the position (`DrainOK`).
That a submit is pending or settled by a later report (`OpenOrSettled`) is what
makes a second submit possible only after the first was settled.  `ReplayPrefix`
is a recursive function over the log; that appending an entry extends the replay
by one application is proved with the least-counterexample argument below.
`InputsAreAlwaysKept` needs what the queue's operations do to the set of its
entries: a push adds one, a removal takes exactly the one that was logged.

**LiveStartupProofs.** `OneLiveRecordAtMost`, `RecordedIsNeverResubmitted`,
`DurableProgressIsMonotone`.  `StartupInv` is stated for behaviours in which no
runs overlapped.  It says at each stage of a run what it knows of the database:
what it has loaded is what is there, from the decision to submit until the
attempt is written no live attempt is durable, and at most one is to be written;
its store is not behind the durable position.  The runs `resubmit` and `followup`
show what is lost when a crash falls between venue and database: the theorems
begin at the first durable row.

### Behind the engine

**RepositoryProofs.**

* `IdentifierMapAlwaysLoads`, `AcknowledgedAlwaysStored`.  `upsert_record` validates
  against rows that others may change before it commits.  `CatalogInv` says what
  makes up for it: the unique keys hold over committed and uncommitted rows
  together (`KeysUnique`), since an insert waits for an open one, and a
  transaction has confirmed or inserted the rows of every table its call has been
  through (`RowsOfRecords`).  `AcknowledgedOK` adds that what was acknowledged is
  committed; with the unique keys over the committed rows no two acknowledged rows
  exclude each other.
* `RowsAreAlwaysLatest`, `SummariesAlwaysHaveMembers`.  `FamilyInv`: writers that
  write the same row exclude each other from the locked upsert to the commit
  (`LocksExclusive`), so an entry that is not committed yet is newer than the
  committed ones of its row (`CommitsAreNewest`), although numbers become visible
  out of order.
* `ShadowEvidenceIsAlwaysWhole`.  `RecordsInv` says of the committed tables that
  a shadow attempt has exactly one artifact, and of each open transaction that its
  attempts are new and belong to no other transaction, that its artifacts are of
  its own attempts, and that the rows it has been through are there.  That
  disjointness is why selecting before inserting makes no duplicate.  `VerifyOK`
  follows the queries: the selected attempts are committed, everything a smoke
  verify loads later is about them, and once the artifacts are loaded they cover
  the selected shadow attempts.  From there the verdict is computed, over all
  routes (`SmokeVerdictPasses`).

**VenueProofs.**

* `OutagesAreReportedOnce` (`MonitorInv`) and `EventsAlwaysDeliveredOnce`
  (`ClientInv`: what was delivered and what waits is the flattening of the frames
  read; lemmas extend `FlattenSeq` by one frame; the frames read and those that
  wait carry the numbers of the venue in order, without a gap on a transport).
* `ReceiptsAlwaysMatchVenue`, `RecoveryIsAlwaysFinal` (`ExecutionInv`: an execution
  under way has one member and no result; what was decided of an attempt is still
  what the venue says, since `FAILED`, `INVALID` and `CONFIRMED` are never left.
  `VenueInv`: the order of an attempt under way is at the venue only once it was
  sent, and an answer on its way says truly whether it was taken).
* `RevisionsAlwaysFollow`, `QuietSnapshotsAreWhole` (`MetadataInv`: a refresh that
  reads holds the lock and began after the last snapshot; while the listing is the
  one it began with, it has the rows of all events before its offset).
* `AdoptableIsAlwaysVetted` (`DiscoveryInv`: what a process has still to write is
  vetted, and its candidate set is stored before its adoptable revision).
* `ReportsInAnyOrder` (`PolicyInv`: `merge_overlay` is a meet, so one report more
  constrains the policy to the meet of one report more).

### Around the engine

**WorkflowProofs.**

* `NamesAlwaysResolve` and `WorkflowRefinesControl`: the commands implement
  `StrategyControl`, whichever overlap.  `NamesResolve` is the inductive
  invariant: the config, every history row and every command that is about to
  write a name has one that resolves.  Rows are never deleted, so what resolves
  goes on resolving, and every step is a `Publish`, a `Configure`, an `Activate`
  or a stutter.
* `SequentialCommands`, `RollbackAlwaysGoesBack`, `ApplyAlwaysStartsReady`:
  `SequentialInv`, until two commands overlap, says that what a command found when
  it read is still true when it acts (the file it writes back, the readiness it
  starts on), and that the history leads back from the configured revision.
* `LiveConfigAlwaysLoads`: `ConfigInv` carries the schema's checks of each stage
  to the values that are loaded; the key lemma is that the two readings of the
  wallet kind, by signature type and by presence of relayer credentials, agree.

### Induction over data

The library's induction theorems cannot be instantiated by the provers here, so
the facts about recursive functions that the proofs need (`ReplayPrefix`,
`AppliedSubmits`, `FlattenSeq`, the rows of a listing) are proved by a least
counterexample: a set of naturals that is not empty has a least element
(`LeastNat`), and the step before it already satisfies the claim.

### Only model-checked

`SessionsEnd`, `CommandsEnd` and `SessionsRelease`: liveness under
fairness (with finitely many inputs and runs, "infinitely often none is open" says
that each is closed at last).

## 5. What is not modelled

* Wording, spans and metrics; prompts (choices of the operator) and rendering.
* The payload of facts beyond what `apply` reads; the details of reconcile
  attention; `mark_bootstrapping`, the follow-up queue of `queues.rs`, the
  overlays and defaults of `ActivationPolicy` and the checks of
  `risk/src/{negrisk,fullset}.rs`, which nothing but tests calls.
* Signing, HTTP, TLS and websocket transport, the SDK: what they may answer is
  nondeterministic in the modules that use them.
* Connections, migrations of the schema and the decoding of rows; of PostgreSQL
  only what a transaction waits for and sees.
* The probes of the doctor beyond success or failure; paper mode beyond what
  `Config` and `Verify` say of it.
* The retry table, the recovery scopes, the strategies and the domain's
  transition tables: functions of one input that no running code calls yet, or
  whose result nothing keeps.
* Parsing of TOML, numbers and URLs.

## 6. Plan

1. Engine, repositories, venue, configuration, discovery, adoption and operator
   workflow: modelled.
2. Every safety property, action property and refinement of the passing runs:
   proved.
3. What a proof could say beyond them: how far the results about runs and
   commands that follow each other hold when they overlap, as properties of their
   own; what overlapping runs may still duplicate is shown by `resubmit`.
4. Retry policy and recovery scopes as modules, once code calls them.
