------------------------------ MODULE Adoption ------------------------------
(***************************************************************************)
(* Discovery, adoption, migration and rollback of strategy revisions       *)
(* (crates/app-live/src: discovery.rs, commands/discover.rs,               *)
(* commands/targets, strategy_control, startup.rs; the repositories of     *)
(* candidates, adoptables, provenance, history and progress of             *)
(* crates/persistence/src/repos.rs).                                       *)
(*                                                                         *)
(* Candidate, adoptable and operator revisions are digests of the same     *)
(* route artifacts, so one revision stands for the three.  A command is a  *)
(* process of its own that writes the database and the config file step by *)
(* step and may end between any two; two commands may run at once.         *)
(* Migration 0015 copied the rows of the older tables into the neutral     *)
(* ones: an older target revision that was adopted has its rows there.     *)
(***************************************************************************)
EXTENDS Option, Sequences, FiniteSetsExt

CONSTANTS
    Operator,           \* command-line processes
    Revision,           \* every revision
    Discovered,         \* the ones a discovery can render
    Known,              \* the ones discovered before the behaviour starts
    LegacyRevision,     \* operator target revisions of older configs
    CanonicalOf,        \* strategy revision a target revision is migrated to
    ExplicitRevision,   \* strategy revision derived from explicit targets
    FamiliesOf,         \* families of the route artifacts of a revision
    StartFile,          \* config files a behaviour may start with
    MaxCommand,         \* bound: commands in a behaviour
    MaxOverlapping,     \* bound: commands in a behaviour with two at once
    Uses                \* bound: the commands each process is used for

ConfigForm == {"missing", "none", "explicit", "target_source", "mixed", "canonical"}
ConfigMode == {"paper", "live", "smoke"}

\* The families that a revision or a config can name.
FamilyName == UNION ({FamiliesOf[r] : r \in Revision} \cup {f.rollout : f \in StartFile})

\* What a config file says of the strategy control.  header: a [negrisk] line of its
\* own, which stays when what stands under it is taken out.
ConfigFile ==
    [form : ConfigForm, rev : OptionOf(Revision), rollout : SUBSET FamilyName, mode : OptionOf(ConfigMode),
     header : BOOLEAN]

ASSUME AdoptionAssumption ==
    /\ Known \subseteq Discovered
    /\ Discovered \cup LegacyRevision \cup {ExplicitRevision} \subseteq Revision
    /\ CanonicalOf \in [LegacyRevision -> Revision]
    /\ None \notin Revision \cup ConfigMode
    /\ StartFile \subseteq ConfigFile
    /\ \A f \in StartFile : f.form # "missing" => f.mode # None
    /\ MaxCommand \in Nat /\ MaxOverlapping \in Nat

VARIABLES
    candidates,     \* strategy_candidate_sets
    adoptables,     \* adoptable_strategy_revisions
    provenance,     \* strategy_adoption_provenance
    history,        \* operator_strategy_adoption_history, in order
    file,           \* the config file: form of its strategy control, revision, rollout
    progress,       \* revision of the runtime progress row, or None
    cli,            \* what each process is doing
    before,         \* history: revision the last adoption or rollback replaced
    overlapped,     \* history: two commands ran at once
    commands        \* history: commands begun

adoptionVars ==
    <<candidates, adoptables, provenance, history, file, progress, cli, before, overlapped, commands>>

artifactVars == <<candidates, adoptables, provenance>>
ghostVars == <<before, overlapped, commands>>

\* A process at rest.  then: where its caller goes on, <<>> for a command of its
\* own; start, mode, blocked: what apply and bootstrap were asked and found;
\* session: the run session it has created, 0 for none.
NoCli == [cmd |-> "none", stage |-> "idle", rev |-> None, prev |-> None, text |-> None,
          then |-> <<>>, start |-> FALSE, mode |-> None, blocked |-> FALSE, session |-> 0]

---------------------------------------------------------------------------
(***************************************************************************)
(* Queries                                                                 *)
(***************************************************************************)

\* get_by_operator_strategy_revision, get_adoptable_strategy_revision and
\* get_strategy_candidate_set: provenance without its rows is an error.
Resolves(r) == r \in provenance /\ r \in adoptables /\ r \in candidates

\* resolve_startup_strategy_revision: explicit targets have to be migrated first,
\* and a target source goes before the canonical revision.
StartupResolves(f) == f.form \in {"canonical", "target_source"} /\ Resolves(f.rev)

RowsFor(r) == {i \in DOMAIN history : history[i].rev = r}

\* latest_history_lineage: rollback rows carry no lineage and are skipped.
HistoryHasLineage(r) == \E i \in DOMAIN history : history[i].rev = r /\ history[i].kind = "adopt"

\* resolve_adoption_selection by operator revision.
SelectsRevision(r) == (r \in provenance \/ HistoryHasLineage(r)) /\ r \in adoptables /\ r \in candidates

\* resolve_adoption_selection by adoptable revision.
SelectsAdoptable(r) == r \in adoptables /\ r \in candidates

\* The previous revision of the last of some rows, if there are any.
PrevOfLast(rows) == IF rows = {} THEN None ELSE history[Max(rows)].prev

\* Mutant: the rows that changed nothing count too.
PreviousRevisionOfAny(r) == PrevOfLast({i \in RowsFor(r) : history[i].prev # None})

\* The rows of a revision that replaced another one.
DistinctRows(r) == {i \in RowsFor(r) : history[i].prev \notin {None, r}}

\* previous_distinct_revision.
PreviousDistinctRevision(r) == PrevOfLast(DistinctRows(r))

\* configured_operator_strategy_revision: explicit targets have none.  A "mixed" file
\* names a canonical revision beside a target source that names none.
ConfiguredRevision(f) == IF f.form \in {"canonical", "target_source", "mixed"} THEN f.rev ELSE None

\* The revision a rollback starts from: of explicit targets, the derived one.
RollbackOrigin(f) == IF f.form = "explicit" THEN ExplicitRevision ELSE ConfiguredRevision(f)

\* summarize and load_target_control_plane_state: does the running revision
\* differ from the configured one?
RestartNeeded(f) == progress # None /\ progress # ConfiguredRevision(f)

---------------------------------------------------------------------------
(***************************************************************************)
(* Commands                                                                *)
(***************************************************************************)

\* A new database, or the rows that the older tables had: target revisions with
\* their lineage, and what was discovered before.
AdoptionInit ==
    /\ candidates \in {{}, LegacyRevision \cup Known} /\ adoptables = candidates
    /\ provenance = candidates \cap LegacyRevision
    /\ history = <<>>
    /\ file \in {f \in StartFile : ConfiguredRevision(f) \in provenance \cup {None}}
    /\ progress = None
    /\ cli = [o \in Operator |-> NoCli]
    /\ before = None
    /\ overlapped = FALSE
    /\ commands = 0

Idle(o) == cli[o] = NoCli

Step(o, stage) == cli' = [cli EXCEPT ![o].stage = stage]

\* A command returns to its caller, or exits.
Return(o) ==
    cli' = [cli EXCEPT ![o] = IF cli[o].then = <<>> THEN NoCli
                              ELSE [NoCli EXCEPT !.cmd = cli[o].then[1], !.stage = cli[o].then[2],
                                                 !.start = cli[o].start, !.mode = cli[o].mode]]

\* A part of a running command, which goes on at stage back.
Call(o, cmd, stage, rev, prev, back) ==
    cli' = [cli EXCEPT ![o] = [cli[o] EXCEPT !.cmd = cmd, !.stage = stage, !.rev = rev, !.prev = prev,
                                             !.then = <<cli[o].cmd, back>>]]

ConfigExists == file.form # "missing"

Begin(o, record) ==
    /\ Idle(o) /\ record.cmd \in Uses[o]
    /\ overlapped' = (overlapped \/ \E q \in Operator \ {o} : ~Idle(q))
    /\ commands < IF overlapped' THEN MaxOverlapping ELSE MaxCommand
    /\ commands' = commands + 1
    /\ cli' = [cli EXCEPT ![o] = record]

AtStage(o, stage) == cli[o].stage = stage

\* The process ends: a signal, an error of the database or of the file system.
Crash(o) ==
    /\ ~Idle(o)
    /\ cli' = [cli EXCEPT ![o] = NoCli]
    /\ UNCHANGED <<artifactVars, history, file, progress, ghostVars>>

---------------------------------------------------------------------------
(* discover, and the notices the daemon persists.  A set with a deferred or *)
(* an excluded family renders a candidate and no adoptable.                 *)

StartDiscover(o, r, adoptable) ==
    /\ ConfigExists /\ file.mode # "paper"
    /\ Begin(o, [NoCli EXCEPT !.cmd = IF adoptable THEN "discover" ELSE "advise",
                              !.stage = "candidate", !.rev = r])
    /\ UNCHANGED <<artifactVars, history, file, progress, before>>

UpsertCandidate(o) ==
    /\ AtStage(o, "candidate")
    /\ candidates' = candidates \cup {cli[o].rev}
    /\ Step(o, IF cli[o].cmd = "advise" THEN "refresh" ELSE "adoptable")
    /\ UNCHANGED <<adoptables, provenance, history, file, progress, ghostVars>>

UpsertAdoptable(o) ==
    /\ AtStage(o, "adoptable")
    /\ adoptables' = adoptables \cup {cli[o].rev}
    /\ Step(o, IF cli[o].cmd = "migrate" THEN "provenance" ELSE "refresh")
    /\ UNCHANGED <<candidates, provenance, history, file, progress, ghostVars>>

\* The discover_refresh_history row is read by no command.
AppendDiscoverRefresh(o) ==
    /\ AtStage(o, "refresh")
    /\ Return(o)
    /\ UNCHANGED <<artifactVars, history, file, progress, ghostVars>>

---------------------------------------------------------------------------
(* targets adopt: by adoptable or operator revision, or, without a selector, *)
(* by migrating a legacy config.                                             *)

StartAdopt(o, r, byAdoptable) ==
    /\ ConfigExists
    /\ IF byAdoptable THEN SelectsAdoptable(r) ELSE SelectsRevision(r)
    /\ Begin(o, [NoCli EXCEPT !.cmd = "adopt", !.stage = "provenance", !.rev = r,
                              !.prev = ConfiguredRevision(file)])
    /\ UNCHANGED <<artifactVars, history, file, progress, before>>

\* The revision a legacy config is migrated to, if it has lineage.
MigratesTo(f) ==
    CASE f.form = "explicit" -> ExplicitRevision
      [] f.form = "target_source" /\ Resolves(f.rev) -> CanonicalOf[f.rev]
      [] OTHER -> None

\* migrate_legacy_strategy_control: materialise the rows, then rewrite the config.
StartMigration(o) ==
    /\ MigratesTo(file) # None
    /\ Begin(o, [NoCli EXCEPT !.cmd = "migrate", !.stage = "candidate", !.rev = MigratesTo(file),
                              !.prev = ConfiguredRevision(file)])
    /\ UNCHANGED <<artifactVars, history, file, progress, before>>

\* Mutant: an adoption leaves the provenance to whoever discovered the revision.
EnsureCanonicalProvenanceSkipped(o) ==
    /\ AtStage(o, "provenance")
    /\ Step(o, IF cli[o].cmd = "migrate" THEN "read" ELSE "history")
    /\ UNCHANGED <<artifactVars, history, file, progress, ghostVars>>

\* ensure_canonical_provenance, and upsert_provenance of a migration.
EnsureCanonicalProvenance(o) ==
    /\ AtStage(o, "provenance")
    /\ candidates' = candidates \cup {cli[o].rev}
    /\ adoptables' = adoptables \cup {cli[o].rev}
    /\ provenance' = provenance \cup {cli[o].rev}
    /\ Step(o, IF cli[o].cmd = "migrate" THEN "read" ELSE "history")
    /\ UNCHANGED <<history, file, progress, ghostVars>>

\* The row of an adoption carries its lineage, the one of a rollback none; an
\* adoption that changes nothing is recorded and does not rewrite the file.
AppendHistory(o) ==
    /\ AtStage(o, "history")
    /\ history' = Append(history, [kind |-> IF cli[o].cmd = "rollback" THEN "rollback" ELSE "adopt",
                                   rev |-> cli[o].rev, prev |-> cli[o].prev])
    /\ IF file.form = "canonical" /\ cli[o].prev = cli[o].rev THEN Return(o) ELSE Step(o, "read")
    /\ UNCHANGED <<artifactVars, file, progress, ghostVars>>

\* rewrite_operator_strategy_revision reads the file, changes what it read ...
ReadConfig(o) ==
    /\ AtStage(o, "read")
    /\ cli' = [cli EXCEPT ![o].stage = "write", ![o].text =
           IF cli[o].cmd = "rollout" THEN [file EXCEPT !.rollout = FamiliesOf[cli[o].rev]]
           ELSE [file EXCEPT !.form = "canonical", !.rev = cli[o].rev]]
    /\ UNCHANGED <<artifactVars, history, file, progress, ghostVars>>

\* ... and replaces it.  The migration of targets adopt goes on with the adoption.
WriteConfig(o) ==
    /\ AtStage(o, "write")
    /\ file' = cli[o].text
    /\ before' = CASE cli[o].cmd = "migrate" -> None
                   [] cli[o].cmd \in {"adopt", "rollback"} /\ cli[o].prev # cli[o].rev -> cli[o].prev
                   [] OTHER -> before
    /\ IF cli[o].cmd = "migrate" /\ cli[o].then = <<>>
       THEN cli' = [cli EXCEPT ![o].cmd = "adopt", ![o].stage = "provenance", ![o].text = None]
       ELSE Return(o)
    /\ UNCHANGED <<artifactVars, history, progress, overlapped, commands>>

---------------------------------------------------------------------------
(* targets rollback                                                        *)

\* resolve_rollback_selection.
RollbackSelects(f, to) ==
    LET dest == IF to = None THEN PreviousDistinctRevision(RollbackOrigin(f)) ELSE to
    IN  /\ RollbackOrigin(f) # None /\ dest # None /\ SelectsRevision(dest)
        /\ f.form = "explicit" => RowsFor(ExplicitRevision) # {}

StartRollback(o, to) ==
    /\ RollbackSelects(file, to)
    /\ LET dest == IF to = None THEN PreviousDistinctRevision(RollbackOrigin(file)) ELSE to IN
       /\ dest # RollbackOrigin(file)
       /\ Begin(o, [NoCli EXCEPT !.cmd = "rollback", !.stage = "history", !.rev = dest,
                                 !.prev = RollbackOrigin(file)])
    /\ UNCHANGED <<artifactVars, history, file, progress, before>>

AdoptionStep(o) ==
    \/ UpsertCandidate(o) \/ UpsertAdoptable(o) \/ AppendDiscoverRefresh(o)
    \/ EnsureCanonicalProvenance(o) \/ AppendHistory(o) \/ ReadConfig(o) \/ WriteConfig(o)

\* The commands of this module, and the end of any process.
AdoptionNext(o) ==
    \/ \E r \in Discovered, adoptable \in BOOLEAN : StartDiscover(o, r, adoptable)
    \/ \E r \in Revision, byAdoptable \in BOOLEAN : StartAdopt(o, r, byAdoptable)
    \/ StartMigration(o)
    \/ \E to \in Revision \cup {None} : StartRollback(o, to)
    \/ Crash(o)

---------------------------------------------------------------------------
(***************************************************************************)
(* Properties                                                              *)
(***************************************************************************)

Control == INSTANCE StrategyControl WITH
    ControlRevision <- Revision,
    NoRevision <- None,
    resolvable <- {r \in Revision : Resolves(r)},
    configured <- ConfiguredRevision(file),
    active <- progress

\* Whatever commands overlap and wherever they end, the config names a revision
\* that resolve_startup_strategy_revision resolves, a revision that resolves never
\* stops doing so, and the progress row only gets revisions that resolve.
RefinesControl == Control!ControlSpec

\* As long as commands follow each other, with ends between any two of their
\* steps, a rollback goes back to the revision that the last adoption or rollback
\* replaced, though an adoption may be repeated and a history row may belong to a
\* rewrite that never happened; and it is not refused for want of lineage
\* (resolve_rollback_selection, previous_distinct_revision, append_history).
RollbackGoesBack ==
    /\ ~overlapped /\ before # None /\ file.form = "canonical"
    => PreviousDistinctRevision(file.rev) = before /\ SelectsRevision(before)
=============================================================================
