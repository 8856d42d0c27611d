--------------------------- MODULE WorkflowProofs ---------------------------
(***************************************************************************)
(* Proofs about the operator's commands, for every set of operators,       *)
(* revisions, families and start configs: they implement StrategyControl,  *)
(* a rollback goes back and an apply starts what it found ready, while one *)
(* command runs at a time; and about the configuration they edit: what     *)
(* validates as live also loads.                                           *)
(***************************************************************************)
EXTENDS Workflow, Config, TLAPS

---------------------------------------------------------------------------
(***************************************************************************)
(* What a command may rely on                                              *)
(***************************************************************************)

\* Stages a part of a command returns to.
ReturnStage == {"scenario", "detect", "status", "doctor", "adopt", "start"}

CommandName ==
    {"none", "discover", "advise", "adopt", "migrate", "rollback", "rollout", "init", "preserve",
     "apply", "bootstrap", "doctor", "run"}

Stage ==
    {"idle", "candidate", "adoptable", "refresh", "provenance", "history", "read", "write", "migrate",
     "wizard", "gate", "rollout", "run", "resolve", "progress", "running", "exited"} \cup ReturnStage

\* A running command: NoCli, or one with values in its fields.
Command ==
    [cmd : CommandName, stage : Stage, rev : OptionOf(Revision), prev : OptionOf(Revision),
     text : OptionOf(ConfigFile), then : Seq({"apply", "bootstrap"} \cup ReturnStage),
     start : BOOLEAN, mode : OptionOf(ConfigMode), blocked : BOOLEAN, session : Nat]

HistoryRow == [kind : {"adopt", "rollback"}, rev : Revision, prev : OptionOf(Revision)]

\* The types of the database, the file and the processes.
WorkflowTypeOK ==
    /\ candidates \subseteq Revision /\ adoptables \subseteq Revision /\ provenance \subseteq Revision
    /\ history \in Seq(HistoryRow)
    /\ file \in ConfigFile
    /\ progress \in OptionOf(Revision)
    /\ cli \in [Operator -> Command]
    /\ before \in OptionOf(Revision)
    /\ overlapped \in BOOLEAN

\* The revisions that a start can resolve.
Resolvable == {r \in Revision : Resolves(r)}

\* A config that a start does not refuse for what it names.
ConfigOK(f, resolvable) ==
    /\ f \in ConfigFile
    /\ f.form = "target_source" => f.rev \in LegacyRevision \cup {None}
    /\ ConfiguredRevision(f) \in resolvable \cup {None}

\* What a command has made sure of when it reaches a stage.
CommandOK(c, resolvable) ==
    /\ c.stage \in {"candidate", "adoptable", "provenance"} => c.rev \in Revision
    /\ c.stage \in {"history", "read", "progress"} => c.rev \in resolvable
    /\ c.stage = "write" => ConfigOK(c.text, resolvable)
    /\ c.stage = "write" /\ c.cmd = "migrate" => c.rev \in Revision
    /\ c.stage \in {"resolve", "progress"} => c.text \in ConfigFile
    /\ c.stage \in {"wizard", "migrate", "scenario", "status", "detect", "adopt", "rollout"} =>
           c.cmd \in {"apply", "bootstrap"}
    /\ c.stage = "doctor" => c.cmd \in {"apply", "bootstrap", "doctor"}
    /\ c.then # <<>> => c.then[1] \in {"apply", "bootstrap"} /\ c.then[2] \in ReturnStage

\* The config, the history and every running command name revisions that resolve.
NamesResolve ==
    /\ WorkflowTypeOK
    /\ ConfigOK(file, Resolvable)
    /\ \A i \in DOMAIN history : history[i].rev \in Resolvable
    /\ \A o \in Operator : CommandOK(cli[o], Resolvable)

---------------------------------------------------------------------------
(***************************************************************************)
(* No row of the artifact tables is deleted: what holds of the revisions   *)
(* that resolve goes on holding.                                           *)
(***************************************************************************)

LEMMA ConfigGrows ==
    ASSUME NEW R, NEW S, R \subseteq S, NEW f, ConfigOK(f, R)
    PROVE  ConfigOK(f, S)
BY DEF ConfigOK

LEMMA CommandGrows ==
    ASSUME NEW R, NEW S, R \subseteq S, NEW c, CommandOK(c, R)
    PROVE  CommandOK(c, S)
BY ConfigGrows DEF CommandOK

\* The types of the tables, and what does not shrink.
TablesOK ==
    /\ candidates \subseteq Revision /\ adoptables \subseteq Revision /\ provenance \subseteq Revision
    /\ progress \in OptionOf(Revision) /\ before \in OptionOf(Revision) /\ overlapped \in BOOLEAN

\* One process moves on; rows are only added, and the file is left alone.
LEMMA OneMovesOn ==
    ASSUME NamesResolve, NEW o \in Operator, NEW d \in Command,
           cli' = [cli EXCEPT ![o] = d], Resolvable \subseteq Resolvable', CommandOK(d, Resolvable'),
           TablesOK', UNCHANGED <<history, file>>
    PROVE  NamesResolve'
<1>1. WorkflowTypeOK'
  BY DEF NamesResolve, WorkflowTypeOK, TablesOK
<1>2. ConfigOK(file', Resolvable')
  BY ConfigGrows DEF NamesResolve
<1>3. \A i \in DOMAIN history' : history'[i].rev \in Resolvable'
  BY DEF NamesResolve
<1>4. ASSUME NEW q \in Operator PROVE CommandOK(cli'[q], Resolvable')
  <2>1. CASE q = o
    BY <2>1 DEF NamesResolve, WorkflowTypeOK
  <2>2. CASE q # o
    <3>1. cli'[q] = cli[q]
      BY <2>2 DEF NamesResolve, WorkflowTypeOK
    <3> QED BY <3>1, CommandGrows DEF NamesResolve
  <2> QED BY <2>1, <2>2
<1> QED BY <1>1, <1>2, <1>3, <1>4 DEF NamesResolve

\* One process moves on and nothing else changes.
LEMMA OnlyCliMoves ==
    ASSUME NamesResolve, NEW o \in Operator, NEW d \in Command,
           cli' = [cli EXCEPT ![o] = d], CommandOK(d, Resolvable),
           UNCHANGED <<artifactVars, history, file, progress, before>>, overlapped' \in BOOLEAN
    PROVE  NamesResolve' /\ UNCHANGED Resolvable
<1>1. Resolvable' = Resolvable
  BY DEF Resolvable, Resolves, artifactVars
<1>2. TablesOK'
  BY DEF TablesOK, NamesResolve, WorkflowTypeOK, artifactVars
<1> QED BY <1>1, <1>2, OneMovesOn

\* A command at rest, and one that begins, with a stage that relies on nothing.
LEMMA FreshCommand ==
    /\ NoCli \in Command
    /\ CommandOK(NoCli, Resolvable)
BY DEF NoCli, Command, CommandOK, OptionOf, CommandName, Stage

LEMMA ExitOK ==
    ASSUME NamesResolve, NEW o \in Operator, Exit(o),
           UNCHANGED <<artifactVars, history, file, progress, before>>, overlapped' \in BOOLEAN
    PROVE  NamesResolve' /\ UNCHANGED Resolvable
BY OnlyCliMoves, FreshCommand DEF Exit

\* Where a command goes when it, or a part of it, has ended.
Returned(c) ==
    IF c.then = <<>> THEN NoCli
    ELSE [NoCli EXCEPT !.cmd = c.then[1], !.stage = c.then[2], !.start = c.start, !.mode = c.mode]

LEMMA ReturnedCommand ==
    ASSUME NEW c \in Command, NEW R, CommandOK(c, R)
    PROVE  Returned(c) \in Command
<1>1. CASE c.then = <<>>
  BY <1>1, FreshCommand DEF Returned
<1>2. CASE c.then # <<>>
  <2>1. c.then[1] \in CommandName /\ c.then[2] \in Stage
    BY <1>2 DEF CommandOK, ReturnStage, Stage, CommandName
  <2>2. c.start \in BOOLEAN /\ c.mode \in OptionOf(ConfigMode)
    BY DEF Command
  <2>3. Returned(c) = [NoCli EXCEPT !.cmd = c.then[1], !.stage = c.then[2], !.start = c.start, !.mode = c.mode]
    BY <1>2 DEF Returned
  <2> QED BY <2>1, <2>2, <2>3, FreshCommand DEF Command
<1> QED BY <1>1, <1>2

\* A part of a command returns to a stage that relies on nothing.
LEMMA ReturnOK ==
    ASSUME NamesResolve, NEW o \in Operator, Return(o)
    PROVE  /\ Returned(cli[o]) \in Command
           /\ cli' = [cli EXCEPT ![o] = Returned(cli[o])]
           /\ \A R : CommandOK(Returned(cli[o]), R)
<1> DEFINE c == cli[o]
<1>1. c \in Command /\ CommandOK(c, Resolvable)
  BY DEF NamesResolve, WorkflowTypeOK
<1>2. cli' = [cli EXCEPT ![o] = Returned(c)]
  BY DEF Return, Returned
<1> HIDE DEF c
<1>3. \A R : CommandOK(Returned(c), R)
  BY <1>1 DEF CommandOK, Returned, NoCli, ReturnStage
<1> QED BY <1>1, <1>2, <1>3, ReturnedCommand DEF c

\* A command begins: the process was at rest, and the tables are left alone.
LEMMA BeginOK ==
    ASSUME NamesResolve, NEW o \in Operator, NEW d \in Command, Begin(o, d), CommandOK(d, Resolvable),
           UNCHANGED <<artifactVars, history, file, progress, before>>
    PROVE  NamesResolve' /\ UNCHANGED Resolvable
<1>1. cli' = [cli EXCEPT ![o] = d] /\ overlapped' \in BOOLEAN
  BY DEF Begin
<1> QED BY <1>1, OnlyCliMoves

\* A running command goes on at another stage with the same fields.
LEMMA StepOK ==
    ASSUME NamesResolve, NEW o \in Operator, NEW s \in Stage, Step(o, s),
           CommandOK([cli[o] EXCEPT !.stage = s], Resolvable),
           UNCHANGED <<artifactVars, history, file, progress, before, overlapped>>
    PROVE  NamesResolve' /\ UNCHANGED Resolvable
<1> DEFINE d == [cli[o] EXCEPT !.stage = s]
<1>1. d \in Command
  BY DEF Command, NamesResolve, WorkflowTypeOK
<1>2. cli' = [cli EXCEPT ![o] = d]
  BY DEF Step
<1>3. overlapped' \in BOOLEAN
  BY DEF NamesResolve, WorkflowTypeOK
<1> HIDE DEF d
<1> QED BY <1>1, <1>2, <1>3, OnlyCliMoves DEF d

---------------------------------------------------------------------------
(***************************************************************************)
(* Every action of Adoption keeps the invariant                            *)
(***************************************************************************)

LEMMA StartDiscoverOK ==
    ASSUME NamesResolve, NEW o \in Operator, NEW r \in Discovered, NEW adoptable \in BOOLEAN,
           StartDiscover(o, r, adoptable)
    PROVE  NamesResolve' /\ UNCHANGED Resolvable
<1> DEFINE d == [NoCli EXCEPT !.cmd = IF adoptable THEN "discover" ELSE "advise",
                              !.stage = "candidate", !.rev = r]
<1>1. r \in Revision
  BY AdoptionAssumption
<1>2. d \in Command
  BY <1>1, FreshCommand DEF Command, OptionOf, CommandName, Stage
<1>3. CommandOK(d, Resolvable)
  BY <1>1 DEF CommandOK, NoCli
<1> HIDE DEF d
<1> QED BY <1>2, <1>3, BeginOK DEF StartDiscover, d

LEMMA StartAdoptOK ==
    ASSUME NamesResolve, NEW o \in Operator, NEW r \in Revision, NEW byAdoptable \in BOOLEAN,
           StartAdopt(o, r, byAdoptable)
    PROVE  NamesResolve' /\ UNCHANGED Resolvable
<1> DEFINE d == [NoCli EXCEPT !.cmd = "adopt", !.stage = "provenance", !.rev = r,
                              !.prev = ConfiguredRevision(file)]
<1>1. ConfiguredRevision(file) \in OptionOf(Revision)
  BY DEF ConfiguredRevision, NamesResolve, WorkflowTypeOK, ConfigFile, OptionOf
<1>2. d \in Command
  BY <1>1, FreshCommand DEF Command, OptionOf, CommandName, Stage
<1>3. CommandOK(d, Resolvable)
  BY DEF CommandOK, NoCli
<1> HIDE DEF d
<1> QED BY <1>2, <1>3, BeginOK DEF StartAdopt, d

\* A migration names a revision.
LEMMA MigratesToRevision ==
    ASSUME NamesResolve, MigratesTo(file) # None
    PROVE  MigratesTo(file) \in Revision
<1>1. CASE file.form = "explicit"
  BY <1>1, AdoptionAssumption DEF MigratesTo
<1>2. CASE file.form = "target_source" /\ Resolves(file.rev)
  <2>1. file.rev \in LegacyRevision
    BY <1>2, AdoptionAssumption DEF NamesResolve, ConfigOK, Resolves, WorkflowTypeOK
  <2>2. MigratesTo(file) = CanonicalOf[file.rev]
    BY <1>2 DEF MigratesTo
  <2> QED BY <2>1, <2>2, AdoptionAssumption
<1> QED BY <1>1, <1>2 DEF MigratesTo

LEMMA StartMigrationOK ==
    ASSUME NamesResolve, NEW o \in Operator, StartMigration(o)
    PROVE  NamesResolve' /\ UNCHANGED Resolvable
<1> DEFINE d == [NoCli EXCEPT !.cmd = "migrate", !.stage = "candidate", !.rev = MigratesTo(file),
                              !.prev = ConfiguredRevision(file)]
<1>1. ConfiguredRevision(file) \in OptionOf(Revision) /\ MigratesTo(file) \in Revision
  BY MigratesToRevision DEF ConfiguredRevision, NamesResolve, WorkflowTypeOK, ConfigFile, OptionOf, StartMigration
<1>2. d \in Command
  BY <1>1, FreshCommand DEF Command, OptionOf, CommandName, Stage
<1>3. CommandOK(d, Resolvable)
  BY <1>1 DEF CommandOK, NoCli
<1> HIDE DEF d
<1> QED BY <1>2, <1>3, BeginOK DEF StartMigration, d

\* What a rollback selects resolves: the history has only revisions that do.
LEMMA SelectedResolves ==
    ASSUME NamesResolve, NEW r \in Revision, SelectsRevision(r)
    PROVE  r \in Resolvable
BY DEF NamesResolve, SelectsRevision, HistoryHasLineage, Resolvable, Resolves

LEMMA StartRollbackOK ==
    ASSUME NamesResolve, NEW o \in Operator, NEW to \in Revision \cup {None}, StartRollback(o, to)
    PROVE  NamesResolve' /\ UNCHANGED Resolvable
<1> DEFINE dest == IF to = None THEN PreviousDistinctRevision(RollbackOrigin(file)) ELSE to
           d == [NoCli EXCEPT !.cmd = "rollback", !.stage = "history", !.rev = dest,
                              !.prev = RollbackOrigin(file)]
<1>1. RollbackOrigin(file) \in OptionOf(Revision)
  BY AdoptionAssumption DEF RollbackOrigin, ConfiguredRevision, NamesResolve, WorkflowTypeOK, ConfigFile, OptionOf
<1>2. SelectsRevision(dest) /\ Begin(o, d)
  BY DEF StartRollback, RollbackSelects
<1>3. dest \in Revision
  BY <1>2 DEF SelectsRevision, NamesResolve, WorkflowTypeOK
<1>4. dest \in Resolvable
  BY <1>2, <1>3, SelectedResolves
<1> HIDE DEF dest
<1>5. d \in Command
  BY <1>1, <1>3, FreshCommand DEF Command, OptionOf, CommandName, Stage
<1>6. CommandOK(d, Resolvable)
  BY <1>4 DEF CommandOK, NoCli
<1> HIDE DEF d
<1> QED BY <1>2, <1>5, <1>6, BeginOK DEF StartRollback

\* Rows of the artifact tables are added, and one process moves on.
LEMMA RowsAdded ==
    ASSUME NamesResolve, NEW o \in Operator, NEW d \in Command, cli' = [cli EXCEPT ![o] = d],
           candidates \subseteq candidates', adoptables \subseteq adoptables',
           provenance \subseteq provenance', candidates' \cup adoptables' \cup provenance' \subseteq Revision,
           CommandOK(d, Resolvable'),
           UNCHANGED <<history, file, progress, before, overlapped>>
    PROVE  NamesResolve' /\ Resolvable \subseteq Resolvable'
<1>1. Resolvable \subseteq Resolvable'
  BY DEF Resolvable, Resolves
<1>2. TablesOK'
  BY DEF TablesOK, NamesResolve, WorkflowTypeOK
<1> QED BY <1>1, <1>2, OneMovesOn

LEMMA UpsertCandidateOK ==
    ASSUME NamesResolve, NEW o \in Operator, UpsertCandidate(o)
    PROVE  NamesResolve' /\ Resolvable \subseteq Resolvable'
<1> DEFINE c == cli[o]
           d == [c EXCEPT !.stage = IF c.cmd = "advise" THEN "refresh" ELSE "adoptable"]
<1>1. c \in Command /\ CommandOK(c, Resolvable) /\ c.stage = "candidate"
  BY DEF NamesResolve, WorkflowTypeOK, UpsertCandidate, AtStage
<1>2. cli' = [cli EXCEPT ![o] = d]
  BY DEF UpsertCandidate, Step
<1> HIDE DEF c
<1>3. d \in Command /\ CommandOK(d, Resolvable')
  BY <1>1 DEF Command, CommandOK, Stage
<1>4. c.rev \in Revision
  BY <1>1 DEF CommandOK
<1> HIDE DEF d
<1> QED BY <1>2, <1>3, <1>4, RowsAdded DEF UpsertCandidate, ghostVars, NamesResolve, WorkflowTypeOK, c

LEMMA UpsertAdoptableOK ==
    ASSUME NamesResolve, NEW o \in Operator, UpsertAdoptable(o)
    PROVE  NamesResolve' /\ Resolvable \subseteq Resolvable'
<1> DEFINE c == cli[o]
           d == [c EXCEPT !.stage = IF c.cmd = "migrate" THEN "provenance" ELSE "refresh"]
<1>1. c \in Command /\ CommandOK(c, Resolvable) /\ c.stage = "adoptable"
  BY DEF NamesResolve, WorkflowTypeOK, UpsertAdoptable, AtStage
<1>2. cli' = [cli EXCEPT ![o] = d]
  BY DEF UpsertAdoptable, Step
<1> HIDE DEF c
<1>3. d \in Command /\ CommandOK(d, Resolvable')
  BY <1>1 DEF Command, CommandOK, Stage
<1>4. c.rev \in Revision
  BY <1>1 DEF CommandOK
<1> HIDE DEF d
<1> QED BY <1>2, <1>3, <1>4, RowsAdded DEF UpsertAdoptable, ghostVars, NamesResolve, WorkflowTypeOK, c

LEMMA AppendDiscoverRefreshOK ==
    ASSUME NamesResolve, NEW o \in Operator, AppendDiscoverRefresh(o)
    PROVE  NamesResolve' /\ UNCHANGED Resolvable
<1>1. \E d \in Command : cli' = [cli EXCEPT ![o] = d] /\ \A R : CommandOK(d, R)
  BY ReturnOK DEF AppendDiscoverRefresh
<1>2. overlapped' \in BOOLEAN
  BY DEF AppendDiscoverRefresh, ghostVars, NamesResolve, WorkflowTypeOK
<1> QED BY <1>1, <1>2, OnlyCliMoves DEF AppendDiscoverRefresh, ghostVars

\* After it the revision of the command resolves.
LEMMA EnsureCanonicalProvenanceOK ==
    ASSUME NamesResolve, NEW o \in Operator, EnsureCanonicalProvenance(o)
    PROVE  NamesResolve' /\ Resolvable \subseteq Resolvable'
<1> DEFINE c == cli[o]
           d == [c EXCEPT !.stage = IF c.cmd = "migrate" THEN "read" ELSE "history"]
<1>1. c \in Command /\ CommandOK(c, Resolvable) /\ c.stage = "provenance"
  BY DEF NamesResolve, WorkflowTypeOK, EnsureCanonicalProvenance, AtStage
<1>2. cli' = [cli EXCEPT ![o] = d]
  BY DEF EnsureCanonicalProvenance, Step
<1>3. c.rev \in Revision
  BY <1>1 DEF CommandOK
<1>4. c.rev \in Resolvable'
  BY <1>3 DEF Resolvable, Resolves, EnsureCanonicalProvenance
<1> HIDE DEF c
<1>5. d \in Command /\ CommandOK(d, Resolvable')
  BY <1>1, <1>4 DEF Command, CommandOK, Stage
<1> HIDE DEF d
<1> QED BY <1>2, <1>3, <1>5, RowsAdded
    DEF EnsureCanonicalProvenance, ghostVars, NamesResolve, WorkflowTypeOK, c

\* A history row names a revision that resolves.
LEMMA AppendHistoryOK ==
    ASSUME NamesResolve, NEW o \in Operator, AppendHistory(o)
    PROVE  NamesResolve' /\ UNCHANGED Resolvable
<1> DEFINE c == cli[o]
           row == [kind |-> IF c.cmd = "rollback" THEN "rollback" ELSE "adopt",
                   rev |-> c.rev, prev |-> c.prev]
<1>1. c \in Command /\ CommandOK(c, Resolvable) /\ c.stage = "history"
  BY DEF NamesResolve, WorkflowTypeOK, AppendHistory, AtStage
<1>2. c.rev \in Resolvable /\ c.rev \in Revision
  BY <1>1 DEF CommandOK, Resolvable
<1>3. row \in HistoryRow /\ row.rev \in Resolvable
  BY <1>1, <1>2 DEF Command, HistoryRow
<1>4. \E d \in Command : cli' = [cli EXCEPT ![o] = d] /\ CommandOK(d, Resolvable)
  <2>1. CASE Return(o)
    BY <2>1, ReturnOK
  <2>2. CASE Step(o, "read")
    <3> DEFINE d == [c EXCEPT !.stage = "read"]
    <3>1. d \in Command /\ CommandOK(d, Resolvable)
      BY <1>1, <1>2 DEF Command, CommandOK, Stage
    <3> QED BY <3>1, <2>2 DEF Step
  <2> QED BY <2>1, <2>2 DEF AppendHistory
<1>5. PICK d \in Command : cli' = [cli EXCEPT ![o] = d] /\ CommandOK(d, Resolvable)
  BY <1>4
<1>6. Resolvable' = Resolvable
  BY DEF AppendHistory, Resolvable, Resolves, artifactVars
<1>7. history' = Append(history, row)
  BY DEF AppendHistory
<1> HIDE DEF row
<1>8. history' \in Seq(HistoryRow) /\ \A i \in DOMAIN history' : history'[i].rev \in Resolvable
  BY <1>3, <1>7 DEF NamesResolve, WorkflowTypeOK
<1>9. WorkflowTypeOK'
  BY <1>5, <1>8 DEF NamesResolve, WorkflowTypeOK, AppendHistory, artifactVars, ghostVars
<1>10. \A q \in Operator : CommandOK(cli'[q], Resolvable)
  BY <1>5 DEF NamesResolve, WorkflowTypeOK
<1>11. ConfigOK(file', Resolvable)
  BY DEF NamesResolve, AppendHistory
<1> QED BY <1>6, <1>8, <1>9, <1>10, <1>11 DEF NamesResolve

LEMMA ReadConfigOK ==
    ASSUME NamesResolve, NEW o \in Operator, ReadConfig(o)
    PROVE  NamesResolve' /\ UNCHANGED Resolvable
<1> DEFINE c == cli[o]
           text == IF c.cmd = "rollout" THEN [file EXCEPT !.rollout = FamiliesOf[c.rev]]
                   ELSE [file EXCEPT !.form = "canonical", !.rev = c.rev]
           d == [c EXCEPT !.stage = "write", !.text = text]
<1>1. c \in Command /\ CommandOK(c, Resolvable) /\ c.stage = "read"
  BY DEF NamesResolve, WorkflowTypeOK, ReadConfig, AtStage
<1>2. c.rev \in Resolvable /\ c.rev \in Revision
  BY <1>1 DEF CommandOK, Resolvable
<1>3. cli' = [cli EXCEPT ![o] = d]
  BY DEF ReadConfig
<1> HIDE DEF c
<1>4. FamiliesOf[c.rev] \in SUBSET FamilyName
  BY <1>2 DEF FamilyName
<1>5. text \in ConfigFile
  BY <1>2, <1>4 DEF NamesResolve, ConfigOK, ConfigFile, ConfigForm, OptionOf
<1>6. ConfigOK(text, Resolvable)
  BY <1>2, <1>5 DEF NamesResolve, ConfigOK, ConfigFile, ConfiguredRevision, OptionOf
<1> HIDE DEF text
<1>7. d \in Command /\ CommandOK(d, Resolvable)
  BY <1>1, <1>2, <1>5, <1>6 DEF Command, CommandOK, Stage, OptionOf
<1>8. overlapped' \in BOOLEAN
  BY DEF ReadConfig, ghostVars, NamesResolve, WorkflowTypeOK
<1> HIDE DEF d
<1> QED BY <1>3, <1>7, <1>8, OnlyCliMoves DEF ReadConfig, ghostVars

LEMMA CrashOK ==
    ASSUME NamesResolve, NEW o \in Operator, Crash(o)
    PROVE  NamesResolve' /\ UNCHANGED Resolvable
<1>1. overlapped' \in BOOLEAN
  BY DEF Crash, ghostVars, NamesResolve, WorkflowTypeOK
<1> QED BY <1>1, FreshCommand, OnlyCliMoves DEF Crash, ghostVars

\* One process writes the file.
LEMMA FileWritten ==
    ASSUME NamesResolve, NEW o \in Operator, NEW d \in Command, cli' = [cli EXCEPT ![o] = d],
           CommandOK(d, Resolvable), ConfigOK(file', Resolvable), before' \in OptionOf(Revision),
           UNCHANGED <<artifactVars, history, progress, overlapped>>
    PROVE  NamesResolve' /\ UNCHANGED Resolvable
<1>1. Resolvable' = Resolvable
  BY DEF Resolvable, Resolves, artifactVars
<1>2. WorkflowTypeOK'
  BY DEF NamesResolve, WorkflowTypeOK, artifactVars, ConfigOK
<1>3. \A q \in Operator : CommandOK(cli'[q], Resolvable)
  BY DEF NamesResolve, WorkflowTypeOK
<1> QED BY <1>1, <1>2, <1>3 DEF NamesResolve

LEMMA WriteConfigOK ==
    ASSUME NamesResolve, NEW o \in Operator, WriteConfig(o)
    PROVE  NamesResolve' /\ UNCHANGED Resolvable
<1> DEFINE c == cli[o]
<1>1. c \in Command /\ CommandOK(c, Resolvable) /\ c.stage = "write"
  BY DEF NamesResolve, WorkflowTypeOK, WriteConfig, AtStage
<1>2. ConfigOK(file', Resolvable)
  BY <1>1 DEF CommandOK, WriteConfig
<1>3. before' \in OptionOf(Revision)
  BY <1>1 DEF WriteConfig, Command, NamesResolve, WorkflowTypeOK, OptionOf
<1>4. \E d \in Command : cli' = [cli EXCEPT ![o] = d] /\ CommandOK(d, Resolvable)
  <2>1. CASE Return(o)
    BY <2>1, ReturnOK
  <2>2. CASE c.cmd = "migrate" /\ cli' = [cli EXCEPT ![o].cmd = "adopt", ![o].stage = "provenance",
                                                     ![o].text = None]
    <3> DEFINE d == [c EXCEPT !.cmd = "adopt", !.stage = "provenance", !.text = None]
    <3>1. d \in Command /\ CommandOK(d, Resolvable)
      BY <1>1, <2>2 DEF Command, CommandOK, Stage, CommandName, OptionOf
    <3> QED BY <3>1, <2>2
  <2> QED BY <2>1, <2>2 DEF WriteConfig
<1> QED BY <1>2, <1>3, <1>4, FileWritten DEF WriteConfig

---------------------------------------------------------------------------
(***************************************************************************)
(* Every action of Workflow keeps the invariant                            *)
(***************************************************************************)

\* A new config names no revision.
LEMMA FreshConfigOK ==
    ASSUME NEW mode \in ConfigMode, NEW R
    PROVE  ConfigOK(FreshConfig(mode), R)
<1>1. FreshConfig(mode) \in ConfigFile
  BY DEF FreshConfig, ConfigFile, ConfigForm, OptionOf
<1> QED BY <1>1 DEF FreshConfig, ConfigOK, ConfiguredRevision

\* init does not run over a config that exists.
LEMMA StartInitOK ==
    ASSUME NamesResolve, ~InitOverwrites, NEW o \in Operator, NEW mode \in ConfigMode,
           NEW preserve \in BOOLEAN, StartInit(o, mode, preserve)
    PROVE  NamesResolve' /\ UNCHANGED Resolvable
<1> DEFINE d == [NoCli EXCEPT !.cmd = "init", !.stage = "write", !.text = FreshConfig(mode)]
<1>1. ~preserve
  BY DEF StartInit
<1>2. ConfigOK(FreshConfig(mode), Resolvable) /\ FreshConfig(mode) \in ConfigFile
  BY FreshConfigOK DEF ConfigOK
<1>3. d \in Command
  BY <1>2, FreshCommand DEF Command, OptionOf, CommandName, Stage
<1>4. CommandOK(d, Resolvable)
  BY <1>2 DEF CommandOK, NoCli
<1>5. Begin(o, d)
  BY <1>1 DEF StartInit
<1> HIDE DEF d
<1> QED BY <1>3, <1>4, <1>5, BeginOK DEF StartInit, databaseVars

\* The other commands begin at a stage that relies on nothing.
LEMMA StartOthersOK ==
    ASSUME NamesResolve, NEW o \in Operator, NEW start \in BOOLEAN,
           StartApply(o, start) \/ StartBootstrap(o, start) \/ StartDoctor(o) \/ StartRun(o)
    PROVE  NamesResolve' /\ UNCHANGED Resolvable
<1>1. ASSUME NEW cmd \in {"apply", "bootstrap", "doctor", "run"},
             NEW stage \in {"migrate", "wizard", "doctor", "run"},
             stage \in {"migrate", "wizard"} => cmd \in {"apply", "bootstrap"},
             stage = "doctor" => cmd = "doctor",
             Begin(o, [NoCli EXCEPT !.cmd = cmd, !.stage = stage, !.start = start])
                 \/ Begin(o, [NoCli EXCEPT !.cmd = cmd, !.stage = stage]),
             UNCHANGED <<databaseVars, file, sessions, before>>
      PROVE  NamesResolve' /\ UNCHANGED Resolvable
  <2> DEFINE d1 == [NoCli EXCEPT !.cmd = cmd, !.stage = stage, !.start = start]
             d2 == [NoCli EXCEPT !.cmd = cmd, !.stage = stage]
  <2>1. cmd \in CommandName /\ stage \in Stage
    BY DEF CommandName, Stage, ReturnStage
  <2>2. d1 \in Command /\ d2 \in Command
    BY <2>1, FreshCommand DEF Command
  <2>3. CommandOK(d1, Resolvable) /\ CommandOK(d2, Resolvable)
    BY <1>1 DEF CommandOK, NoCli
  <2> HIDE DEF d1, d2
  <2>4. Begin(o, d1) \/ Begin(o, d2)
    BY <1>1 DEF d1, d2
  <2>5. UNCHANGED <<artifactVars, history, file, progress, before>>
    BY <1>1 DEF databaseVars
  <2> QED BY <2>2, <2>3, <2>4, <2>5, BeginOK
<1>2. CASE StartApply(o, start)
  BY <1>1, <1>2 DEF StartApply
<1>3. CASE StartBootstrap(o, start)
  BY <1>1, <1>3 DEF StartBootstrap
<1>4. CASE StartDoctor(o)
  BY <1>1, <1>4 DEF StartDoctor
<1>5. CASE StartRun(o)
  BY <1>1, <1>5 DEF StartRun
<1> QED BY <1>2, <1>3, <1>4, <1>5

\* A command calls a part of itself.
LEMMA CallOK ==
    ASSUME NamesResolve, NEW o \in Operator, cli[o].cmd \in {"apply", "bootstrap"},
           NEW cmd \in CommandName, NEW stage \in {"candidate", "provenance", "read"},
           NEW rev \in Revision, stage = "read" => rev \in Resolvable,
           NEW prev \in OptionOf(Revision), NEW back \in ReturnStage,
           Call(o, cmd, stage, rev, prev, back),
           UNCHANGED <<artifactVars, history, file, progress, before, overlapped>>
    PROVE  NamesResolve' /\ UNCHANGED Resolvable
<1> DEFINE c == cli[o]
           d == [c EXCEPT !.cmd = cmd, !.stage = stage, !.rev = rev, !.prev = prev, !.then = <<c.cmd, back>>]
<1>1. c \in Command /\ CommandOK(c, Resolvable)
  BY DEF NamesResolve, WorkflowTypeOK
<1>2. cli' = [cli EXCEPT ![o] = d]
  BY DEF Call
<1>3. <<c.cmd, back>> \in Seq({"apply", "bootstrap"} \cup ReturnStage)
  OBVIOUS
<1>4. stage \in Stage /\ rev \in OptionOf(Revision)
  BY DEF Stage, OptionOf
<1> HIDE DEF c
<1>5. d \in Command
  BY <1>1, <1>3, <1>4 DEF Command
<1>6. c.cmd \in {"apply", "bootstrap"}
  BY DEF c
<1>7. CommandOK(d, Resolvable)
  BY <1>1, <1>6 DEF CommandOK, Command
<1>8. overlapped' \in BOOLEAN
  BY DEF NamesResolve, WorkflowTypeOK
<1> HIDE DEF d
<1> QED BY <1>2, <1>5, <1>7, <1>8, OnlyCliMoves

\* What the file configures has a type.
LEMMA ConfiguredType ==
    ASSUME NamesResolve
    PROVE  ConfiguredRevision(file) \in OptionOf(Revision) /\ file.mode \in OptionOf(ConfigMode)
BY DEF ConfiguredRevision, NamesResolve, WorkflowTypeOK, ConfigFile, OptionOf

\* A step that moves its own process alone.
LEMMA QuietMove ==
    ASSUME NamesResolve, NEW o \in Operator, NEW d \in Command, cli' = [cli EXCEPT ![o] = d],
           CommandOK(d, Resolvable), UNCHANGED <<databaseVars, file, ghostVars>>
    PROVE  NamesResolve' /\ UNCHANGED Resolvable
<1>1. overlapped' \in BOOLEAN
  BY DEF NamesResolve, WorkflowTypeOK, ghostVars
<1> QED BY <1>1, OnlyCliMoves DEF databaseVars, ghostVars

LEMMA QuietExit ==
    ASSUME NamesResolve, NEW o \in Operator, Exit(o), UNCHANGED <<databaseVars, file, ghostVars>>
    PROVE  NamesResolve' /\ UNCHANGED Resolvable
BY QuietMove, FreshCommand DEF Exit

LEMMA QuietStep ==
    ASSUME NamesResolve, NEW o \in Operator, NEW s \in Stage, Step(o, s),
           CommandOK([cli[o] EXCEPT !.stage = s], Resolvable),
           UNCHANGED <<databaseVars, file, ghostVars>>
    PROVE  NamesResolve' /\ UNCHANGED Resolvable
BY StepOK DEF databaseVars, ghostVars

LEMMA MigrateFirstOK ==
    ASSUME NamesResolve, NEW o \in Operator, MigrateFirst(o)
    PROVE  NamesResolve' /\ UNCHANGED Resolvable
<1> DEFINE c == cli[o]
           back == IF c.cmd = "apply" THEN "scenario" ELSE "detect"
<1>1. c \in Command /\ CommandOK(c, Resolvable) /\ c.stage = "migrate"
  BY DEF NamesResolve, WorkflowTypeOK, MigrateFirst, AtStage
<1>2. c.cmd \in {"apply", "bootstrap"} /\ back \in ReturnStage
  BY <1>1 DEF CommandOK, ReturnStage
<1>3. CASE Step(o, back)
  <2>1. CommandOK([c EXCEPT !.stage = back], Resolvable) /\ back \in Stage
    BY <1>1, <1>2 DEF CommandOK, Command, Stage, ReturnStage
  <2> QED BY <1>3, <2>1, QuietStep DEF MigrateFirst
<1>4. CASE file.form = "explicit" /\ Call(o, "migrate", "candidate", MigratesTo(file), ConfiguredRevision(file), back)
  <2>1. MigratesTo(file) \in Revision
    BY <1>4, AdoptionAssumption DEF MigratesTo
  <2>2. UNCHANGED <<artifactVars, history, file, progress, before, overlapped>>
    BY DEF MigrateFirst, databaseVars, ghostVars
  <2> HIDE DEF back
  <2> QED BY <1>2, <1>4, <2>1, <2>2, ConfiguredType, CallOK DEF CommandName
<1> QED BY <1>3, <1>4 DEF MigrateFirst

LEMMA ApplyScenarioOK ==
    ASSUME NamesResolve, NEW o \in Operator, ApplyScenario(o)
    PROVE  NamesResolve' /\ UNCHANGED Resolvable
<1> DEFINE c == cli[o]
           d == [c EXCEPT !.stage = "status", !.mode = file.mode]
<1>1. c \in Command /\ CommandOK(c, Resolvable) /\ c.stage = "scenario"
  BY DEF NamesResolve, WorkflowTypeOK, ApplyScenario, AtStage
<1>2. CASE Exit(o)
  BY <1>2, QuietExit DEF ApplyScenario
<1>3. CASE cli' = [cli EXCEPT ![o].stage = "status", ![o].mode = file.mode]
  <2>1. cli' = [cli EXCEPT ![o] = d]
    BY <1>3
  <2> HIDE DEF c
  <2>2. d \in Command /\ CommandOK(d, Resolvable)
    BY <1>1, ConfiguredType DEF Command, CommandOK, Stage, ReturnStage
  <2> HIDE DEF d
  <2> QED BY <2>1, <2>2, QuietMove DEF ApplyScenario
<1> QED BY <1>2, <1>3 DEF ApplyScenario

LEMMA ApplyStatusOK ==
    ASSUME NamesResolve, NEW o \in Operator, ApplyStatus(o)
    PROVE  NamesResolve' /\ UNCHANGED Resolvable
<1> DEFINE c == cli[o]
           next == AfterStatus(c.mode, file)
           blocked == ConfiguredRevision(file) # None /\ StartBlocked(file)
           d == [c EXCEPT !.stage = next, !.rev = ConfiguredRevision(file), !.prev = progress,
                          !.blocked = blocked]
<1>1. c \in Command /\ CommandOK(c, Resolvable) /\ c.stage = "status"
  BY DEF NamesResolve, WorkflowTypeOK, ApplyStatus, AtStage
<1>2. CASE next = "exit"
  BY <1>2, QuietExit DEF ApplyStatus
<1>3. CASE next # "exit"
  <2>1. cli' = [cli EXCEPT ![o] = d]
    BY <1>3 DEF ApplyStatus
  <2>2. next \in {"adopt", "rollout", "doctor"}
    BY <1>3 DEF AfterStatus
  <2>3. progress \in OptionOf(Revision) /\ blocked \in BOOLEAN
    BY DEF NamesResolve, WorkflowTypeOK
  <2> HIDE DEF c, next, blocked
  <2>4. d \in Command
    BY <1>1, <2>2, <2>3, ConfiguredType DEF Command, Stage, ReturnStage
  <2>5. CommandOK(d, Resolvable)
    BY <1>1, <2>2 DEF Command, CommandOK
  <2> HIDE DEF d
  <2> QED BY <2>1, <2>4, <2>5, QuietMove DEF ApplyStatus
<1> QED BY <1>2, <1>3

LEMMA ApplyGateOK ==
    ASSUME NamesResolve, NEW o \in Operator, NEW confirmed \in BOOLEAN, ApplyGate(o, confirmed)
    PROVE  NamesResolve' /\ UNCHANGED Resolvable
<1>1. CASE Exit(o)
  BY <1>1, QuietExit DEF ApplyGate
<1>2. CASE Step(o, "run")
  <2>1. CommandOK([cli[o] EXCEPT !.stage = "run"], Resolvable) /\ "run" \in Stage
    BY DEF NamesResolve, WorkflowTypeOK, CommandOK, Command, Stage
  <2> QED BY <1>2, <2>1, QuietStep DEF ApplyGate
<1> QED BY <1>1, <1>2 DEF ApplyGate

LEMMA CompleteMissingConfigOK ==
    ASSUME NamesResolve, NEW o \in Operator, NEW mode \in {"paper", "smoke"},
           CompleteMissingConfig(o, mode)
    PROVE  NamesResolve' /\ UNCHANGED Resolvable
<1> DEFINE c == cli[o]
           d == [c EXCEPT !.stage = "migrate"]
<1>1. c \in Command /\ CommandOK(c, Resolvable) /\ c.stage = "wizard"
  BY DEF NamesResolve, WorkflowTypeOK, CompleteMissingConfig, AtStage
<1>2. cli' = [cli EXCEPT ![o] = d]
  BY DEF CompleteMissingConfig, Step
<1>3. d \in Command /\ CommandOK(d, Resolvable)
  BY <1>1 DEF Command, CommandOK, Stage
<1>4. ConfigOK(file', Resolvable)
  BY FreshConfigOK DEF CompleteMissingConfig, ConfigMode
<1>5. before' \in OptionOf(Revision)
  BY DEF CompleteMissingConfig, ghostVars, NamesResolve, WorkflowTypeOK
<1> HIDE DEF d
<1> QED BY <1>2, <1>3, <1>4, <1>5, FileWritten DEF CompleteMissingConfig, databaseVars, ghostVars

LEMMA BootstrapDetectOK ==
    ASSUME NamesResolve, NEW o \in Operator, BootstrapDetect(o)
    PROVE  NamesResolve' /\ UNCHANGED Resolvable
<1> DEFINE c == cli[o]
<1>1. c \in Command /\ CommandOK(c, Resolvable) /\ c.stage = "detect"
  BY DEF NamesResolve, WorkflowTypeOK, BootstrapDetect, AtStage
<1>2. CASE Exit(o)
  BY <1>2, QuietExit DEF BootstrapDetect
<1>3. CASE ~Exit(o)
  <2>1. PICK next \in {"doctor", "adopt"} : cli' = [cli EXCEPT ![o].stage = next, ![o].mode = file.mode]
    BY <1>3 DEF BootstrapDetect
  <2> DEFINE d == [c EXCEPT !.stage = next, !.mode = file.mode]
  <2>2. cli' = [cli EXCEPT ![o] = d]
    BY <2>1
  <2> HIDE DEF c
  <2>3. d \in Command /\ CommandOK(d, Resolvable)
    BY <1>1, ConfiguredType DEF Command, CommandOK, Stage, ReturnStage
  <2> HIDE DEF d
  <2> QED BY <2>2, <2>3, QuietMove DEF BootstrapDetect
<1> QED BY <1>2, <1>3

LEMMA InlineDiscoverOK ==
    ASSUME NamesResolve, NEW o \in Operator, NEW r \in Discovered, NEW adoptable \in BOOLEAN,
           InlineDiscover(o, r, adoptable)
    PROVE  NamesResolve' /\ UNCHANGED Resolvable
<1> DEFINE cmd == IF adoptable THEN "discover" ELSE "advise"
<1>1. r \in Revision /\ cmd \in CommandName /\ None \in OptionOf(Revision) /\ "adopt" \in ReturnStage
  BY AdoptionAssumption DEF CommandName, OptionOf, ReturnStage
<1>2. UNCHANGED <<artifactVars, history, file, progress, before, overlapped>>
  BY DEF InlineDiscover, databaseVars, ghostVars
<1>3. cli[o].cmd \in {"apply", "bootstrap"} /\ Call(o, cmd, "candidate", r, None, "adopt")
  BY DEF InlineDiscover
<1> HIDE DEF cmd
<1> QED BY <1>1, <1>2, <1>3, CallOK

LEMMA InlineAdoptOK ==
    ASSUME NamesResolve, NEW o \in Operator, NEW r \in Revision, InlineAdopt(o, r)
    PROVE  NamesResolve' /\ UNCHANGED Resolvable
<1> DEFINE back == IF cli[o].cmd = "apply" THEN "status" ELSE "doctor"
<1>1. cli[o].cmd \in {"apply", "bootstrap"}
  BY DEF InlineAdopt, AtStage, NamesResolve, CommandOK
<1>2. UNCHANGED <<artifactVars, history, file, progress, before, overlapped>>
  BY DEF InlineAdopt, databaseVars, ghostVars
<1>3. Call(o, "adopt", "provenance", r, ConfiguredRevision(file), back)
  BY DEF InlineAdopt
<1>4. back \in ReturnStage /\ "adopt" \in CommandName
  BY DEF ReturnStage, CommandName
<1> HIDE DEF back
<1> QED BY <1>1, <1>2, <1>3, <1>4, ConfiguredType, CallOK

\* The rollout is written for a revision that resolves.
LEMMA InlineRolloutOK ==
    ASSUME NamesResolve, NEW o \in Operator, InlineRollout(o)
    PROVE  NamesResolve' /\ UNCHANGED Resolvable
<1>1. cli[o].cmd \in {"apply", "bootstrap"} /\ file.rev \in Resolvable /\ file.rev \in Revision
  BY DEF InlineRollout, AtStage, NamesResolve, WorkflowTypeOK, CommandOK, StartupResolves, Resolvable, Resolves
<1>2. CASE Step(o, "start")
  <2>1. CommandOK([cli[o] EXCEPT !.stage = "start"], Resolvable) /\ "start" \in Stage
    BY DEF NamesResolve, WorkflowTypeOK, CommandOK, Command, Stage, ReturnStage
  <2> QED BY <1>2, <2>1, QuietStep DEF InlineRollout
<1>3. CASE ~Step(o, "start")
  <2> DEFINE back == IF cli[o].cmd = "apply" THEN "status" ELSE "start"
  <2>1. UNCHANGED <<artifactVars, history, file, progress, before, overlapped>>
    BY DEF InlineRollout, databaseVars, ghostVars
  <2>2. Call(o, "rollout", "read", file.rev, None, back)
    BY <1>3 DEF InlineRollout
  <2>3. back \in ReturnStage /\ "rollout" \in CommandName /\ None \in OptionOf(Revision)
    BY DEF ReturnStage, CommandName, OptionOf
  <2> HIDE DEF back
  <2> QED BY <1>1, <2>1, <2>2, <2>3, CallOK
<1> QED BY <1>2, <1>3

LEMMA DoctorOK ==
    ASSUME NamesResolve, NEW o \in Operator, NEW answered \in BOOLEAN, Doctor(o, answered)
    PROVE  NamesResolve' /\ UNCHANGED Resolvable
<1>1. CASE Exit(o)
  BY <1>1, QuietExit DEF Doctor
<1>2. ASSUME NEW s \in {"gate", "rollout", "start"}, Step(o, s),
             s = "rollout" => cli[o].cmd = "bootstrap"
      PROVE  NamesResolve' /\ UNCHANGED Resolvable
  <2>1. CommandOK([cli[o] EXCEPT !.stage = s], Resolvable) /\ s \in Stage
    BY <1>2 DEF NamesResolve, WorkflowTypeOK, CommandOK, Command, Stage, ReturnStage
  <2> QED BY <1>2, <2>1, QuietStep DEF Doctor
<1>3. CASE ~Exit(o)
  <2>1. cli[o].cmd \in {"doctor", "apply", "bootstrap"}
    BY DEF Doctor, AtStage, NamesResolve, CommandOK
  <2>2. CASE cli[o].cmd = "apply"
    BY <1>2, <1>3, <2>2 DEF Doctor
  <2>3. CASE cli[o].cmd = "bootstrap"
    BY <1>2, <1>3, <2>3 DEF Doctor
  <2>4. CASE cli[o].cmd = "doctor"
    BY <1>3, <2>4 DEF Doctor
  <2> QED BY <2>1, <2>2, <2>3, <2>4
<1> QED BY <1>1, <1>3

LEMMA BootstrapStartOK ==
    ASSUME NamesResolve, NEW o \in Operator, BootstrapStart(o)
    PROVE  NamesResolve' /\ UNCHANGED Resolvable
<1>1. CASE Exit(o)
  BY <1>1, QuietExit DEF BootstrapStart
<1>2. CASE Step(o, "run")
  <2>1. CommandOK([cli[o] EXCEPT !.stage = "run"], Resolvable) /\ "run" \in Stage
    BY DEF NamesResolve, WorkflowTypeOK, CommandOK, Command, Stage
  <2> QED BY <1>2, <2>1, QuietStep DEF BootstrapStart
<1> QED BY <1>1, <1>2 DEF BootstrapStart

LEMMA DeclineOK ==
    ASSUME NamesResolve, NEW o \in Operator, Decline(o)
    PROVE  NamesResolve' /\ UNCHANGED Resolvable
BY QuietExit DEF Decline

---------------------------------------------------------------------------
(* The run sessions have a type of their own.                              *)

SessionRow ==
    [text : ConfigFile, state : {"starting", "running", "exited", "failed"}, fresh : BOOLEAN]

SessionsOK == sessions \in Seq(SessionRow)

LEMMA MarkSessionOK ==
    ASSUME SessionsOK, NEW i, NEW state \in {"running", "exited", "failed"}, MarkSession(i, state)
    PROVE  SessionsOK'
<1> DEFINE row == IF sessions[i].state \in {"starting", "running"}
                  THEN [sessions[i] EXCEPT !.state = state, !.fresh = TRUE] ELSE sessions[i]
<1>1. sessions' = [sessions EXCEPT ![i] = row]
  BY DEF MarkSession
<1>2. CASE i \in DOMAIN sessions
  <2>1. sessions[i] \in SessionRow
    BY <1>2 DEF SessionsOK
  <2>2. row \in SessionRow
    BY <2>1 DEF SessionRow
  <2> HIDE DEF row
  <2> QED BY <1>1, <1>2, <2>2 DEF SessionsOK
<1>3. CASE i \notin DOMAIN sessions
  <2>1. sessions' = sessions
    BY <1>1, <1>3 DEF SessionsOK
  <2> QED BY <2>1 DEF SessionsOK
<1> QED BY <1>2, <1>3

LEMMA CreateStartingOK ==
    ASSUME NamesResolve, SessionsOK, NEW o \in Operator, CreateStarting(o)
    PROVE  NamesResolve' /\ SessionsOK' /\ UNCHANGED Resolvable
<1> DEFINE c == cli[o]
           row == [text |-> file, state |-> "starting", fresh |-> TRUE]
           d == [c EXCEPT !.stage = "resolve", !.text = file, !.session = Len(sessions) + 1]
<1>1. c \in Command /\ CommandOK(c, Resolvable) /\ file \in ConfigFile
  BY DEF NamesResolve, WorkflowTypeOK
<1>2. CASE Exit(o) /\ UNCHANGED sessions
  BY <1>2, QuietExit DEF CreateStarting, SessionsOK
<1>3. CASE ~(Exit(o) /\ UNCHANGED sessions)
  <2>1. cli' = [cli EXCEPT ![o] = d] /\ sessions' = Append(sessions, row)
    BY <1>3 DEF CreateStarting
  <2>2. row \in SessionRow
    BY <1>1 DEF SessionRow
  <2> HIDE DEF row
  <2>3. SessionsOK'
    BY <2>1, <2>2 DEF SessionsOK
  <2>4. Len(sessions) + 1 \in Nat
    BY DEF SessionsOK
  <2> HIDE DEF c
  <2>5. d \in Command
    BY <1>1, <2>4 DEF Command, Stage, OptionOf
  <2>6. CommandOK(d, Resolvable)
    BY <1>1 DEF Command, CommandOK
  <2> HIDE DEF d
  <2> QED BY <2>1, <2>3, <2>5, <2>6, QuietMove DEF CreateStarting
<1> QED BY <1>2, <1>3

LEMMA ResolveRunOK ==
    ASSUME NamesResolve, SessionsOK, NEW o \in Operator, NEW built \in BOOLEAN, ResolveRun(o, built)
    PROVE  NamesResolve' /\ SessionsOK' /\ UNCHANGED Resolvable
<1> DEFINE c == cli[o]
           d == [c EXCEPT !.stage = "progress", !.rev = c.text.rev]
<1>1. c \in Command /\ CommandOK(c, Resolvable) /\ c.stage = "resolve" /\ c.text \in ConfigFile
  BY DEF NamesResolve, WorkflowTypeOK, CommandOK, ResolveRun, AtStage
<1>2. CASE Step(o, "running") /\ UNCHANGED sessions
  <2>1. CommandOK([c EXCEPT !.stage = "running"], Resolvable) /\ "running" \in Stage
    BY <1>1 DEF CommandOK, Command, Stage
  <2> QED BY <1>2, <2>1, QuietStep DEF ResolveRun, SessionsOK
<1>3. CASE Exit(o) /\ MarkSession(c.session, "failed")
  BY <1>3, QuietExit, MarkSessionOK DEF ResolveRun
<1>4. CASE StartupResolves(c.text) /\ UNCHANGED sessions
           /\ cli' = [cli EXCEPT ![o].stage = "progress", ![o].rev = c.text.rev]
  <2>1. cli' = [cli EXCEPT ![o] = d]
    BY <1>4
  <2>2. c.text.rev \in Resolvable /\ c.text.rev \in OptionOf(Revision)
    BY <1>1, <1>4 DEF StartupResolves, Resolvable, Resolves, ConfigFile, NamesResolve, WorkflowTypeOK
  <2> HIDE DEF c
  <2>3. d \in Command
    BY <1>1, <2>2 DEF Command, Stage
  <2>4. CommandOK(d, Resolvable)
    BY <1>1, <2>2 DEF Command, CommandOK
  <2>5. SessionsOK'
    BY <1>4 DEF SessionsOK
  <2> HIDE DEF d
  <2> QED BY <2>1, <2>3, <2>4, <2>5, QuietMove DEF ResolveRun
<1> QED BY <1>2, <1>3, <1>4 DEF ResolveRun

\* The progress is saved under a revision that resolves.
LEMMA RecordProgressOK ==
    ASSUME NamesResolve, SessionsOK, NEW o \in Operator, RecordProgress(o)
    PROVE  NamesResolve' /\ SessionsOK' /\ UNCHANGED Resolvable /\ progress' \in Resolvable
<1> DEFINE c == cli[o]
           d == [c EXCEPT !.stage = "running"]
<1>1. c \in Command /\ CommandOK(c, Resolvable) /\ c.stage = "progress"
  BY DEF NamesResolve, WorkflowTypeOK, RecordProgress, AtStage
<1>2. cli' = [cli EXCEPT ![o] = d]
  BY DEF RecordProgress, Step
<1>3. d \in Command /\ CommandOK(d, Resolvable)
  BY <1>1 DEF Command, CommandOK, Stage
<1>4. progress' \in Resolvable
  BY <1>1 DEF RecordProgress, CommandOK
<1>5. Resolvable' = Resolvable
  BY DEF RecordProgress, Resolvable, Resolves, artifactVars
<1>6. TablesOK'
  BY <1>4 DEF TablesOK, RecordProgress, artifactVars, ghostVars, NamesResolve, WorkflowTypeOK, Resolvable, OptionOf
<1> HIDE DEF d
<1>7. NamesResolve'
  BY <1>2, <1>3, <1>5, <1>6, OneMovesOn DEF RecordProgress
<1> QED BY <1>4, <1>5, <1>7 DEF RecordProgress, SessionsOK

LEMMA MarkRunningOK ==
    ASSUME NamesResolve, SessionsOK, NEW o \in Operator, MarkRunning(o)
    PROVE  NamesResolve' /\ SessionsOK' /\ UNCHANGED Resolvable
<1>1. CommandOK([cli[o] EXCEPT !.stage = "exited"], Resolvable) /\ "exited" \in Stage
  BY DEF NamesResolve, WorkflowTypeOK, CommandOK, Command, Stage
<1> QED BY <1>1, QuietStep, MarkSessionOK DEF MarkRunning

LEMMA MarkExitedOK ==
    ASSUME NamesResolve, SessionsOK, NEW o \in Operator, MarkExited(o)
    PROVE  NamesResolve' /\ SessionsOK' /\ UNCHANGED Resolvable
BY QuietExit, MarkSessionOK DEF MarkExited

LEMMA AgeOK ==
    ASSUME NamesResolve, SessionsOK, NEW i, Age(i)
    PROVE  NamesResolve' /\ SessionsOK' /\ UNCHANGED Resolvable
<1>1. UNCHANGED adoptionVars => NamesResolve' /\ UNCHANGED Resolvable
  BY DEF adoptionVars, NamesResolve, WorkflowTypeOK, Resolvable, Resolves
<1>2. sessions[i] \in SessionRow
  BY DEF Age, SessionsOK
<1>3. [sessions[i] EXCEPT !.fresh = FALSE] \in SessionRow
  BY <1>2 DEF SessionRow
<1>4. SessionsOK'
  BY <1>3 DEF Age, SessionsOK
<1> QED BY <1>1, <1>4 DEF Age

---------------------------------------------------------------------------
(***************************************************************************)
(* The commands implement StrategyControl                                  *)
(***************************************************************************)

\* What a step may do to the state that StrategyControl is about.
Simulates ==
    \/ UNCHANGED <<file, progress>> /\ Resolvable \subseteq Resolvable'
    \/ UNCHANGED <<Resolvable, progress>>
    \/ UNCHANGED <<Resolvable, file>> /\ progress' \in Resolvable

LEMMA SimulatesControl ==
    ASSUME NamesResolve', Simulates
    PROVE  [Control!ControlNext]_(Control!controlVars)
<1>1. CASE UNCHANGED <<file, progress>> /\ Resolvable \subseteq Resolvable'
  <2>1. Control!Publish
    BY <1>1 DEF Control!Publish, Resolvable, ConfiguredRevision
  <2> QED BY <2>1 DEF Control!ControlNext
<1>2. CASE UNCHANGED <<Resolvable, progress>>
  <2>1. ConfiguredRevision(file)' \in Resolvable \cup {None}
    BY <1>2 DEF NamesResolve, ConfigOK, ConfiguredRevision
  <2>2. Control!Configure
    BY <1>2, <2>1 DEF Control!Configure, Resolvable
  <2> QED BY <2>2 DEF Control!ControlNext
<1>3. CASE UNCHANGED <<Resolvable, file>> /\ progress' \in Resolvable
  <2>1. Control!Activate
    BY <1>3 DEF Control!Activate, Resolvable, ConfiguredRevision
  <2> QED BY <2>1 DEF Control!ControlNext
<1> QED BY <1>1, <1>2, <1>3 DEF Simulates

LEMMA InitNamesResolve ==
    ASSUME WorkflowInit
    PROVE  NamesResolve /\ SessionsOK /\ Control!ControlInit
<1>1. candidates \subseteq Revision /\ adoptables = candidates /\ provenance = candidates \cap LegacyRevision
  BY AdoptionAssumption DEF WorkflowInit, AdoptionInit
<1>2. Resolvable = provenance
  BY <1>1, AdoptionAssumption DEF Resolvable, Resolves
<1>3. file \in ConfigFile /\ ConfiguredRevision(file) \in Resolvable \cup {None}
  BY <1>2, AdoptionAssumption DEF WorkflowInit, AdoptionInit
<1>4. file.form = "target_source" => file.rev \in LegacyRevision \cup {None}
  BY <1>1, <1>2, <1>3 DEF ConfiguredRevision
<1>5. WorkflowTypeOK
  <2>1. cli \in [Operator -> Command]
    BY FreshCommand DEF WorkflowInit, AdoptionInit
  <2>2. history \in Seq(HistoryRow) /\ overlapped \in BOOLEAN
    <3>1. history = <<>> /\ overlapped = FALSE
      BY DEF WorkflowInit, AdoptionInit
    <3>2. history \in Seq(HistoryRow)
      BY <3>1
    <3>3. overlapped \in BOOLEAN
      BY <3>1
    <3> QED BY <3>2, <3>3
  <2>3. progress \in OptionOf(Revision) /\ before \in OptionOf(Revision)
    BY DEF WorkflowInit, AdoptionInit, OptionOf
  <2> QED BY <1>1, <1>3, <2>1, <2>2, <2>3 DEF WorkflowTypeOK
<1>6. \A o \in Operator : CommandOK(cli[o], Resolvable)
  BY FreshCommand DEF WorkflowInit, AdoptionInit
<1>7. history = <<>> /\ sessions = <<>> /\ progress = None
  BY DEF WorkflowInit, AdoptionInit
<1>8. NamesResolve
  BY <1>3, <1>4, <1>5, <1>6, <1>7 DEF NamesResolve, ConfigOK
<1>9. Control!ControlInit
  BY <1>3, <1>7 DEF Control!ControlInit, Resolvable
<1> QED BY <1>7, <1>8, <1>9 DEF SessionsOK

\* The commands of Adoption, with the sessions left alone.
LEMMA AdoptionStepOK ==
    ASSUME NamesResolve, NEW o \in Operator, AdoptionNext(o) \/ AdoptionStep(o)
    PROVE  NamesResolve' /\ Simulates
<1>1. CASE \E r \in Discovered, adoptable \in BOOLEAN : StartDiscover(o, r, adoptable)
  BY <1>1, StartDiscoverOK DEF StartDiscover, Simulates
<1>2. CASE \E r \in Revision, byAdoptable \in BOOLEAN : StartAdopt(o, r, byAdoptable)
  BY <1>2, StartAdoptOK DEF StartAdopt, Simulates
<1>3. CASE StartMigration(o)
  BY <1>3, StartMigrationOK DEF StartMigration, Simulates
<1>4. CASE \E to \in Revision \cup {None} : StartRollback(o, to)
  BY <1>4, StartRollbackOK DEF StartRollback, Simulates
<1>5. CASE Crash(o)
  BY <1>5, CrashOK DEF Crash, Simulates
<1>6. CASE UpsertCandidate(o)
  BY <1>6, UpsertCandidateOK DEF UpsertCandidate, Simulates
<1>7. CASE UpsertAdoptable(o)
  BY <1>7, UpsertAdoptableOK DEF UpsertAdoptable, Simulates
<1>8. CASE AppendDiscoverRefresh(o)
  BY <1>8, AppendDiscoverRefreshOK DEF AppendDiscoverRefresh, Simulates
<1>9. CASE EnsureCanonicalProvenance(o)
  BY <1>9, EnsureCanonicalProvenanceOK DEF EnsureCanonicalProvenance, Simulates
<1>10. CASE AppendHistory(o)
  BY <1>10, AppendHistoryOK DEF AppendHistory, Simulates
<1>11. CASE ReadConfig(o)
  BY <1>11, ReadConfigOK DEF ReadConfig, Simulates
<1>12. CASE WriteConfig(o)
  BY <1>12, WriteConfigOK DEF WriteConfig, Simulates
<1> QED BY <1>1, <1>2, <1>3, <1>4, <1>5, <1>6, <1>7, <1>8, <1>9, <1>10, <1>11, <1>12
    DEF AdoptionNext, AdoptionStep

LEMMA WorkflowStepOK ==
    ASSUME NamesResolve, SessionsOK, NEW o \in Operator, WorkflowStep(o)
    PROVE  NamesResolve' /\ SessionsOK' /\ Simulates
<1> USE DEF Simulates, SessionsOK
<1>1. CASE AdoptionStep(o) /\ UNCHANGED <<sessions, activeSession>>
  BY <1>1, AdoptionStepOK
<1>2. CASE MigrateFirst(o)
  BY <1>2, MigrateFirstOK DEF MigrateFirst, databaseVars
<1>3. CASE ApplyScenario(o)
  BY <1>3, ApplyScenarioOK DEF ApplyScenario, databaseVars
<1>4. CASE ApplyStatus(o)
  BY <1>4, ApplyStatusOK DEF ApplyStatus, databaseVars
<1>5. CASE \E confirmed \in BOOLEAN : ApplyGate(o, confirmed)
  BY <1>5, ApplyGateOK DEF ApplyGate, databaseVars
<1>6. CASE \E mode \in {"paper", "smoke"} : CompleteMissingConfig(o, mode)
  BY <1>6, CompleteMissingConfigOK DEF CompleteMissingConfig, databaseVars
<1>7. CASE BootstrapDetect(o)
  BY <1>7, BootstrapDetectOK DEF BootstrapDetect, databaseVars
<1>8. CASE \E r \in Discovered, adoptable \in BOOLEAN : InlineDiscover(o, r, adoptable)
  BY <1>8, InlineDiscoverOK DEF InlineDiscover, databaseVars
<1>9. CASE \E r \in Revision : InlineAdopt(o, r)
  BY <1>9, InlineAdoptOK DEF InlineAdopt, databaseVars
<1>10. CASE Decline(o)
  BY <1>10, DeclineOK DEF Decline, databaseVars
<1>11. CASE InlineRollout(o)
  BY <1>11, InlineRolloutOK DEF InlineRollout, databaseVars
<1>12. CASE \E answered \in BOOLEAN : Doctor(o, answered)
  BY <1>12, DoctorOK DEF Doctor, databaseVars
<1>13. CASE BootstrapStart(o)
  BY <1>13, BootstrapStartOK DEF BootstrapStart, databaseVars
<1>14. CASE CreateStarting(o)
  BY <1>14, CreateStartingOK DEF CreateStarting, databaseVars
<1>15. CASE \E built \in BOOLEAN : ResolveRun(o, built)
  BY <1>15, ResolveRunOK DEF ResolveRun, databaseVars
<1>16. CASE RecordProgress(o)
  BY <1>16, RecordProgressOK DEF RecordProgress
<1>17. CASE MarkRunning(o)
  BY <1>17, MarkRunningOK DEF MarkRunning, databaseVars
<1>18. CASE MarkExited(o)
  BY <1>18, MarkExitedOK DEF MarkExited, databaseVars
<1> QED BY <1>1, <1>2, <1>3, <1>4, <1>5, <1>6, <1>7, <1>8, <1>9, <1>10, <1>11, <1>12, <1>13,
           <1>14, <1>15, <1>16, <1>17, <1>18 DEF WorkflowStep

LEMMA WorkflowNextOK ==
    ASSUME ~InitOverwrites, NamesResolve, SessionsOK, [WorkflowNext]_workflowVars
    PROVE  NamesResolve' /\ SessionsOK' /\ Simulates
<1>1. ASSUME NEW o \in Operator, AdoptionNext(o), UNCHANGED <<sessions, activeSession>>
      PROVE  NamesResolve' /\ SessionsOK' /\ Simulates
  BY <1>1, AdoptionStepOK DEF SessionsOK
<1>2. ASSUME NEW o \in Operator, NEW mode \in ConfigMode, NEW preserve \in BOOLEAN,
             StartInit(o, mode, preserve)
      PROVE  NamesResolve' /\ SessionsOK' /\ Simulates
  BY <1>2, StartInitOK DEF SessionsOK, Simulates, StartInit, databaseVars
<1>3. ASSUME NEW o \in Operator, NEW start \in BOOLEAN,
             StartApply(o, start) \/ StartBootstrap(o, start) \/ StartDoctor(o) \/ StartRun(o)
      PROVE  NamesResolve' /\ SessionsOK' /\ Simulates
  BY <1>3, StartOthersOK DEF SessionsOK, Simulates, StartApply, StartBootstrap, StartDoctor, StartRun,
                             databaseVars
<1>4. ASSUME NEW o \in Operator, WorkflowStep(o)
      PROVE  NamesResolve' /\ SessionsOK' /\ Simulates
  BY <1>4, WorkflowStepOK
<1>5. ASSUME NEW i, Age(i)
      PROVE  NamesResolve' /\ SessionsOK' /\ Simulates
  BY <1>5, AgeOK DEF Simulates, Age, adoptionVars
<1>6. CASE UNCHANGED workflowVars
  BY <1>6 DEF workflowVars, adoptionVars, NamesResolve, WorkflowTypeOK, SessionsOK, Resolvable,
              Resolves, Simulates
<1>7. TRUE \in BOOLEAN
  OBVIOUS
<1>8. CASE WorkflowNext
  BY <1>1, <1>2, <1>3, <1>4, <1>5, <1>7, <1>8 DEF WorkflowNext, ConfigMode
<1> QED BY <1>6, <1>8

\* Whatever commands overlap and wherever they end, every revision that the
\* config, a history row or a command under way names resolves at a start, unless
\* init is run over a config that exists (upsert before append_history before
\* rewrite_operator_strategy_revision).
THEOREM NamesAlwaysResolve ==
    ~InitOverwrites => (WorkflowSpec => []NamesResolve)
<1>1. ASSUME ~InitOverwrites PROVE WorkflowSpec => []NamesResolve
  <2>1. WorkflowInit => NamesResolve /\ SessionsOK
    BY InitNamesResolve
  <2>2. NamesResolve /\ SessionsOK /\ [WorkflowNext]_workflowVars => (NamesResolve /\ SessionsOK)'
    BY <1>1, WorkflowNextOK
  <2> QED BY <2>1, <2>2, PTL DEF WorkflowSpec
<1> QED BY <1>1

\* The commands implement StrategyControl: the config names only revisions that
\* resolve_startup_strategy_revision resolves, what resolves goes on resolving, and
\* the progress row only gets revisions that resolve.  The one command that breaks
\* it is init over a config that exists (merge_existing_control_plane).
THEOREM WorkflowRefinesControl ==
    ~InitOverwrites => (WorkflowSpec => RefinesControl)
<1>1. ASSUME ~InitOverwrites PROVE WorkflowSpec => RefinesControl
  <2>1. WorkflowInit => NamesResolve /\ SessionsOK /\ Control!ControlInit
    BY InitNamesResolve
  <2>2. NamesResolve /\ SessionsOK /\ [WorkflowNext]_workflowVars
        => (NamesResolve /\ SessionsOK)' /\ [Control!ControlNext]_(Control!controlVars)
    BY <1>1, WorkflowNextOK, SimulatesControl
  <2> QED BY <2>1, <2>2, PTL DEF WorkflowSpec, RefinesControl, Control!ControlSpec
<1> QED BY <1>1

---------------------------------------------------------------------------
(***************************************************************************)
(* Commands that follow each other                                         *)
(*                                                                         *)
(* Until two commands overlap at most one process is not at rest, and what *)
(* it has found in the file and the database still holds.                  *)
(***************************************************************************)

Exists(f) == f.form # "missing" /\ f.mode # None

\* A config that a runtime may be started with.
Ready(f, resolvable) ==
    \/ f.mode = "paper"
    \/ f.form \in {"canonical", "target_source"} /\ f.rev \in resolvable /\ RolloutCovers(f)

\* The i-th row is the last one of a revision that replaced another revision.
LastDistinct(h, r, i) ==
    /\ i \in DOMAIN h /\ h[i].rev = r /\ h[i].prev \notin {None, r}
    /\ \A j \in DOMAIN h : h[j].rev = r /\ h[j].prev \notin {None, r} => j <= i

\* The history leads from one revision to the one it replaced.
LeadsBack(h, from, to) == \E i \in DOMAIN h : LastDistinct(h, from, i) /\ h[i].prev = to

\* The parts of a command that a stage belongs to, and what it needs of the file.
StageOK(c, f) ==
    /\ c.stage = "candidate" => c.cmd \in {"discover", "advise", "migrate"}
    /\ c.stage = "adoptable" => c.cmd \in {"discover", "migrate"}
    /\ c.stage = "provenance" => c.cmd \in {"adopt", "migrate"}
    /\ c.stage = "history" => c.cmd \in {"adopt", "rollback"}
    /\ c.stage = "read" => c.cmd \in {"adopt", "rollback", "migrate", "rollout"}
    /\ c.stage = "write" => c.cmd \in {"adopt", "rollback", "migrate", "rollout", "init"} /\ Exists(c.text)
    /\ c.cmd = "rollout" => c.stage \in {"read", "write"}
    /\ c.cmd = "init" => c.stage = "write" /\ c.then = <<>>
    /\ c.cmd \in {"apply", "bootstrap"} => c.then = <<>>
    /\ c.stage \in {"scenario", "status", "gate"} => c.cmd = "apply"
    /\ c.stage \in {"wizard", "detect", "start"} => c.cmd = "bootstrap"
    /\ c.then # <<>> /\ c.then[2] \in {"scenario", "status"} => c.then[1] = "apply"
    /\ c.then # <<>> /\ c.then[2] = "detect" => c.then[1] = "bootstrap"
    /\ c.cmd = "init" \/ c.stage = "wizard" => f.form = "missing"
    /\ \/ c.stage \in {"idle", "wizard"} \/ c.cmd = "init"
       \/ c.cmd = "apply" /\ c.stage \in {"migrate", "scenario"}
       \/ Exists(f)

\* What a start of the runtime relies on.
StartOK(c, f, resolvable) ==
    /\ c.cmd = "apply" /\ c.stage \in {"doctor", "gate", "run"} => Ready(f, resolvable)
    /\ c.cmd = "bootstrap" /\ c.stage \in {"start", "run"} => Ready(f, resolvable)
    /\ c.cmd \in {"apply", "bootstrap"} /\ c.stage \in {"resolve", "progress"} => Ready(c.text, resolvable)
    /\ c.cmd = "bootstrap" /\ c.stage \in {"doctor", "adopt"} => c.mode = f.mode /\ c.mode \in {"paper", "smoke"}
    /\ c.then # <<>> /\ c.then[2] \in {"doctor", "adopt"} =>
           c.then[1] = "bootstrap" /\ c.mode = f.mode /\ c.mode \in {"paper", "smoke"}
    /\ c.then # <<>> /\ c.then[2] = "start" => c.then[1] = "bootstrap" /\ c.cmd = "rollout"
    /\ c.cmd = "rollout" /\ c.stage = "read" =>
           f.form \in {"canonical", "target_source"} /\ c.rev = f.rev /\ f.rev \in resolvable
    /\ c.cmd = "rollout" /\ c.stage = "write" =>
           c.text.form = f.form /\ c.text.rev = f.rev /\ Ready(c.text, resolvable)
    /\ c.cmd # "init" /\ c.stage = "write" => c.text.mode = f.mode

\* What a rollback relies on.
BackOK(c, f, b, h, resolvable) ==
    /\ c.cmd \in {"adopt", "rollback", "migrate"} => c.prev \in resolvable \cup {None}
    /\ c.cmd \in {"adopt", "rollback"} /\ b # None => c.prev = f.rev
    /\ /\ c.cmd \in {"adopt", "rollback"} /\ c.stage \in {"read", "write"}
       /\ c.prev \notin {None, c.rev}
       => LeadsBack(h, c.rev, c.prev)
    /\ c.cmd \in {"adopt", "rollback", "migrate"} /\ c.stage = "write" =>
           c.text.form = "canonical" /\ c.text.rev = c.rev

\* What the file and the history have in common.
FileOK(f, b, h, resolvable) ==
    /\ f.form # "missing" => f.mode # None
    /\ b # None => f.form = "canonical" /\ b \in resolvable /\ LeadsBack(h, f.rev, b)

OneAtATime == \A o, q \in Operator : ~Idle(o) /\ ~Idle(q) => o = q

SequentialInv ==
    ~overlapped =>
        /\ OneAtATime
        /\ FileOK(file, before, history, Resolvable)
        /\ \A o \in Operator : /\ StageOK(cli[o], file)
                               /\ StartOK(cli[o], file, Resolvable)
                               /\ BackOK(cli[o], file, before, history, Resolvable)

\* Every process but one is at rest.
Alone(o) == \A q \in Operator \ {o} : Idle(q)

LEMMA AtRestOK ==
    ASSUME NEW f, NEW b, NEW h, NEW R
    PROVE  StageOK(NoCli, f) /\ StartOK(NoCli, f, R) /\ BackOK(NoCli, f, b, h, R)
BY DEF StageOK, StartOK, BackOK, NoCli

\* The one process that runs moves on.
LEMMA AloneMoves ==
    ASSUME NamesResolve, NEW o \in Operator, Alone(o), NEW d, cli' = [cli EXCEPT ![o] = d],
           FileOK(file', before', history', Resolvable'), StageOK(d, file'),
           StartOK(d, file', Resolvable'), BackOK(d, file', before', history', Resolvable')
    PROVE  SequentialInv'
<1>1. cli'[o] = d /\ \A q \in Operator \ {o} : cli'[q] = NoCli
  BY DEF NamesResolve, WorkflowTypeOK, Alone, Idle
<1>2. OneAtATime'
  BY <1>1 DEF OneAtATime, Idle
<1>3. ASSUME NEW q \in Operator
      PROVE  /\ StageOK(cli'[q], file') /\ StartOK(cli'[q], file', Resolvable')
             /\ BackOK(cli'[q], file', before', history', Resolvable')
  BY <1>1, AtRestOK
<1> QED BY <1>2, <1>3 DEF SequentialInv

LEMMA FileGrows ==
    ASSUME NEW f, NEW b, NEW h, NEW R, NEW S, R \subseteq S, FileOK(f, b, h, R)
    PROVE  FileOK(f, b, h, S)
BY DEF FileOK

LEMMA StartGrows ==
    ASSUME NEW c, NEW f, NEW R, NEW S, R \subseteq S, StartOK(c, f, R)
    PROVE  StartOK(c, f, S)
<1>1. \A g : Ready(g, R) => Ready(g, S)
  BY DEF Ready
<1> QED BY <1>1 DEF StartOK

LEMMA BackGrows ==
    ASSUME NEW c, NEW f, NEW b, NEW h, NEW R, NEW S, R \subseteq S, BackOK(c, f, b, h, R)
    PROVE  BackOK(c, f, b, h, S)
BY DEF BackOK

\* What holds of the process that is about to move.
LEMMA AboutToMove ==
    ASSUME NamesResolve, SequentialInv, ~overlapped, NEW o \in Operator, ~Idle(o)
    PROVE  /\ Alone(o) /\ FileOK(file, before, history, Resolvable)
           /\ cli[o] \in Command /\ CommandOK(cli[o], Resolvable)
           /\ StageOK(cli[o], file) /\ StartOK(cli[o], file, Resolvable)
           /\ BackOK(cli[o], file, before, history, Resolvable)
BY DEF SequentialInv, OneAtATime, Alone, NamesResolve, WorkflowTypeOK

LEMMA StageNotIdle ==
    ASSUME NEW o \in Operator, cli[o].stage # "idle"
    PROVE  ~Idle(o)
BY DEF Idle, NoCli

\* A process moves on and leaves the file and the history alone.
LEMMA AloneSteps ==
    ASSUME NamesResolve, SequentialInv, ~overlapped, NEW o \in Operator, Alone(o), NEW d,
           cli' = [cli EXCEPT ![o] = d],
           UNCHANGED <<file, before, history>>, Resolvable \subseteq Resolvable',
           StageOK(d, file), StartOK(d, file, Resolvable),
           BackOK(d, file, before, history, Resolvable)
    PROVE  SequentialInv'
<1>1. FileOK(file', before', history', Resolvable')
  BY FileGrows DEF SequentialInv
<1>2. StartOK(d, file', Resolvable') /\ BackOK(d, file', before', history', Resolvable')
  BY StartGrows, BackGrows
<1> QED BY <1>1, <1>2, AloneMoves

\* A command that begins while nothing overlaps is alone.
LEMMA BeginsAlone ==
    ASSUME NamesResolve, SequentialInv, NEW o \in Operator, NEW d, Begin(o, d), ~overlapped',
           UNCHANGED <<file, before, history>>, Resolvable \subseteq Resolvable',
           ~overlapped => /\ StageOK(d, file) /\ StartOK(d, file, Resolvable)
                          /\ BackOK(d, file, before, history, Resolvable)
    PROVE  SequentialInv'
<1>1. ~overlapped /\ Alone(o) /\ cli' = [cli EXCEPT ![o] = d]
  BY DEF Begin, Alone
<1> QED BY <1>1, AloneSteps

\* What a command finds in the file when it begins.
LEMMA FoundInFile ==
    ASSUME NamesResolve, FileOK(file, before, history, Resolvable), file.form # "missing"
    PROVE  /\ Exists(file)
           /\ ConfiguredRevision(file) \in Resolvable \cup {None}
           /\ before # None => ConfiguredRevision(file) = file.rev /\ file.form = "canonical"
BY DEF NamesResolve, ConfigOK, FileOK, Exists, ConfiguredRevision

LEMMA SeqStartDiscover ==
    ASSUME NamesResolve, SequentialInv, ~overlapped', NEW o \in Operator, NEW r \in Discovered,
           NEW adoptable \in BOOLEAN, StartDiscover(o, r, adoptable)
    PROVE  SequentialInv'
<1> DEFINE d == [NoCli EXCEPT !.cmd = IF adoptable THEN "discover" ELSE "advise",
                              !.stage = "candidate", !.rev = r]
<1>1. ASSUME ~overlapped
      PROVE  StageOK(d, file) /\ StartOK(d, file, Resolvable) /\ BackOK(d, file, before, history, Resolvable)
  <2>1. Exists(file)
    BY <1>1, FoundInFile DEF SequentialInv, StartDiscover, ConfigExists
  <2> QED BY <2>1 DEF StageOK, StartOK, BackOK, NoCli
<1> HIDE DEF d
<1> QED BY <1>1, BeginsAlone, StartDiscoverOK DEF StartDiscover, d

LEMMA SeqStartAdopt ==
    ASSUME NamesResolve, SequentialInv, ~overlapped', NEW o \in Operator, NEW r \in Revision,
           NEW byAdoptable \in BOOLEAN, StartAdopt(o, r, byAdoptable)
    PROVE  SequentialInv'
<1> DEFINE d == [NoCli EXCEPT !.cmd = "adopt", !.stage = "provenance", !.rev = r,
                              !.prev = ConfiguredRevision(file)]
<1>1. ASSUME ~overlapped
      PROVE  StageOK(d, file) /\ StartOK(d, file, Resolvable) /\ BackOK(d, file, before, history, Resolvable)
  <2>1. /\ Exists(file) /\ ConfiguredRevision(file) \in Resolvable \cup {None}
        /\ before # None => ConfiguredRevision(file) = file.rev
    BY <1>1, FoundInFile DEF SequentialInv, StartAdopt, ConfigExists
  <2> QED BY <2>1 DEF StageOK, StartOK, BackOK, NoCli
<1> HIDE DEF d
<1> QED BY <1>1, BeginsAlone, StartAdoptOK DEF StartAdopt, d

LEMMA SeqStartMigration ==
    ASSUME NamesResolve, SequentialInv, ~overlapped', NEW o \in Operator, StartMigration(o)
    PROVE  SequentialInv'
<1> DEFINE d == [NoCli EXCEPT !.cmd = "migrate", !.stage = "candidate", !.rev = MigratesTo(file),
                              !.prev = ConfiguredRevision(file)]
<1>1. ASSUME ~overlapped
      PROVE  StageOK(d, file) /\ StartOK(d, file, Resolvable) /\ BackOK(d, file, before, history, Resolvable)
  <2>1. file.form # "missing"
    BY DEF StartMigration, MigratesTo
  <2>2. Exists(file) /\ ConfiguredRevision(file) \in Resolvable \cup {None}
    BY <1>1, <2>1, FoundInFile DEF SequentialInv
  <2> QED BY <2>2 DEF StageOK, StartOK, BackOK, NoCli
<1> HIDE DEF d
<1> QED BY <1>1, BeginsAlone, StartMigrationOK DEF StartMigration, d

LEMMA SeqStartRollback ==
    ASSUME NamesResolve, SequentialInv, ~overlapped', NEW o \in Operator,
           NEW to \in Revision \cup {None}, StartRollback(o, to)
    PROVE  SequentialInv'
<1> DEFINE dest == IF to = None THEN PreviousDistinctRevision(RollbackOrigin(file)) ELSE to
           d == [NoCli EXCEPT !.cmd = "rollback", !.stage = "history", !.rev = dest,
                              !.prev = RollbackOrigin(file)]
<1>1. ASSUME ~overlapped
      PROVE  StageOK(d, file) /\ StartOK(d, file, Resolvable) /\ BackOK(d, file, before, history, Resolvable)
  <2>1. file.form # "missing"
    BY DEF StartRollback, RollbackSelects, RollbackOrigin, ConfiguredRevision
  <2>2. /\ Exists(file) /\ ConfiguredRevision(file) \in Resolvable \cup {None}
        /\ before # None => ConfiguredRevision(file) = file.rev /\ file.form = "canonical"
    BY <1>1, <2>1, FoundInFile DEF SequentialInv
  <2>3. RollbackOrigin(file) \in Resolvable \cup {None}
    <3>1. CASE file.form = "explicit"
      <4>1. RowsFor(ExplicitRevision) # {}
        BY <3>1 DEF StartRollback, RollbackSelects
      <4>2. ExplicitRevision \in Resolvable
        BY <4>1 DEF RowsFor, NamesResolve
      <4> QED BY <3>1, <4>2 DEF RollbackOrigin
    <3>2. CASE file.form # "explicit"
      BY <2>2, <3>2 DEF RollbackOrigin
    <3> QED BY <3>1, <3>2
  <2>4. before # None => RollbackOrigin(file) = file.rev
    BY <2>2 DEF RollbackOrigin
  <2> HIDE DEF dest
  <2> QED BY <2>2, <2>3, <2>4 DEF StageOK, StartOK, BackOK, NoCli
<1>2. Begin(o, d)
  BY DEF StartRollback
<1> HIDE DEF d
<1> QED BY <1>1, <1>2, BeginsAlone, StartRollbackOK DEF StartRollback

\* A fresh config is written where there is none.
LEMMA SeqStartInit ==
    ASSUME NamesResolve, SequentialInv, ~overlapped', ~InitOverwrites, NEW o \in Operator,
           NEW mode \in ConfigMode, NEW preserve \in BOOLEAN, StartInit(o, mode, preserve)
    PROVE  SequentialInv'
<1> DEFINE d == [NoCli EXCEPT !.cmd = "init", !.stage = "write", !.text = FreshConfig(mode)]
<1>1. ~preserve /\ file.form = "missing"
  BY DEF StartInit, ConfigExists
<1>2. mode # None
  BY AdoptionAssumption
<1>3. Exists(FreshConfig(mode))
  BY <1>2 DEF Exists, FreshConfig
<1>4. StageOK(d, file) /\ StartOK(d, file, Resolvable) /\ BackOK(d, file, before, history, Resolvable)
  BY <1>1, <1>3 DEF StageOK, StartOK, BackOK, NoCli
<1>5. Begin(o, d)
  BY <1>1 DEF StartInit
<1> HIDE DEF d
<1> QED BY <1>4, <1>5, BeginsAlone, StartInitOK DEF StartInit, databaseVars

LEMMA SeqStartOthers ==
    ASSUME NamesResolve, SequentialInv, ~overlapped', NEW o \in Operator, NEW start \in BOOLEAN,
           StartApply(o, start) \/ StartBootstrap(o, start) \/ StartDoctor(o) \/ StartRun(o)
    PROVE  SequentialInv'
<1>1. Resolvable \subseteq Resolvable' /\ UNCHANGED <<file, before, history>>
  BY StartOthersOK DEF StartApply, StartBootstrap, StartDoctor, StartRun, databaseVars
<1>2. ~overlapped /\ file.form # "missing" => Exists(file)
  BY FoundInFile DEF SequentialInv
<1>3. CASE StartApply(o, start)
  <2> DEFINE d == [NoCli EXCEPT !.cmd = "apply", !.stage = "migrate", !.start = start]
  <2>1. StageOK(d, file) /\ StartOK(d, file, Resolvable) /\ BackOK(d, file, before, history, Resolvable)
    BY DEF StageOK, StartOK, BackOK, NoCli
  <2>2. Begin(o, d)
    BY <1>3 DEF StartApply
  <2> HIDE DEF d
  <2> QED BY <1>1, <2>1, <2>2, BeginsAlone
<1>4. CASE StartBootstrap(o, start)
  <2> DEFINE d == [NoCli EXCEPT !.cmd = "bootstrap", !.stage = IF ConfigExists THEN "migrate" ELSE "wizard",
                                !.start = start]
  <2>1. ~overlapped => StageOK(d, file)
    BY <1>2 DEF StageOK, NoCli, ConfigExists
  <2>2. StartOK(d, file, Resolvable) /\ BackOK(d, file, before, history, Resolvable)
    BY DEF StartOK, BackOK, NoCli
  <2>3. Begin(o, d)
    BY <1>4 DEF StartBootstrap
  <2> HIDE DEF d
  <2> QED BY <1>1, <2>1, <2>2, <2>3, BeginsAlone
<1>5. CASE StartDoctor(o)
  <2> DEFINE d == [NoCli EXCEPT !.cmd = "doctor", !.stage = "doctor"]
  <2>1. ~overlapped => StageOK(d, file)
    BY <1>2, <1>5 DEF StageOK, NoCli, ConfigExists, StartDoctor
  <2>2. StartOK(d, file, Resolvable) /\ BackOK(d, file, before, history, Resolvable)
    BY DEF StartOK, BackOK, NoCli
  <2>3. Begin(o, d)
    BY <1>5 DEF StartDoctor
  <2> HIDE DEF d
  <2> QED BY <1>1, <2>1, <2>2, <2>3, BeginsAlone
<1>6. CASE StartRun(o)
  <2> DEFINE d == [NoCli EXCEPT !.cmd = "run", !.stage = "run"]
  <2>1. ~overlapped => StageOK(d, file)
    BY <1>2, <1>6 DEF StageOK, NoCli, ConfigExists, StartRun
  <2>2. StartOK(d, file, Resolvable) /\ BackOK(d, file, before, history, Resolvable)
    BY DEF StartOK, BackOK, NoCli
  <2>3. Begin(o, d)
    BY <1>6 DEF StartRun
  <2> HIDE DEF d
  <2> QED BY <1>1, <2>1, <2>2, <2>3, BeginsAlone
<1> QED BY <1>3, <1>4, <1>5, <1>6

\* The running process, with what it relies on.
Relies(o) ==
    /\ Alone(o) /\ FileOK(file, before, history, Resolvable)
    /\ cli[o] \in Command /\ CommandOK(cli[o], Resolvable)
    /\ StageOK(cli[o], file) /\ StartOK(cli[o], file, Resolvable)
    /\ BackOK(cli[o], file, before, history, Resolvable)

LEMMA RunningRelies ==
    ASSUME NamesResolve, SequentialInv, ~overlapped, NEW o \in Operator, cli[o].stage # "idle"
    PROVE  Relies(o)
BY AboutToMove, StageNotIdle DEF Relies

LEMMA SeqEnd ==
    ASSUME NamesResolve, SequentialInv, ~overlapped, NEW o \in Operator, ~Idle(o), Exit(o),
           UNCHANGED <<file, before, history>>, Resolvable \subseteq Resolvable'
    PROVE  SequentialInv'
BY AboutToMove, AloneSteps, AtRestOK DEF Exit

LEMMA SeqCrash ==
    ASSUME NamesResolve, SequentialInv, ~overlapped', NEW o \in Operator, Crash(o)
    PROVE  SequentialInv'
<1>1. Exit(o) /\ ~overlapped /\ UNCHANGED <<file, before, history>>
  BY DEF Crash, Exit, ghostVars
<1>2. Resolvable \subseteq Resolvable'
  BY CrashOK
<1> QED BY <1>1, <1>2, SeqEnd DEF Crash

LEMMA SeqUpsertCandidate ==
    ASSUME NamesResolve, SequentialInv, ~overlapped', NEW o \in Operator, UpsertCandidate(o)
    PROVE  SequentialInv'
<1> DEFINE c == cli[o]
           d == [c EXCEPT !.stage = IF c.cmd = "advise" THEN "refresh" ELSE "adoptable"]
<1>1. ~overlapped /\ c.stage = "candidate" /\ cli' = [cli EXCEPT ![o] = d]
  BY DEF UpsertCandidate, AtStage, Step, ghostVars
<1>2. Relies(o)
  BY <1>1, RunningRelies
<1>3. c \in Command /\ StageOK(c, file) /\ StartOK(c, file, Resolvable) /\ BackOK(c, file, before, history, Resolvable)
  BY <1>2 DEF Relies
<1> HIDE DEF c
<1>4. StageOK(d, file) /\ StartOK(d, file, Resolvable) /\ BackOK(d, file, before, history, Resolvable)
  BY <1>1, <1>3 DEF StageOK, StartOK, BackOK, Command
<1> HIDE DEF d
<1> QED BY <1>1, <1>2, <1>4, AloneSteps, UpsertCandidateOK DEF Relies, UpsertCandidate, ghostVars

LEMMA SeqUpsertAdoptable ==
    ASSUME NamesResolve, SequentialInv, ~overlapped', NEW o \in Operator, UpsertAdoptable(o)
    PROVE  SequentialInv'
<1> DEFINE c == cli[o]
           d == [c EXCEPT !.stage = IF c.cmd = "migrate" THEN "provenance" ELSE "refresh"]
<1>1. ~overlapped /\ c.stage = "adoptable" /\ cli' = [cli EXCEPT ![o] = d]
  BY DEF UpsertAdoptable, AtStage, Step, ghostVars
<1>2. Relies(o)
  BY <1>1, RunningRelies
<1>3. c \in Command /\ StageOK(c, file) /\ StartOK(c, file, Resolvable) /\ BackOK(c, file, before, history, Resolvable)
  BY <1>2 DEF Relies
<1> HIDE DEF c
<1>4. StageOK(d, file) /\ StartOK(d, file, Resolvable) /\ BackOK(d, file, before, history, Resolvable)
  BY <1>1, <1>3 DEF StageOK, StartOK, BackOK, Command
<1> HIDE DEF d
<1> QED BY <1>1, <1>2, <1>4, AloneSteps, UpsertAdoptableOK DEF Relies, UpsertAdoptable, ghostVars

LEMMA SeqEnsureCanonicalProvenance ==
    ASSUME NamesResolve, SequentialInv, ~overlapped', NEW o \in Operator, EnsureCanonicalProvenance(o)
    PROVE  SequentialInv'
<1> DEFINE c == cli[o]
           d == [c EXCEPT !.stage = IF c.cmd = "migrate" THEN "read" ELSE "history"]
<1>1. ~overlapped /\ c.stage = "provenance" /\ cli' = [cli EXCEPT ![o] = d]
  BY DEF EnsureCanonicalProvenance, AtStage, Step, ghostVars
<1>2. Relies(o)
  BY <1>1, RunningRelies
<1>3. c \in Command /\ StageOK(c, file) /\ StartOK(c, file, Resolvable) /\ BackOK(c, file, before, history, Resolvable)
  BY <1>2 DEF Relies
<1> HIDE DEF c
<1>4. StageOK(d, file) /\ StartOK(d, file, Resolvable) /\ BackOK(d, file, before, history, Resolvable)
  BY <1>1, <1>3 DEF StageOK, StartOK, BackOK, Command
<1> HIDE DEF d
<1> QED BY <1>1, <1>2, <1>4, AloneSteps, EnsureCanonicalProvenanceOK
    DEF Relies, EnsureCanonicalProvenance, ghostVars

\* A part of a command ends and the command goes on.
LEMMA ReturnedOK ==
    ASSUME NEW c \in Command, NEW R, CommandOK(c, R), NEW f, Exists(f), NEW b, NEW h,
           c.then # <<>> /\ c.then[2] \in {"doctor", "adopt"} =>
               c.then[1] = "bootstrap" /\ c.mode = f.mode /\ c.mode \in {"paper", "smoke"},
           c.then # <<>> /\ c.then[2] = "start" => c.then[1] = "bootstrap" /\ Ready(f, R),
           c.then # <<>> /\ c.then[2] \in {"scenario", "status"} => c.then[1] = "apply",
           c.then # <<>> /\ c.then[2] = "detect" => c.then[1] = "bootstrap"
    PROVE  /\ StageOK(Returned(c), f) /\ StartOK(Returned(c), f, R)
           /\ BackOK(Returned(c), f, b, h, R)
<1>1. CASE c.then = <<>>
  BY <1>1, AtRestOK DEF Returned
<1>2. CASE c.then # <<>>
  <2> DEFINE d == Returned(c)
  <2>1. d = [NoCli EXCEPT !.cmd = c.then[1], !.stage = c.then[2], !.start = c.start, !.mode = c.mode]
    BY <1>2 DEF Returned
  <2>2. /\ d.cmd = c.then[1] /\ d.stage = c.then[2] /\ d.mode = c.mode /\ d.then = <<>>
        /\ d.cmd \in {"apply", "bootstrap"} /\ d.stage \in ReturnStage
    BY <1>2, <2>1 DEF NoCli, CommandOK
  <2> HIDE DEF d
  <2>3. StageOK(d, f)
    BY <1>2, <2>2 DEF StageOK, ReturnStage
  <2>4. StartOK(d, f, R)
    BY <1>2, <2>2 DEF StartOK, ReturnStage
  <2>5. BackOK(d, f, b, h, R)
    BY <2>2 DEF BackOK, ReturnStage
  <2> QED BY <2>3, <2>4, <2>5 DEF d
<1> QED BY <1>1, <1>2

LEMMA SeqAppendDiscoverRefresh ==
    ASSUME NamesResolve, SequentialInv, ~overlapped', NEW o \in Operator, AppendDiscoverRefresh(o)
    PROVE  SequentialInv'
<1> DEFINE c == cli[o]
<1>1. ~overlapped /\ c.stage = "refresh" /\ UNCHANGED <<file, before, history>>
  BY DEF AppendDiscoverRefresh, AtStage, ghostVars
<1>2. Relies(o)
  BY <1>1, RunningRelies
<1>3. Exists(file)
  BY <1>1, <1>2 DEF Relies, StageOK
<1>4. /\ StageOK(Returned(c), file) /\ StartOK(Returned(c), file, Resolvable)
      /\ BackOK(Returned(c), file, before, history, Resolvable)
  BY <1>1, <1>2, <1>3, ReturnedOK DEF Relies, StageOK, StartOK
<1> QED BY <1>1, <1>2, <1>4, AloneSteps, ReturnOK, AppendDiscoverRefreshOK DEF Relies, AppendDiscoverRefresh

\* A row of another revision, or one that replaced none, leaves the way back.
LEMMA LeadsBackKept ==
    ASSUME NEW h \in Seq(HistoryRow), NEW row \in HistoryRow, NEW r, NEW to, LeadsBack(h, r, to),
           row.rev = r => row.prev \in {None, r}
    PROVE  LeadsBack(Append(h, row), r, to)
<1>1. PICK i \in DOMAIN h : LastDistinct(h, r, i) /\ h[i].prev = to
  BY DEF LeadsBack
<1> DEFINE g == Append(h, row)
<1>2. /\ DOMAIN g = 1 .. Len(h) + 1 /\ DOMAIN h = 1 .. Len(h) /\ Len(h) \in Nat
      /\ \A j \in DOMAIN h : g[j] = h[j] /\ j # Len(h) + 1
      /\ g[Len(h) + 1] = row
  OBVIOUS
<1> HIDE DEF g
<1>3. \A j \in DOMAIN g : j \in DOMAIN h \/ j = Len(h) + 1
  BY <1>2
<1>4. LastDistinct(g, r, i) /\ g[i].prev = to /\ i \in DOMAIN g
  BY <1>1, <1>2, <1>3 DEF LastDistinct
<1> QED BY <1>4 DEF LeadsBack, g

\* A row that replaced another revision is the way back to it.
LEMMA LeadsBackNew ==
    ASSUME NEW h \in Seq(HistoryRow), NEW row \in HistoryRow, row.prev \notin {None, row.rev}
    PROVE  LeadsBack(Append(h, row), row.rev, row.prev)
<1> DEFINE g == Append(h, row)
           n == Len(h) + 1
<1>1. DOMAIN g = 1 .. n /\ n \in Nat \ {0} /\ g[n] = row
  OBVIOUS
<1> HIDE DEF g, n
<1>2. LastDistinct(g, row.rev, n) /\ n \in DOMAIN g
  BY <1>1 DEF LastDistinct
<1> QED BY <1>1, <1>2 DEF LeadsBack, g

LEMMA SeqAppendHistory ==
    ASSUME NamesResolve, SequentialInv, ~overlapped', NEW o \in Operator, AppendHistory(o)
    PROVE  SequentialInv'
<1> DEFINE c == cli[o]
           row == [kind |-> IF c.cmd = "rollback" THEN "rollback" ELSE "adopt",
                   rev |-> c.rev, prev |-> c.prev]
<1>1. /\ ~overlapped /\ c.stage = "history" /\ UNCHANGED <<file, before>>
      /\ history' = Append(history, row)
  BY DEF AppendHistory, AtStage, ghostVars
<1>2. Relies(o)
  BY <1>1, RunningRelies
<1>3. /\ c \in Command /\ CommandOK(c, Resolvable) /\ StageOK(c, file) /\ StartOK(c, file, Resolvable)
      /\ BackOK(c, file, before, history, Resolvable)
  BY <1>2 DEF Relies
<1>4. c.cmd \in {"adopt", "rollback"} /\ c.rev \in Revision /\ Exists(file)
  BY <1>1, <1>3 DEF StageOK, CommandOK, Resolvable
<1>5. row \in HistoryRow /\ history \in Seq(HistoryRow) /\ row.rev = c.rev /\ row.prev = c.prev
  BY <1>3, <1>4 DEF HistoryRow, Command, NamesResolve, WorkflowTypeOK
<1>6. UNCHANGED Resolvable
  BY AppendHistoryOK
<1> HIDE DEF c, row
<1>7. FileOK(file, before, history', Resolvable)
  <2>1. FileOK(file, before, history, Resolvable)
    BY <1>2 DEF Relies
  <2>2. before # None /\ row.rev = file.rev => row.prev \in {None, file.rev}
    BY <1>3, <1>4, <1>5 DEF BackOK
  <2>3. before # None => LeadsBack(history', file.rev, before)
    BY <1>1, <1>5, <2>1, <2>2, LeadsBackKept DEF FileOK
  <2> QED BY <2>1, <2>3 DEF FileOK
<1>8. CASE Return(o)
  <2>1. /\ StageOK(Returned(c), file) /\ StartOK(Returned(c), file, Resolvable)
        /\ BackOK(Returned(c), file, before, history', Resolvable)
    BY <1>1, <1>3, <1>4, ReturnedOK DEF StageOK, StartOK
  <2>2. cli' = [cli EXCEPT ![o] = Returned(c)]
    BY <1>8, ReturnOK DEF c
  <2> QED BY <1>1, <1>2, <1>6, <1>7, <2>1, <2>2, AloneMoves DEF Relies
<1>9. CASE Step(o, "read")
  <2> DEFINE d == [c EXCEPT !.stage = "read"]
  <2>1. cli' = [cli EXCEPT ![o] = d]
    BY <1>9 DEF Step, c
  <2>2. StageOK(d, file) /\ StartOK(d, file, Resolvable)
    BY <1>1, <1>3, <1>4 DEF StageOK, StartOK, Command
  <2>3. c.prev \notin {None, c.rev} => LeadsBack(history', c.rev, c.prev)
    BY <1>1, <1>5, LeadsBackNew
  <2>4. BackOK(d, file, before, history', Resolvable)
    BY <1>1, <1>3, <1>4, <2>3 DEF BackOK, Command
  <2> HIDE DEF d
  <2> QED BY <1>1, <1>2, <1>6, <1>7, <2>1, <2>2, <2>4, AloneMoves DEF Relies
<1> QED BY <1>8, <1>9 DEF AppendHistory

LEMMA SeqReadConfig ==
    ASSUME NamesResolve, SequentialInv, ~overlapped', NEW o \in Operator, ReadConfig(o)
    PROVE  SequentialInv'
<1> DEFINE c == cli[o]
           text == IF c.cmd = "rollout" THEN [file EXCEPT !.rollout = FamiliesOf[c.rev]]
                   ELSE [file EXCEPT !.form = "canonical", !.rev = c.rev]
           d == [c EXCEPT !.stage = "write", !.text = text]
<1>1. ~overlapped /\ c.stage = "read" /\ cli' = [cli EXCEPT ![o] = d] /\ UNCHANGED <<file, before, history>>
  BY DEF ReadConfig, AtStage, ghostVars
<1>2. Relies(o)
  BY <1>1, RunningRelies
<1>3. /\ c \in Command /\ StageOK(c, file) /\ StartOK(c, file, Resolvable)
      /\ BackOK(c, file, before, history, Resolvable) /\ file \in ConfigFile
  BY <1>2 DEF Relies, NamesResolve, WorkflowTypeOK
<1> HIDE DEF c
<1>4. Exists(file) /\ c.cmd \in {"adopt", "rollback", "migrate", "rollout"}
  BY <1>1, <1>3 DEF StageOK
<1>5. /\ text.mode = file.mode /\ Exists(text)
      /\ c.cmd # "rollout" => text.form = "canonical" /\ text.rev = c.rev
      /\ c.cmd = "rollout" => /\ text.form = file.form /\ text.rev = file.rev
                              /\ text.rollout = FamiliesOf[c.rev]
  BY <1>3, <1>4 DEF Exists, ConfigFile
<1> HIDE DEF text
<1>6. c.cmd = "rollout" => Ready(text, Resolvable)
  BY <1>1, <1>3, <1>5 DEF StartOK, Ready, RolloutCovers
<1>7. StageOK(d, file)
  BY <1>1, <1>3, <1>4, <1>5 DEF StageOK, Command
<1>8. StartOK(d, file, Resolvable)
  BY <1>1, <1>3, <1>4, <1>5, <1>6 DEF StartOK, Command
<1>9. BackOK(d, file, before, history, Resolvable)
  BY <1>1, <1>3, <1>4, <1>5 DEF BackOK, Command
<1> HIDE DEF d
<1> QED BY <1>1, <1>2, <1>7, <1>8, <1>9, AloneSteps, ReadConfigOK DEF Relies

LEMMA SeqWriteConfig ==
    ASSUME NamesResolve, SequentialInv, ~overlapped', NEW o \in Operator, WriteConfig(o)
    PROVE  SequentialInv'
<1> DEFINE c == cli[o]
<1>1. ~overlapped /\ c.stage = "write" /\ file' = c.text /\ UNCHANGED history
  BY DEF WriteConfig, AtStage
<1>2. Relies(o)
  BY <1>1, RunningRelies
<1>3. /\ c \in Command /\ CommandOK(c, Resolvable) /\ StageOK(c, file) /\ StartOK(c, file, Resolvable)
      /\ BackOK(c, file, before, history, Resolvable) /\ FileOK(file, before, history, Resolvable)
  BY <1>2 DEF Relies
<1>4. before' = CASE c.cmd = "migrate" -> None
                  [] c.cmd \in {"adopt", "rollback"} /\ c.prev # c.rev -> c.prev
                  [] OTHER -> before
  BY DEF WriteConfig
<1>5. UNCHANGED Resolvable
  BY WriteConfigOK
<1> HIDE DEF c
<1>6. c.cmd \in {"adopt", "rollback", "migrate", "rollout", "init"} /\ Exists(c.text)
  BY <1>1, <1>3 DEF StageOK
<1>7. FileOK(c.text, before', history, Resolvable)
  <2>1. CASE c.cmd = "migrate"
    BY <1>4, <1>6, <2>1 DEF FileOK, Exists
  <2>2. CASE c.cmd = "init"
    <3>1. before' = before
      BY <1>4, <2>2
    <3>2. before = None
      BY <1>3, <2>2 DEF StageOK, FileOK
    <3> QED BY <1>6, <3>1, <3>2 DEF FileOK, Exists
  <2>3. CASE c.cmd = "rollout"
    <3>1. before' = before
      BY <1>4, <2>3
    <3>2. c.text.form = file.form /\ c.text.rev = file.rev
      BY <1>1, <1>3, <2>3 DEF StartOK
    <3> QED BY <1>3, <1>6, <3>1, <3>2 DEF FileOK, Exists
  <2>4. CASE c.cmd \in {"adopt", "rollback"}
    <3>1. c.text.form = "canonical" /\ c.text.rev = c.rev
      BY <1>1, <1>3, <2>4 DEF BackOK
    <3>2. CASE c.prev # c.rev
      <4>1. before' = c.prev
        BY <1>4, <2>4, <3>2
      <4>2. c.prev # None => c.prev \in Resolvable /\ LeadsBack(history, c.rev, c.prev)
        BY <1>1, <1>3, <2>4, <3>2 DEF BackOK
      <4> QED BY <1>6, <3>1, <4>1, <4>2 DEF FileOK, Exists
    <3>3. CASE c.prev = c.rev
      <4>1. before' = before
        BY <1>4, <2>4, <3>3
      <4>2. before # None => c.rev = file.rev
        BY <1>3, <2>4, <3>3 DEF BackOK
      <4> QED BY <1>3, <1>6, <3>1, <4>1, <4>2 DEF FileOK, Exists
    <3> QED BY <3>2, <3>3
  <2> QED BY <1>6, <2>1, <2>2, <2>3, <2>4
<1>8. CASE Return(o)
  <2>1. c.cmd = "init" => c.then = <<>>
    BY <1>3 DEF StageOK
  <2>2. /\ StageOK(Returned(c), c.text) /\ StartOK(Returned(c), c.text, Resolvable)
        /\ BackOK(Returned(c), c.text, before', history, Resolvable)
    BY <1>1, <1>3, <1>6, <2>1, ReturnedOK DEF StageOK, StartOK
  <2>3. cli' = [cli EXCEPT ![o] = Returned(c)]
    BY <1>8, ReturnOK DEF c
  <2> QED BY <1>1, <1>2, <1>5, <1>7, <2>2, <2>3, AloneMoves DEF Relies
<1>9. CASE c.cmd = "migrate" /\ c.then = <<>>
           /\ cli' = [cli EXCEPT ![o].cmd = "adopt", ![o].stage = "provenance", ![o].text = None]
  <2> DEFINE d == [c EXCEPT !.cmd = "adopt", !.stage = "provenance", !.text = None]
  <2>1. cli' = [cli EXCEPT ![o] = d]
    BY <1>9 DEF c
  <2>2. before' = None
    BY <1>4, <1>9
  <2>3. StageOK(d, c.text)
    BY <1>3, <1>6 DEF StageOK, Command
  <2>4. StartOK(d, c.text, Resolvable)
    BY <1>3, <1>9 DEF StartOK, Command
  <2>5. BackOK(d, c.text, before', history, Resolvable)
    BY <1>3, <1>9, <2>2 DEF BackOK, Command
  <2> HIDE DEF d
  <2> QED BY <1>1, <1>2, <1>5, <1>7, <2>1, <2>3, <2>4, <2>5, AloneMoves DEF Relies
<1> QED BY <1>8, <1>9 DEF WriteConfig, c

\* A command goes on at another stage and leaves the file and the history alone.
LEMMA SeqStep ==
    ASSUME NamesResolve, SequentialInv, ~overlapped', NEW o \in Operator, cli[o].stage # "idle",
           NEW d, cli' = [cli EXCEPT ![o] = d], UNCHANGED <<databaseVars, file, ghostVars>>,
           Relies(o) => /\ StageOK(d, file) /\ StartOK(d, file, Resolvable)
                        /\ BackOK(d, file, before, history, Resolvable)
    PROVE  SequentialInv'
<1>1. ~overlapped /\ UNCHANGED <<file, before, history>> /\ Resolvable' = Resolvable
  BY DEF databaseVars, ghostVars, Resolvable, Resolves, artifactVars
<1>2. Relies(o)
  BY <1>1, RunningRelies
<1> QED BY <1>1, <1>2, AloneSteps DEF Relies

LEMMA SeqExit ==
    ASSUME NamesResolve, SequentialInv, ~overlapped', NEW o \in Operator, cli[o].stage # "idle", Exit(o),
           UNCHANGED <<databaseVars, file, ghostVars>>
    PROVE  SequentialInv'
BY SeqStep, AtRestOK DEF Exit

LEMMA SeqMigrateFirst ==
    ASSUME NamesResolve, SequentialInv, ~overlapped', NEW o \in Operator, MigrateFirst(o)
    PROVE  SequentialInv'
<1> DEFINE c == cli[o]
           back == IF c.cmd = "apply" THEN "scenario" ELSE "detect"
<1>1. c.stage = "migrate" /\ UNCHANGED <<databaseVars, file, ghostVars>>
  BY DEF MigrateFirst, AtStage
<1>2. Relies(o) => /\ c \in Command /\ c.cmd \in {"apply", "bootstrap"} /\ StageOK(c, file)
                   /\ StartOK(c, file, Resolvable) /\ BackOK(c, file, before, history, Resolvable)
                   /\ FileOK(file, before, history, Resolvable)
  BY <1>1 DEF Relies, CommandOK
<1> HIDE DEF c
<1>3. CASE Step(o, back)
  <2> DEFINE d == [c EXCEPT !.stage = back]
  <2>1. Relies(o) => /\ StageOK(d, file) /\ StartOK(d, file, Resolvable)
                     /\ BackOK(d, file, before, history, Resolvable)
    BY <1>1, <1>2 DEF StageOK, StartOK, BackOK, Command
  <2>2. cli' = [cli EXCEPT ![o] = d]
    BY <1>3 DEF Step, c
  <2> HIDE DEF d
  <2> QED BY <1>1, <2>1, <2>2, SeqStep DEF c
<1>4. CASE file.form = "explicit" /\ Call(o, "migrate", "candidate", MigratesTo(file), ConfiguredRevision(file), back)
  <2> DEFINE d == [c EXCEPT !.cmd = "migrate", !.stage = "candidate", !.rev = MigratesTo(file),
                            !.prev = ConfiguredRevision(file), !.then = <<c.cmd, back>>]
  <2>1. ConfiguredRevision(file) = None
    BY <1>4 DEF ConfiguredRevision
  <2>2. Relies(o) => /\ StageOK(d, file) /\ StartOK(d, file, Resolvable)
                     /\ BackOK(d, file, before, history, Resolvable)
    BY <1>1, <1>2, <1>4, <2>1 DEF StageOK, StartOK, BackOK, Command, FileOK, Exists
  <2>3. cli' = [cli EXCEPT ![o] = d]
    BY <1>4 DEF Call, c
  <2> HIDE DEF d
  <2> QED BY <1>1, <2>2, <2>3, SeqStep DEF c
<1> QED BY <1>3, <1>4 DEF MigrateFirst, c

LEMMA SeqApplyScenario ==
    ASSUME NamesResolve, SequentialInv, ~overlapped', NEW o \in Operator, ApplyScenario(o)
    PROVE  SequentialInv'
<1> DEFINE c == cli[o]
           d == [c EXCEPT !.stage = "status", !.mode = file.mode]
<1>1. c.stage = "scenario" /\ UNCHANGED <<databaseVars, file, ghostVars>>
  BY DEF ApplyScenario, AtStage
<1>2. CASE Exit(o)
  BY <1>1, <1>2, SeqExit
<1>3. CASE ConfigExists /\ cli' = [cli EXCEPT ![o].stage = "status", ![o].mode = file.mode]
  <2>1. cli' = [cli EXCEPT ![o] = d]
    BY <1>3
  <2>2. Relies(o) => /\ c \in Command /\ CommandOK(c, Resolvable) /\ StageOK(c, file) /\ Exists(file)
                     /\ StartOK(c, file, Resolvable) /\ BackOK(c, file, before, history, Resolvable)
    BY <1>3 DEF Relies, FileOK, Exists, ConfigExists
  <2> HIDE DEF c
  <2>3. Relies(o) => c.then = <<>> \/ c.then[2] \notin {"doctor", "adopt"}
    BY <1>1, <2>2 DEF StageOK
  <2>4. Relies(o) => StageOK(d, file) /\ BackOK(d, file, before, history, Resolvable)
    BY <1>1, <2>2 DEF StageOK, BackOK, Command
  <2>5. Relies(o) => StartOK(d, file, Resolvable)
    BY <1>1, <2>2, <2>3 DEF StartOK, Command
  <2> HIDE DEF d
  <2> QED BY <1>1, <2>1, <2>4, <2>5, SeqStep DEF c
<1> QED BY <1>2, <1>3 DEF ApplyScenario

\* What the running command relies on, for the steps that leave the rest alone.
LEMMA ReliesOn ==
    ASSUME NEW o \in Operator, Relies(o), NamesResolve
    PROVE  /\ cli[o] \in Command /\ CommandOK(cli[o], Resolvable) /\ StageOK(cli[o], file)
           /\ StartOK(cli[o], file, Resolvable) /\ BackOK(cli[o], file, before, history, Resolvable)
           /\ FileOK(file, before, history, Resolvable)
           /\ file \in ConfigFile /\ ConfiguredRevision(file) \in Resolvable \cup {None}
           /\ file.rev \in OptionOf(Revision)
BY DEF Relies, NamesResolve, WorkflowTypeOK, ConfigOK, ConfigFile

\* A stage that a command relies on nothing at.
LEMMA SeqPlainStep ==
    ASSUME NamesResolve, SequentialInv, ~overlapped', NEW o \in Operator,
           NEW s \in {"gate", "run", "rollout", "start", "running"}, Step(o, s),
           cli[o].stage # "idle", UNCHANGED <<databaseVars, file, ghostVars>>,
           Relies(o) =>
               /\ Exists(file) /\ cli[o].cmd \in {"apply", "bootstrap", "run"}
               /\ s = "gate" => cli[o].cmd = "apply"
               /\ s = "start" => cli[o].cmd = "bootstrap"
               /\ /\ s \in {"gate", "run", "start"}
                  /\ cli[o].cmd # "run"
                  => Ready(file, Resolvable)
    PROVE  SequentialInv'
<1> DEFINE c == cli[o]
           d == [c EXCEPT !.stage = s]
<1>1. cli' = [cli EXCEPT ![o] = d]
  BY DEF Step
<1>2. ASSUME Relies(o)
      PROVE  StageOK(d, file) /\ StartOK(d, file, Resolvable) /\ BackOK(d, file, before, history, Resolvable)
  <2>1. /\ c \in Command /\ StageOK(c, file) /\ StartOK(c, file, Resolvable)
        /\ BackOK(c, file, before, history, Resolvable)
    BY <1>2, ReliesOn
  <2>2. /\ Exists(file) /\ c.cmd \in {"apply", "bootstrap", "run"}
        /\ s = "gate" => c.cmd = "apply"
        /\ s = "start" => c.cmd = "bootstrap"
        /\ s \in {"gate", "run", "start"} /\ c.cmd # "run" => Ready(file, Resolvable)
    BY <1>2
  <2> HIDE DEF c
  <2>3. StageOK(d, file) /\ BackOK(d, file, before, history, Resolvable)
    BY <2>1, <2>2 DEF StageOK, BackOK, Command
  <2>4. StartOK(d, file, Resolvable)
    BY <2>1, <2>2 DEF StartOK, Command
  <2> QED BY <2>3, <2>4
<1> HIDE DEF d
<1> QED BY <1>1, <1>2, SeqStep

LEMMA SeqApplyStatus ==
    ASSUME NamesResolve, SequentialInv, ~overlapped', NEW o \in Operator, ApplyStatus(o)
    PROVE  SequentialInv'
<1> DEFINE c == cli[o]
           next == AfterStatus(c.mode, file)
           blocked == ConfiguredRevision(file) # None /\ StartBlocked(file)
           d == [c EXCEPT !.stage = next, !.rev = ConfiguredRevision(file), !.prev = progress,
                          !.blocked = blocked]
<1>1. c.stage = "status" /\ UNCHANGED <<databaseVars, file, ghostVars>>
  BY DEF ApplyStatus, AtStage
<1>2. CASE next = "exit"
  BY <1>1, <1>2, SeqExit DEF ApplyStatus
<1>3. CASE next # "exit"
  <2>1. cli' = [cli EXCEPT ![o] = d]
    BY <1>3 DEF ApplyStatus
  <2>2. next \in {"adopt", "rollout", "doctor"}
    BY <1>3 DEF AfterStatus
  <2>3. next = "doctor" => StartupResolves(file) /\ RolloutCovers(file)
    <3>1. Readiness(file) \in {"ConfigReady", "RestartRequired"} => StartupResolves(file)
      BY DEF Readiness
    <3>2. Readiness(file) = "ConfigReady" => RolloutCovers(file)
      BY DEF Readiness
    <3>3. next = "doctor" => /\ Readiness(file) \in {"ConfigReady", "RestartRequired"}
                             /\ Readiness(file) = "RestartRequired" => RolloutCovers(file)
      BY DEF AfterStatus
    <3> QED BY <3>1, <3>2, <3>3
  <2>4. ASSUME Relies(o)
        PROVE  StageOK(d, file) /\ StartOK(d, file, Resolvable) /\ BackOK(d, file, before, history, Resolvable)
    <3>1. /\ c \in Command /\ StageOK(c, file) /\ StartOK(c, file, Resolvable)
          /\ BackOK(c, file, before, history, Resolvable) /\ file.rev \in OptionOf(Revision)
      BY <2>4, ReliesOn
    <3>2. next = "doctor" => Ready(file, Resolvable)
      BY <2>3 DEF StartupResolves, Ready, Resolvable, Resolves, NamesResolve, WorkflowTypeOK
    <3>3. Exists(file) /\ c.cmd = "apply"
      BY <1>1, <3>1 DEF StageOK
    <3> HIDE DEF c, next, blocked
    <3>4. StageOK(d, file) /\ BackOK(d, file, before, history, Resolvable)
      BY <2>2, <3>1, <3>3 DEF StageOK, BackOK, Command
    <3>5. StartOK(d, file, Resolvable)
      BY <2>2, <3>1, <3>2, <3>3 DEF StartOK, StageOK, Command
    <3> QED BY <3>4, <3>5
  <2> HIDE DEF d
  <2> QED BY <1>1, <2>1, <2>4, SeqStep
<1> QED BY <1>2, <1>3

LEMMA SeqApplyGate ==
    ASSUME NamesResolve, SequentialInv, ~overlapped', NEW o \in Operator, NEW confirmed \in BOOLEAN,
           ApplyGate(o, confirmed)
    PROVE  SequentialInv'
<1>1. cli[o].stage = "gate" /\ UNCHANGED <<databaseVars, file, ghostVars>>
  BY DEF ApplyGate, AtStage
<1>2. CASE Exit(o)
  BY <1>1, <1>2, SeqExit
<1>3. CASE Step(o, "run")
  <2>1. Relies(o) => Exists(file) /\ cli[o].cmd = "apply" /\ Ready(file, Resolvable)
    BY <1>1, ReliesOn DEF StageOK, StartOK
  <2> QED BY <1>1, <1>3, <2>1, SeqPlainStep
<1> QED BY <1>2, <1>3 DEF ApplyGate

\* The config that the wizard of bootstrap writes was missing.
LEMMA SeqCompleteMissingConfig ==
    ASSUME NamesResolve, SequentialInv, ~overlapped', NEW o \in Operator,
           NEW mode \in {"paper", "smoke"}, CompleteMissingConfig(o, mode)
    PROVE  SequentialInv'
<1> DEFINE c == cli[o]
           d == [c EXCEPT !.stage = "migrate"]
<1>1. /\ ~overlapped /\ c.stage = "wizard" /\ file' = FreshConfig(mode)
      /\ UNCHANGED <<history, before>> /\ cli' = [cli EXCEPT ![o] = d]
  BY DEF CompleteMissingConfig, AtStage, Step, databaseVars, ghostVars
<1>2. Relies(o)
  BY <1>1, RunningRelies
<1>3. /\ c \in Command /\ StageOK(c, file) /\ StartOK(c, file, Resolvable)
      /\ BackOK(c, file, before, history, Resolvable) /\ FileOK(file, before, history, Resolvable)
  BY <1>2, ReliesOn
<1> HIDE DEF c
<1>4. c.cmd = "bootstrap" /\ before = None
  BY <1>1, <1>3 DEF StageOK, FileOK
<1>5. mode # None
  BY AdoptionAssumption DEF ConfigMode
<1>6. Exists(file')
  BY <1>1, <1>5 DEF Exists, FreshConfig
<1>7. FileOK(file', before', history', Resolvable')
  BY <1>1, <1>4, <1>6 DEF FileOK, Exists
<1>8. StageOK(d, file') /\ BackOK(d, file', before', history', Resolvable')
  BY <1>1, <1>3, <1>4, <1>6 DEF StageOK, BackOK, Command
<1>9. StartOK(d, file', Resolvable')
  BY <1>1, <1>3, <1>4 DEF StartOK, StageOK, Command
<1> HIDE DEF d
<1> QED BY <1>1, <1>2, <1>7, <1>8, <1>9, AloneMoves DEF Relies

LEMMA SeqBootstrapDetect ==
    ASSUME NamesResolve, SequentialInv, ~overlapped', NEW o \in Operator, BootstrapDetect(o)
    PROVE  SequentialInv'
<1> DEFINE c == cli[o]
<1>1. c.stage = "detect" /\ UNCHANGED <<databaseVars, file, ghostVars>>
  BY DEF BootstrapDetect, AtStage
<1>2. CASE Exit(o)
  BY <1>1, <1>2, SeqExit
<1>3. CASE ~Exit(o)
  <2>1. PICK next \in {"doctor", "adopt"} : cli' = [cli EXCEPT ![o].stage = next, ![o].mode = file.mode]
    BY <1>3 DEF BootstrapDetect
  <2>2. file.mode # "live"
    BY <1>3 DEF BootstrapDetect
  <2> DEFINE d == [c EXCEPT !.stage = next, !.mode = file.mode]
  <2>3. cli' = [cli EXCEPT ![o] = d]
    BY <2>1
  <2>4. ASSUME Relies(o)
        PROVE  StageOK(d, file) /\ StartOK(d, file, Resolvable) /\ BackOK(d, file, before, history, Resolvable)
    <3>1. /\ c \in Command /\ StageOK(c, file) /\ StartOK(c, file, Resolvable)
          /\ BackOK(c, file, before, history, Resolvable) /\ file \in ConfigFile
      BY <2>4, ReliesOn
    <3> HIDE DEF c
    <3>2. Exists(file) /\ c.cmd = "bootstrap" /\ c.then = <<>>
      BY <1>1, <3>1 DEF StageOK
    <3>3. file.mode \in {"paper", "smoke"}
      BY <2>2, <3>1, <3>2 DEF ConfigFile, OptionOf, ConfigMode, Exists
    <3>4. StageOK(d, file) /\ BackOK(d, file, before, history, Resolvable)
      BY <3>1, <3>2 DEF StageOK, BackOK, Command
    <3>5. StartOK(d, file, Resolvable)
      BY <3>1, <3>2, <3>3 DEF StartOK, Command
    <3> QED BY <3>4, <3>5
  <2> HIDE DEF d
  <2> QED BY <1>1, <2>3, <2>4, SeqStep
<1> QED BY <1>2, <1>3

LEMMA SeqInlineDiscover ==
    ASSUME NamesResolve, SequentialInv, ~overlapped', NEW o \in Operator, NEW r \in Discovered,
           NEW adoptable \in BOOLEAN, InlineDiscover(o, r, adoptable)
    PROVE  SequentialInv'
<1> DEFINE c == cli[o]
           cmd == IF adoptable THEN "discover" ELSE "advise"
           d == [c EXCEPT !.cmd = cmd, !.stage = "candidate", !.rev = r, !.prev = None, !.then = <<c.cmd, "adopt">>]
<1>1. /\ c.stage = "adopt" /\ c.cmd = "bootstrap" /\ UNCHANGED <<databaseVars, file, ghostVars>>
      /\ cli' = [cli EXCEPT ![o] = d]
  BY DEF InlineDiscover, AtStage, Call
<1>2. cmd \in {"discover", "advise"}
  OBVIOUS
<1>3. ASSUME Relies(o)
      PROVE  StageOK(d, file) /\ StartOK(d, file, Resolvable) /\ BackOK(d, file, before, history, Resolvable)
  <2>1. c \in Command /\ StageOK(c, file) /\ StartOK(c, file, Resolvable)
    BY <1>3, ReliesOn
  <2> HIDE DEF c, cmd
  <2>2. Exists(file) /\ c.mode = file.mode /\ c.mode \in {"paper", "smoke"}
    BY <1>1, <2>1 DEF StageOK, StartOK
  <2>3. /\ d.cmd = cmd /\ d.stage = "candidate" /\ d.mode = c.mode
        /\ d.then # <<>> /\ d.then[1] = "bootstrap" /\ d.then[2] = "adopt"
    BY <1>1, <2>1 DEF Command
  <2> HIDE DEF d
  <2>4. StageOK(d, file) /\ BackOK(d, file, before, history, Resolvable)
    BY <1>2, <2>2, <2>3 DEF StageOK, BackOK
  <2>5. StartOK(d, file, Resolvable)
    BY <1>2, <2>2, <2>3 DEF StartOK
  <2> QED BY <2>4, <2>5
<1> HIDE DEF d
<1> QED BY <1>1, <1>3, SeqStep

LEMMA SeqInlineAdopt ==
    ASSUME NamesResolve, SequentialInv, ~overlapped', NEW o \in Operator, NEW r \in Revision, InlineAdopt(o, r)
    PROVE  SequentialInv'
<1> DEFINE c == cli[o]
           back == IF c.cmd = "apply" THEN "status" ELSE "doctor"
           d == [c EXCEPT !.cmd = "adopt", !.stage = "provenance", !.rev = r,
                          !.prev = ConfiguredRevision(file), !.then = <<c.cmd, back>>]
<1>1. c.stage = "adopt" /\ UNCHANGED <<databaseVars, file, ghostVars>> /\ cli' = [cli EXCEPT ![o] = d]
  BY DEF InlineAdopt, AtStage, Call
<1>2. ASSUME Relies(o)
      PROVE  StageOK(d, file) /\ StartOK(d, file, Resolvable) /\ BackOK(d, file, before, history, Resolvable)
  <2>1. /\ c \in Command /\ CommandOK(c, Resolvable) /\ StageOK(c, file) /\ StartOK(c, file, Resolvable)
        /\ FileOK(file, before, history, Resolvable) /\ ConfiguredRevision(file) \in Resolvable \cup {None}
    BY <1>2, ReliesOn
  <2>2. before # None => ConfiguredRevision(file) = file.rev
    BY <2>1 DEF FileOK, ConfiguredRevision
  <2> HIDE DEF c
  <2>3. c.cmd \in {"apply", "bootstrap"} /\ Exists(file)
    BY <1>1, <2>1 DEF CommandOK, StageOK
  <2>4. c.cmd = "bootstrap" => c.mode = file.mode /\ c.mode \in {"paper", "smoke"}
    BY <1>1, <2>1 DEF StartOK
  <2>5. /\ d.cmd = "adopt" /\ d.stage = "provenance" /\ d.mode = c.mode /\ d.prev = ConfiguredRevision(file)
        /\ d.then # <<>> /\ d.then[1] = c.cmd /\ d.then[2] = back
    BY <2>1 DEF Command
  <2>6. /\ back \in {"status", "doctor"}
        /\ back = "status" => c.cmd = "apply"
        /\ back = "doctor" => c.cmd = "bootstrap"
    BY <2>3
  <2> HIDE DEF d, back
  <2>7. StageOK(d, file) /\ BackOK(d, file, before, history, Resolvable)
    BY <2>1, <2>2, <2>3, <2>5, <2>6 DEF StageOK, BackOK
  <2>8. StartOK(d, file, Resolvable)
    BY <2>3, <2>4, <2>5, <2>6 DEF StartOK
  <2> QED BY <2>7, <2>8
<1> HIDE DEF d
<1> QED BY <1>1, <1>2, SeqStep

LEMMA SeqInlineRollout ==
    ASSUME NamesResolve, SequentialInv, ~overlapped', NEW o \in Operator, InlineRollout(o)
    PROVE  SequentialInv'
<1> DEFINE c == cli[o]
           back == IF c.cmd = "apply" THEN "status" ELSE "start"
           d == [c EXCEPT !.cmd = "rollout", !.stage = "read", !.rev = file.rev,
                          !.prev = None, !.then = <<c.cmd, back>>]
<1>1. c.stage = "rollout" /\ UNCHANGED <<databaseVars, file, ghostVars>>
  BY DEF InlineRollout, AtStage
<1>2. file.form \in {"canonical", "target_source"} /\ file.rev \in Resolvable
  BY DEF InlineRollout, StartupResolves, Resolvable, Resolves, NamesResolve, WorkflowTypeOK
<1>3. CASE c.cmd = "bootstrap" /\ RolloutCovers(file) /\ Step(o, "start")
  <2>1. Relies(o) => Exists(file) /\ c.cmd = "bootstrap"
    BY <1>1, <1>3, ReliesOn DEF StageOK
  <2>2. Ready(file, Resolvable)
    BY <1>2, <1>3 DEF Ready
  <2> QED BY <1>1, <1>3, <2>1, <2>2, SeqPlainStep
<1>4. CASE cli' = [cli EXCEPT ![o] = d]
  <2>1. ASSUME Relies(o)
        PROVE  StageOK(d, file) /\ StartOK(d, file, Resolvable) /\ BackOK(d, file, before, history, Resolvable)
    <3>1. c \in Command /\ CommandOK(c, Resolvable) /\ StageOK(c, file)
      BY <2>1, ReliesOn
    <3> HIDE DEF c
    <3>2. c.cmd \in {"apply", "bootstrap"} /\ Exists(file)
      BY <1>1, <3>1 DEF CommandOK, StageOK
    <3>3. /\ d.cmd = "rollout" /\ d.stage = "read" /\ d.rev = file.rev
          /\ d.then # <<>> /\ d.then[1] = c.cmd /\ d.then[2] = back
      BY <3>1 DEF Command
    <3>4. /\ back \in {"status", "start"}
          /\ back = "status" => c.cmd = "apply"
          /\ back = "start" => c.cmd = "bootstrap"
      BY <3>2
    <3> HIDE DEF d, back
    <3>5. StageOK(d, file) /\ BackOK(d, file, before, history, Resolvable)
      BY <3>2, <3>3, <3>4 DEF StageOK, BackOK
    <3>6. StartOK(d, file, Resolvable)
      BY <1>2, <3>2, <3>3, <3>4 DEF StartOK
    <3> QED BY <3>5, <3>6
  <2> HIDE DEF d
  <2> QED BY <1>1, <1>4, <2>1, SeqStep
<1> QED BY <1>3, <1>4 DEF InlineRollout, Call

\* A paper config starts after the doctor, a smoke one after its rollout.
LEMMA SeqDoctor ==
    ASSUME NamesResolve, SequentialInv, ~overlapped', NEW o \in Operator, NEW answered \in BOOLEAN,
           Doctor(o, answered)
    PROVE  SequentialInv'
<1>1. cli[o].stage = "doctor" /\ UNCHANGED <<databaseVars, file, ghostVars>>
  BY DEF Doctor, AtStage
<1>2. CASE Exit(o)
  BY <1>1, <1>2, SeqExit
<1>3. Relies(o) =>
        /\ Exists(file) /\ cli[o].cmd \in {"apply", "bootstrap", "doctor"}
        /\ cli[o].cmd = "apply" => Ready(file, Resolvable)
        /\ cli[o].cmd = "bootstrap" => cli[o].mode = file.mode /\ cli[o].mode \in {"paper", "smoke"}
  BY <1>1, ReliesOn DEF StageOK, StartOK, CommandOK
<1>4. CASE cli[o].cmd = "apply" /\ Step(o, "gate")
  BY <1>1, <1>3, <1>4, SeqPlainStep
<1>5. CASE cli[o].cmd = "bootstrap" /\ Step(o, IF cli[o].mode = "smoke" THEN "rollout" ELSE "start")
  <2>1. CASE cli[o].mode = "smoke"
    BY <1>1, <1>3, <1>5, <2>1, SeqPlainStep
  <2>2. CASE cli[o].mode # "smoke"
    <3>1. Relies(o) => Ready(file, Resolvable)
      BY <1>3, <1>5, <2>2 DEF Ready
    <3> QED BY <1>1, <1>3, <1>5, <2>2, <3>1, SeqPlainStep
  <2> QED BY <2>1, <2>2
<1>6. cli[o].cmd \in {"apply", "bootstrap", "doctor"}
  BY <1>1 DEF NamesResolve, CommandOK
<1>7. CASE cli[o].cmd = "apply"
  BY <1>2, <1>4, <1>7 DEF Doctor
<1>8. CASE cli[o].cmd = "bootstrap"
  BY <1>2, <1>5, <1>8 DEF Doctor
<1>9. CASE cli[o].cmd = "doctor"
  BY <1>2, <1>9 DEF Doctor
<1> QED BY <1>6, <1>7, <1>8, <1>9

LEMMA SeqBootstrapStart ==
    ASSUME NamesResolve, SequentialInv, ~overlapped', NEW o \in Operator, BootstrapStart(o)
    PROVE  SequentialInv'
<1>1. cli[o].stage = "start" /\ UNCHANGED <<databaseVars, file, ghostVars>>
  BY DEF BootstrapStart, AtStage
<1>2. Relies(o) => Exists(file) /\ cli[o].cmd = "bootstrap" /\ Ready(file, Resolvable)
  BY <1>1, ReliesOn DEF StageOK, StartOK
<1>3. CASE Exit(o)
  BY <1>1, <1>3, SeqExit
<1>4. CASE Step(o, "run")
  BY <1>1, <1>2, <1>4, SeqPlainStep
<1> QED BY <1>3, <1>4 DEF BootstrapStart

LEMMA SeqDecline ==
    ASSUME NamesResolve, SequentialInv, ~overlapped', NEW o \in Operator, Decline(o)
    PROVE  SequentialInv'
BY SeqExit DEF Decline, AtStage

LEMMA SeqCreateStarting ==
    ASSUME NamesResolve, SequentialInv, ~overlapped', NEW o \in Operator, CreateStarting(o)
    PROVE  SequentialInv'
<1> DEFINE c == cli[o]
           n == Len(sessions) + 1
           d == [c EXCEPT !.stage = "resolve", !.text = file, !.session = n]
<1>1. c.stage = "run" /\ UNCHANGED <<databaseVars, file, ghostVars>>
  BY DEF CreateStarting, AtStage
<1>2. CASE Exit(o)
  BY <1>1, <1>2, SeqExit
<1>3. CASE cli' = [cli EXCEPT ![o] = d]
  <2>1. ASSUME Relies(o)
        PROVE  StageOK(d, file) /\ StartOK(d, file, Resolvable) /\ BackOK(d, file, before, history, Resolvable)
    <3>1. /\ c \in Command /\ StageOK(c, file) /\ StartOK(c, file, Resolvable)
          /\ BackOK(c, file, before, history, Resolvable)
      BY <2>1, ReliesOn
    <3> HIDE DEF c, n
    <3>2. StageOK(d, file) /\ BackOK(d, file, before, history, Resolvable)
      BY <1>1, <3>1 DEF StageOK, BackOK, Command
    <3>3. StartOK(d, file, Resolvable)
      BY <1>1, <3>1 DEF StartOK, StageOK, Command
    <3> QED BY <3>2, <3>3
  <2> HIDE DEF d
  <2> QED BY <1>1, <1>3, <2>1, SeqStep
<1> QED BY <1>2, <1>3 DEF CreateStarting

LEMMA SeqResolveRun ==
    ASSUME NamesResolve, SequentialInv, ~overlapped', NEW o \in Operator, NEW built \in BOOLEAN,
           ResolveRun(o, built)
    PROVE  SequentialInv'
<1> DEFINE c == cli[o]
           d == [c EXCEPT !.stage = "progress", !.rev = c.text.rev]
           e == [c EXCEPT !.stage = "running"]
<1>1. c.stage = "resolve" /\ UNCHANGED <<databaseVars, file, ghostVars>>
  BY DEF ResolveRun, AtStage
<1>2. CASE Exit(o)
  BY <1>1, <1>2, SeqExit
<1>3. Relies(o) => /\ StageOK(d, file) /\ StartOK(d, file, Resolvable)
                   /\ BackOK(d, file, before, history, Resolvable)
                   /\ StageOK(e, file) /\ StartOK(e, file, Resolvable)
                   /\ BackOK(e, file, before, history, Resolvable)
  <2> SUFFICES ASSUME Relies(o)
               PROVE  /\ StageOK(d, file) /\ StartOK(d, file, Resolvable)
                      /\ BackOK(d, file, before, history, Resolvable)
                      /\ StageOK(e, file) /\ StartOK(e, file, Resolvable)
                      /\ BackOK(e, file, before, history, Resolvable)
    OBVIOUS
  <2>1. /\ c \in Command /\ StageOK(c, file) /\ StartOK(c, file, Resolvable)
        /\ BackOK(c, file, before, history, Resolvable)
    BY ReliesOn
  <2> HIDE DEF c
  <2>2. StageOK(d, file) /\ StageOK(e, file)
    BY <1>1, <2>1 DEF StageOK, Command
  <2>3. StartOK(d, file, Resolvable) /\ StartOK(e, file, Resolvable)
    BY <1>1, <2>1 DEF StartOK, StageOK, Command
  <2>4. d.prev = c.prev /\ d.stage = "progress"
    BY <2>1 DEF Command
  <2>5. BackOK(e, file, before, history, Resolvable)
    BY <1>1, <2>1 DEF BackOK, Command
  <2>6. BackOK(d, file, before, history, Resolvable)
    BY <1>1, <2>1, <2>4 DEF BackOK, Command
  <2> QED BY <2>2, <2>3, <2>5, <2>6
<1>4. CASE cli' = [cli EXCEPT ![o] = d]
  <2> HIDE DEF d
  <2> QED BY <1>1, <1>3, <1>4, SeqStep
<1>5. CASE cli' = [cli EXCEPT ![o] = e]
  <2> HIDE DEF e
  <2> QED BY <1>1, <1>3, <1>5, SeqStep
<1> QED BY <1>2, <1>4, <1>5 DEF ResolveRun, Step

\* The steps that end a run rely on nothing.
LEMMA SeqRunEnds ==
    ASSUME NamesResolve, SequentialInv, ~overlapped', NEW o \in Operator,
           RecordProgress(o) \/ MarkRunning(o) \/ MarkExited(o)
    PROVE  SequentialInv'
<1> DEFINE c == cli[o]
<1>1. /\ c.stage \in {"progress", "running", "exited"} /\ ~overlapped /\ UNCHANGED <<file, before, history>>
      /\ Resolvable' = Resolvable
  BY DEF RecordProgress, MarkRunning, MarkExited, AtStage, ghostVars, databaseVars, artifactVars,
         Resolvable, Resolves
<1>2. Relies(o) /\ ~Idle(o)
  BY <1>1, RunningRelies, StageNotIdle
<1>3. CASE Exit(o)
  BY <1>1, <1>2, <1>3, SeqEnd
<1>4. ASSUME NEW s \in {"running", "exited"}, Step(o, s)
      PROVE  SequentialInv'
  <2> DEFINE d == [c EXCEPT !.stage = s]
  <2>1. cli' = [cli EXCEPT ![o] = d]
    BY <1>4 DEF Step
  <2>2. /\ c \in Command /\ StageOK(c, file) /\ StartOK(c, file, Resolvable)
        /\ BackOK(c, file, before, history, Resolvable)
    BY <1>2, ReliesOn
  <2> HIDE DEF c
  <2>3. StageOK(d, file) /\ BackOK(d, file, before, history, Resolvable)
    BY <1>1, <2>2 DEF StageOK, BackOK, Command
  <2>4. StartOK(d, file, Resolvable)
    BY <1>1, <2>2 DEF StartOK, StageOK, Command
  <2> HIDE DEF d
  <2> QED BY <1>1, <1>2, <2>1, <2>3, <2>4, AloneSteps DEF Relies
<1> QED BY <1>3, <1>4 DEF RecordProgress, MarkRunning, MarkExited

LEMMA SeqUnchanged ==
    ASSUME SequentialInv, UNCHANGED adoptionVars
    PROVE  SequentialInv'
<1>1. Resolvable' = Resolvable
  BY DEF adoptionVars, Resolvable, Resolves
<1> QED BY <1>1 DEF adoptionVars, SequentialInv, OneAtATime, Idle

LEMMA InitSequential ==
    ASSUME WorkflowInit
    PROVE  SequentialInv
<1>1. before = None /\ \A o \in Operator : cli[o] = NoCli
  BY DEF WorkflowInit, AdoptionInit
<1>2. file.form # "missing" => file.mode # None
  BY AdoptionAssumption DEF WorkflowInit, AdoptionInit
<1>3. FileOK(file, before, history, Resolvable)
  BY <1>1, <1>2 DEF FileOK
<1>4. OneAtATime
  BY <1>1 DEF OneAtATime, Idle
<1> QED BY <1>1, <1>3, <1>4, AtRestOK DEF SequentialInv

LEMMA SeqAdoption ==
    ASSUME NamesResolve, SequentialInv, ~overlapped', NEW o \in Operator, AdoptionNext(o) \/ AdoptionStep(o)
    PROVE  SequentialInv'
BY SeqStartDiscover, SeqStartAdopt, SeqStartMigration, SeqStartRollback, SeqCrash, SeqUpsertCandidate,
   SeqUpsertAdoptable, SeqAppendDiscoverRefresh, SeqEnsureCanonicalProvenance, SeqAppendHistory,
   SeqReadConfig, SeqWriteConfig DEF AdoptionNext, AdoptionStep

LEMMA SeqWorkflowStep ==
    ASSUME NamesResolve, SequentialInv, ~overlapped', NEW o \in Operator, WorkflowStep(o)
    PROVE  SequentialInv'
BY SeqAdoption, SeqMigrateFirst, SeqApplyScenario, SeqApplyStatus, SeqApplyGate,
   SeqCompleteMissingConfig, SeqBootstrapDetect, SeqInlineDiscover, SeqInlineAdopt, SeqDecline,
   SeqInlineRollout, SeqDoctor, SeqBootstrapStart, SeqCreateStarting, SeqResolveRun, SeqRunEnds
   DEF WorkflowStep

LEMMA SeqNext ==
    ASSUME ~InitOverwrites, NamesResolve, SequentialInv, [WorkflowNext]_workflowVars
    PROVE  SequentialInv'
<1> SUFFICES ASSUME ~overlapped' PROVE SequentialInv'
  BY DEF SequentialInv
<1>1. ASSUME NEW o \in Operator, AdoptionNext(o)
      PROVE  SequentialInv'
  BY <1>1, SeqAdoption
<1>2. ASSUME NEW o \in Operator, NEW mode \in ConfigMode, NEW preserve \in BOOLEAN, StartInit(o, mode, preserve)
      PROVE  SequentialInv'
  BY <1>2, SeqStartInit
<1>3. ASSUME NEW o \in Operator, NEW start \in BOOLEAN,
             StartApply(o, start) \/ StartBootstrap(o, start) \/ StartDoctor(o) \/ StartRun(o)
      PROVE  SequentialInv'
  BY <1>3, SeqStartOthers
<1>4. ASSUME NEW o \in Operator, WorkflowStep(o)
      PROVE  SequentialInv'
  BY <1>4, SeqWorkflowStep
<1>5. ASSUME NEW i, Age(i)
      PROVE  SequentialInv'
  BY <1>5, SeqUnchanged DEF Age
<1>6. CASE UNCHANGED workflowVars
  BY <1>6, SeqUnchanged DEF workflowVars
<1>7. TRUE \in BOOLEAN
  OBVIOUS
<1>8. CASE WorkflowNext
  BY <1>1, <1>2, <1>3, <1>4, <1>5, <1>7, <1>8 DEF WorkflowNext, ConfigMode
<1> QED BY <1>6, <1>8

\* As long as no two commands overlap, what a command found is still true when it
\* acts on it, and the history leads back from the configured revision.
THEOREM SequentialCommands ==
    ~InitOverwrites => (WorkflowSpec => [](NamesResolve /\ SequentialInv))
<1>1. ASSUME ~InitOverwrites PROVE WorkflowSpec => [](NamesResolve /\ SequentialInv)
  <2>1. WorkflowInit => NamesResolve /\ SessionsOK /\ SequentialInv
    BY InitNamesResolve, InitSequential
  <2>2. NamesResolve /\ SessionsOK /\ SequentialInv /\ [WorkflowNext]_workflowVars
        => (NamesResolve /\ SessionsOK /\ SequentialInv)'
    BY <1>1, WorkflowNextOK, SeqNext
  <2> QED BY <2>1, <2>2, PTL DEF WorkflowSpec
<1> QED BY <1>1

\* previous_distinct_revision finds the row that leads back.
LEMMA PreviousIsLast ==
    ASSUME NamesResolve, NEW r, NEW to, LeadsBack(history, r, to)
    PROVE  PreviousDistinctRevision(r) = to
<1>1. PICK i \in DOMAIN history : LastDistinct(history, r, i) /\ history[i].prev = to
  BY DEF LeadsBack
<1>2. DOMAIN history \subseteq Int
  BY DEF NamesResolve, WorkflowTypeOK
<1>3. i \in DistinctRows(r) /\ \A j \in DistinctRows(r) : j <= i /\ j \in Int
  BY <1>1, <1>2 DEF DistinctRows, RowsFor, LastDistinct
<1>4. i \in Int
  BY <1>2
<1>5. \A x \in DistinctRows(r) : (\A y \in DistinctRows(r) : x >= y) => x = i
  BY <1>3, <1>4
<1>6. \A y \in DistinctRows(r) : i >= y
  BY <1>3, <1>4
<1>7. Max(DistinctRows(r)) = i
  BY <1>3, <1>5, <1>6 DEF Max
<1> QED BY <1>1, <1>3, <1>7 DEF PreviousDistinctRevision, PrevOfLast

\* Until two commands overlap, a rollback without a revision goes back to the one
\* that the last adoption or rollback replaced, and is not refused for want of
\* lineage, whatever was repeated or left half done in between
\* (resolve_rollback_selection, previous_distinct_revision, append_history).
THEOREM RollbackAlwaysGoesBack ==
    ~InitOverwrites => (WorkflowSpec => []RollbackGoesBack)
<1>1. NamesResolve /\ SequentialInv => RollbackGoesBack
  <2>1. SUFFICES ASSUME NamesResolve, SequentialInv, ~overlapped, before # None, file.form = "canonical"
                 PROVE  PreviousDistinctRevision(file.rev) = before /\ SelectsRevision(before)
    BY DEF RollbackGoesBack
  <2>2. FileOK(file, before, history, Resolvable)
    BY <2>1 DEF SequentialInv
  <2>3. before \in Resolvable /\ LeadsBack(history, file.rev, before)
    BY <2>1, <2>2 DEF FileOK
  <2>4. PreviousDistinctRevision(file.rev) = before
    BY <2>1, <2>3, PreviousIsLast
  <2>5. SelectsRevision(before)
    BY <2>3 DEF SelectsRevision, Resolvable, Resolves
  <2> QED BY <2>4, <2>5
<1> QED BY <1>1, SequentialCommands, PTL

\* Until two commands overlap, a runtime that apply or bootstrap starts has a
\* revision that resolves and a rollout that covers its families: the status,
\* the rollout and the migration they go through leave no other way to a start
\* (execute_live_apply, execute_smoke_apply, ensure_smoke_rollout_state).
THEOREM ApplyAlwaysStartsReady ==
    ~InitOverwrites => (WorkflowSpec => []ApplyStartsReady)
<1>1. NamesResolve /\ SequentialInv => ApplyStartsReady
  <2>1. SUFFICES ASSUME NamesResolve, SequentialInv, ~overlapped, NEW o \in Operator,
                        cli[o].cmd \in {"apply", "bootstrap"}, cli[o].stage \in {"resolve", "progress"},
                        cli[o].text.mode # "paper"
                 PROVE  StartupResolves(cli[o].text) /\ RolloutCovers(cli[o].text)
    BY DEF ApplyStartsReady
  <2>2. Ready(cli[o].text, Resolvable)
    BY <2>1 DEF SequentialInv, StartOK
  <2> QED BY <2>1, <2>2 DEF Ready, StartupResolves, Resolvable
<1> QED BY <1>1, SequentialCommands, PTL

---------------------------------------------------------------------------
(***************************************************************************)
(* The configuration a run is given                                        *)
(***************************************************************************)

\* What the stages a configuration has passed say about it.
PassedOK(raw, stage, values) ==
    /\ raw \in RawConfigs
    /\ stage \in {"validated", "viewed", "loaded"} => GlobalInvariants(raw)
    /\ stage \in {"viewed", "loaded"} => AppLiveRequirements(raw)
    /\ stage = "loaded" =>
          /\ raw.mode = "live"
          /\ values.account = LocalAccountRuntimeConfig(raw)
          /\ values.relayer = LocalRelayerRuntimeConfig(raw)
          /\ values.wallet_kind = RuntimeWalletKind(raw)
          /\ values.backend = "built" => RuntimeWalletKind(raw) = "NonEoa"

ConfigInv == PassedOK(rawConfig, configStage, runtimeConfig)

\* A backend is built for no EOA, whatever the families.
LEMMA BackendNeedsRelayer ==
    ASSUME NEW raw, NEW families, LiveExecutionBackend(raw, families) = "built"
    PROVE  RuntimeWalletKind(raw) = "NonEoa"
BY DEF LiveExecutionBackend

\* The two kinds of wallet are the same for a configuration the schema passes.
LEMMA WalletKindsAgree ==
    ASSUME NEW raw, GlobalInvariants(raw), AppLiveRequirements(raw), raw.mode = "live"
    PROVE  /\ raw.account # None /\ ValidAccountView(raw.account) /\ ~raw.signer
           /\ RuntimeWalletKind(raw) = ValidatedWalletKind(raw.account)
           /\ RuntimeWalletKind(raw) = "NonEoa" =>
                 /\ raw.relayer_auth # None /\ ValidRelayerAuthView(raw.relayer_auth)
                 /\ raw.account.signature_type # "Eoa"
<1>1. raw.account # None /\ ValidAccountView(raw.account) /\ ~raw.signer
  BY DEF AppLiveRequirements
<1>2. CASE raw.account.signature_type = "Eoa"
  <2>1. RawWalletKind(raw.account) = "Eoa"
    BY <1>1, <1>2 DEF RawWalletKind, ValidAccountView
  <2>2. raw.relayer_auth = None
    BY <1>1, <2>1 DEF GlobalInvariants, WalletKindAllowsRelayer
  <2> QED BY <1>1, <1>2, <2>2 DEF RuntimeWalletKind, ValidatedWalletKind
<1>3. CASE raw.account.signature_type # "Eoa"
  <2>1. ValidatedWalletKind(raw.account) = "NonEoa"
    BY <1>3 DEF ValidatedWalletKind
  <2>2. raw.relayer_auth # None /\ ValidRelayerAuthView(raw.relayer_auth)
    BY <2>1 DEF AppLiveRequirements, RequiresRelayerAuth
  <2> QED BY <1>1, <1>3, <2>1, <2>2 DEF RuntimeWalletKind
<1> QED BY <1>2, <1>3

LEMMA ConfigInitOK == ConfigInit => ConfigInv
BY DEF ConfigInit, ConfigInv, PassedOK

LEMMA ConfigNextOK ==
    ASSUME ConfigInv, [ConfigNext]_configVars
    PROVE  ConfigInv'
<1>1. CASE ValidateConfig
  <2>1. rawConfig' = rawConfig /\ configStage' \in {"validated", "refused"}
        /\ (configStage' = "validated" => GlobalInvariants(rawConfig))
    BY <1>1 DEF ValidateConfig
  <2> QED BY <2>1 DEF ConfigInv, PassedOK
<1>2. CASE TakeAppLiveView
  <2>1. rawConfig' = rawConfig /\ configStage' \in {"viewed", "refused"} /\ configStage = "validated"
        /\ (configStage' = "viewed" => AppLiveRequirements(rawConfig))
    BY <1>2 DEF TakeAppLiveView
  <2> QED BY <2>1 DEF ConfigInv, PassedOK
<1>3. ASSUME NEW adopted \in SUBSET ConfigFamily, LoadRuntimeConfig(adopted) PROVE ConfigInv'
  <2> DEFINE families == IF IsLegacyExplicit(rawConfig) THEN DOMAIN NegRiskLiveTargets(rawConfig)
                         ELSE adopted
             backend == LiveExecutionBackend(rawConfig, families)
             loads == /\ NegRiskLiveTargets(rawConfig) # None
                      /\ rawConfig.smoke => LocalAccountRuntimeConfig(rawConfig) # None
                      /\ backend # "refused"
  <2>1. /\ configStage = "viewed" /\ rawConfig.mode = "live" /\ rawConfig' = rawConfig
        /\ configStage' \in {"loaded", "refused"}
        /\ configStage' = "loaded" =>
              runtimeConfig' = [account |-> LocalAccountRuntimeConfig(rawConfig),
                                relayer |-> LocalRelayerRuntimeConfig(rawConfig),
                                wallet_kind |-> RuntimeWalletKind(rawConfig), backend |-> backend,
                                revision |-> OperatorStrategyRevision(rawConfig),
                                adopted |-> HasAdoptedStrategySource(rawConfig)]
    <3>1. /\ configStage = "viewed" /\ rawConfig.mode = "live" /\ rawConfig' = rawConfig
          /\ configStage' = IF loads THEN "loaded" ELSE "refused"
          /\ runtimeConfig' = IF ~loads THEN None ELSE
                 [account |-> LocalAccountRuntimeConfig(rawConfig),
                  relayer |-> LocalRelayerRuntimeConfig(rawConfig),
                  wallet_kind |-> RuntimeWalletKind(rawConfig), backend |-> backend,
                  revision |-> OperatorStrategyRevision(rawConfig),
                  adopted |-> HasAdoptedStrategySource(rawConfig)]
      BY <1>3 DEF LoadRuntimeConfig
    <3> HIDE DEF families, backend, loads
    <3> QED BY <3>1
  <2>2. backend = "built" => RuntimeWalletKind(rawConfig) = "NonEoa"
    BY BackendNeedsRelayer
  <2> HIDE DEF families, backend, loads
  <2>3. configStage' = "loaded" =>
          /\ runtimeConfig'.account = LocalAccountRuntimeConfig(rawConfig)
          /\ runtimeConfig'.relayer = LocalRelayerRuntimeConfig(rawConfig)
          /\ runtimeConfig'.wallet_kind = RuntimeWalletKind(rawConfig)
          /\ runtimeConfig'.backend = backend
    BY <2>1
  <2>4. GlobalInvariants(rawConfig) /\ AppLiveRequirements(rawConfig) /\ rawConfig \in RawConfigs
    BY <2>1 DEF ConfigInv, PassedOK
  <2>5. PassedOK(rawConfig, configStage', runtimeConfig')
    BY <2>1, <2>2, <2>3, <2>4 DEF PassedOK
  <2> QED BY <2>1, <2>5 DEF ConfigInv
<1>4. CASE UNCHANGED configVars
  BY <1>4 DEF configVars, ConfigInv
<1> QED BY <1>1, <1>2, <1>3, <1>4 DEF ConfigNext

\* A live configuration the schema passes loads as it was meant, for every file:
\* whatever its sections hold and whatever families its revision adopted.
THEOREM LiveConfigAlwaysLoads == ConfigSpec => []LiveConfigLoads
<1>1. ASSUME ConfigInv PROVE LiveConfigLoads
  <2>1. SUFFICES ASSUME configStage = "loaded"
                 PROVE  /\ runtimeConfig.account # None
                        /\ runtimeConfig.wallet_kind = ValidatedWalletKind(rawConfig.account)
                        /\ RequiresRelayerAuth(runtimeConfig.wallet_kind) => runtimeConfig.relayer # None
                        /\ runtimeConfig.backend = "built" => rawConfig.account.signature_type # "Eoa"
    BY DEF LiveConfigLoads
  <2>2. /\ rawConfig \in RawConfigs /\ rawConfig.mode = "live"
        /\ GlobalInvariants(rawConfig) /\ AppLiveRequirements(rawConfig)
        /\ runtimeConfig.account = LocalAccountRuntimeConfig(rawConfig)
        /\ runtimeConfig.relayer = LocalRelayerRuntimeConfig(rawConfig)
        /\ runtimeConfig.wallet_kind = RuntimeWalletKind(rawConfig)
        /\ runtimeConfig.backend = "built" => RuntimeWalletKind(rawConfig) = "NonEoa"
    BY <1>1, <2>1 DEF ConfigInv, PassedOK
  <2>3. /\ rawConfig.account # None /\ ValidAccountView(rawConfig.account) /\ ~rawConfig.signer
        /\ RuntimeWalletKind(rawConfig) = ValidatedWalletKind(rawConfig.account)
        /\ RuntimeWalletKind(rawConfig) = "NonEoa" =>
              /\ rawConfig.relayer_auth # None /\ ValidRelayerAuthView(rawConfig.relayer_auth)
              /\ rawConfig.account.signature_type # "Eoa"
    BY <2>2, WalletKindsAgree
  <2>4. runtimeConfig.account # None
    <3>1. GatewayCredentials(rawConfig) = WithFunder(rawConfig.account)
      BY <2>3 DEF GatewayCredentials
    <3> QED BY <2>2, <2>3, <3>1, NoneIsNoRuntimeValue DEF LocalAccountRuntimeConfig
  <2>5. RequiresRelayerAuth(runtimeConfig.wallet_kind) => runtimeConfig.relayer # None
    <3>1. SUFFICES ASSUME RuntimeWalletKind(rawConfig) = "NonEoa" PROVE runtimeConfig.relayer # None
      BY <2>2 DEF RequiresRelayerAuth
    <3>2. LocalRelayerRuntimeConfig(rawConfig) = RelayerValues(rawConfig.relayer_auth)
      BY <2>3, <3>1 DEF LocalRelayerRuntimeConfig, MapRelayerAuth
    <3> QED BY <2>2, <2>3, <3>1, <3>2, NoneIsNoRuntimeValue
  <2> QED BY <2>2, <2>3, <2>4, <2>5
<1> QED BY <1>1, ConfigInitOK, ConfigNextOK, PTL DEF ConfigSpec
=============================================================================
