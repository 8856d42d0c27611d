------------------------------ MODULE Workflow ------------------------------
(***************************************************************************)
(* The operator's high-level commands (crates/app-live/src/commands: init, *)
(* bootstrap, status, apply, doctor, run; run_session.rs; the run sessions *)
(* and runtime progress of crates/persistence/src/repos.rs), on top of     *)
(* Adoption.  bootstrap and apply inspect the config and the database,     *)
(* call discovery, adoption and rollout as parts of themselves, run the    *)
(* doctor and start the runtime in the foreground.  What they found before *)
(* a part may have changed when they act on it.  Prompts are choices of    *)
(* the operator; the venue, which the doctor probes, may refuse at any     *)
(* time.                                                                   *)
(***************************************************************************)
EXTENDS Adoption, Naturals

CONSTANT InitOverwrites   \* may init be run over a config that exists?

VARIABLES
    sessions,             \* run_sessions, in order of creation
    activeSession         \* active_run_session_id of the progress row, 0 for none

workflowVars == <<adoptionVars, sessions, activeSession>>
databaseVars == <<artifactVars, history, progress, activeSession>>

WorkflowInit == AdoptionInit /\ sessions = <<>> /\ activeSession = 0

Exit(o) == cli' = [cli EXCEPT ![o] = NoCli]

---------------------------------------------------------------------------
(***************************************************************************)
(* init: the wizard writes a config.                                       *)
(***************************************************************************)

\* render_live_config and render_paper_config without an existing config.
FreshConfig(mode) ==
    [form |-> IF mode = "paper" THEN "none" ELSE "target_source", rev |-> None, rollout |-> {}, mode |-> mode,
     header |-> FALSE]

\* merge_existing_control_plane: without a [negrisk] section a canonical revision is
\* kept beside a new target source without a revision; with one it takes the place of
\* the target source, whose own revision is renamed.
MergedConfig(mode, f) ==
    CASE f.form = "canonical" /\ ~f.header -> [f EXCEPT !.form = "mixed", !.mode = mode]
      [] f.form = "mixed" \/ (f.form = "canonical" /\ f.header) ->
            [f EXCEPT !.form = "canonical", !.mode = mode, !.header = TRUE]
      [] f.form = "target_source" /\ f.rev # None ->
            [f EXCEPT !.form = "canonical", !.rev = CanonicalOf[f.rev], !.mode = mode, !.header = TRUE]
      [] OTHER -> [FreshConfig(mode) EXCEPT !.rollout = f.rollout]

StartInit(o, mode, preserve) ==
    /\ ConfigExists => InitOverwrites
    /\ preserve => ConfigExists /\ mode # "paper"
    /\ Begin(o, [NoCli EXCEPT !.cmd = IF preserve THEN "preserve" ELSE "init", !.stage = "write",
                              !.text = IF preserve THEN MergedConfig(mode, file) ELSE FreshConfig(mode)])
    /\ UNCHANGED <<databaseVars, file, sessions, before>>

---------------------------------------------------------------------------
(***************************************************************************)
(* status                                                                  *)
(***************************************************************************)

RolloutCovers(f) == FamiliesOf[f.rev] \subseteq f.rollout

\* Mutant: a session that never got past its start does not age.
ProjectedActiveWhileStarting(s) == s.state = "starting" \/ (s.state = "running" /\ s.fresh)

\* project_run_session_state: an active session that was not seen for a while is stale.
ProjectedActive(s) == s.state \in {"starting", "running"} /\ s.fresh

\* rollout_state_at_start: one approved family that is ready is enough.
RolloutAtStart(f) == f.rollout # {}

\* latest_relevant puts a fresh session of this config, revision and rollout state
\* before every other one.
RelevantActive(f) ==
    \E i \in DOMAIN sessions :
        sessions[i].text = f /\ RolloutAtStart(f) = RolloutCovers(f) /\ ProjectedActive(sessions[i])

\* live_start_blocking_run_session_id: the session that recorded the progress last,
\* whatever config it ran, or a relevant one.
StartBlocked(f) ==
    \/ activeSession \in DOMAIN sessions /\ ProjectedActive(sessions[activeSession])
    \/ RelevantActive(f)

\* evaluate, for a config that is not a paper one.  A restart hides the rollout state.
Readiness(f) ==
    IF f.form = "target_source" /\ f.rev = None
    THEN IF adoptables # {} THEN "AdoptableReady"
         ELSE IF candidates # {} THEN "DiscoveryReadyNotAdoptable" ELSE "DiscoveryRequired"
    ELSE IF ~StartupResolves(f) \/ FamiliesOf[f.rev] = {} THEN "Blocked"
    ELSE IF RestartNeeded(f) THEN "RestartRequired"
    ELSE IF RolloutCovers(f) THEN "ConfigReady" ELSE "RolloutRequired"

---------------------------------------------------------------------------
(***************************************************************************)
(* apply                                                                   *)
(***************************************************************************)

StartApply(o, start) ==
    /\ Begin(o, [NoCli EXCEPT !.cmd = "apply", !.stage = "migrate", !.start = start])
    /\ UNCHANGED <<databaseVars, file, sessions, before>>

\* maybe_migrate_apply_config and maybe_migrate_bootstrap_config: explicit targets
\* only; bootstrap leaves the ones of a live config alone.
MigrateFirst(o) ==
    /\ AtStage(o, "migrate")
    /\ LET back == IF cli[o].cmd = "apply" THEN "scenario" ELSE "detect" IN
       IF file.form = "explicit" /\ (cli[o].cmd = "apply" \/ file.mode = "smoke")
       THEN Call(o, "migrate", "candidate", MigratesTo(file), ConfiguredRevision(file), back)
       ELSE Step(o, back)
    /\ UNCHANGED <<databaseVars, file, sessions, ghostVars>>

\* execute: a paper config, and one that cannot be loaded, end it.
ApplyScenario(o) ==
    /\ AtStage(o, "scenario")
    /\ IF ~ConfigExists \/ file.mode = "paper" THEN Exit(o)
       ELSE cli' = [cli EXCEPT ![o].stage = "status", ![o].mode = file.mode]
    /\ UNCHANGED <<databaseVars, file, sessions, ghostVars>>

\* Mutant: a pending restart is taken for a config that is ready.
AfterStatusUnguarded(mode, f) ==
    CASE Readiness(f) = "AdoptableReady" /\ mode = "smoke" -> "adopt"
      [] Readiness(f) = "RolloutRequired" /\ mode = "smoke" -> "rollout"
      [] Readiness(f) \in {"ConfigReady", "RestartRequired"} -> "doctor"
      [] OTHER -> "exit"

\* Mutant: a restart that is needed sends a smoke config through rollout again.
AfterStatusRestarting(mode, f) ==
    CASE Readiness(f) = "AdoptableReady" /\ mode = "smoke" -> "adopt"
      [] Readiness(f) \in {"RolloutRequired", "RestartRequired"} /\ mode = "smoke" -> "rollout"
      [] Readiness(f) = "ConfigReady" -> "doctor"
      [] Readiness(f) = "RestartRequired" /\ mode = "live" /\ RolloutCovers(f) -> "doctor"
      [] OTHER -> "exit"

\* execute_live_apply and execute_smoke_apply: what apply does after status.  Only
\* smoke configs are adopted and rolled out inline.
AfterStatus(mode, f) ==
    LET lacksRollout ==
            \/ Readiness(f) = "RolloutRequired"
            \/ Readiness(f) = "RestartRequired" /\ ~RolloutCovers(f)
    IN  CASE Readiness(f) = "AdoptableReady" /\ mode = "smoke" -> "adopt"
          [] lacksRollout /\ mode = "smoke" -> "rollout"
          [] Readiness(f) \in {"ConfigReady", "RestartRequired"} /\ ~lacksRollout -> "doctor"
          [] OTHER -> "exit"

\* The summary is kept: the revisions, and the session that blocks a live start.
ApplyStatus(o) ==
    /\ AtStage(o, "status")
    /\ IF AfterStatus(cli[o].mode, file) = "exit" THEN Exit(o)
       ELSE cli' = [cli EXCEPT ![o].stage = AfterStatus(cli[o].mode, file),
                               ![o].rev = ConfiguredRevision(file), ![o].prev = progress,
                               ![o].blocked = ConfiguredRevision(file) # None /\ StartBlocked(file)]
    /\ UNCHANGED <<databaseVars, file, sessions, ghostVars>>

\* After the doctor: no start was asked for, a session blocks a live one, or the
\* operator declines at the restart boundary.
ApplyGate(o, confirmed) ==
    /\ AtStage(o, "gate")
    /\ IF cli[o].mode = "live" /\ cli[o].blocked THEN Exit(o)
       ELSE IF cli[o].prev \notin {None, cli[o].rev} /\ ~confirmed THEN Exit(o)
       ELSE Step(o, "run")
    /\ UNCHANGED <<databaseVars, file, sessions, ghostVars>>

---------------------------------------------------------------------------
(***************************************************************************)
(* bootstrap                                                               *)
(***************************************************************************)

StartBootstrap(o, start) ==
    /\ Begin(o, [NoCli EXCEPT !.cmd = "bootstrap", !.stage = IF ConfigExists THEN "migrate" ELSE "wizard",
                              !.start = start])
    /\ UNCHANGED <<databaseVars, file, sessions, before>>

\* complete_missing_config: the file that was missing when the command began is written.
CompleteMissingConfig(o, mode) ==
    /\ AtStage(o, "wizard")
    /\ file' = FreshConfig(mode)
    /\ Step(o, "migrate")
    /\ UNCHANGED <<databaseVars, sessions, ghostVars>>

\* detect_existing_bootstrap_mode.
BootstrapDetect(o) ==
    /\ AtStage(o, "detect")
    /\ LET next == IF file.mode = "paper" THEN "doctor"
                   ELSE IF file.mode = "live" \/ file.form \in {"explicit", "none"} THEN "exit"
                   ELSE IF file.rev # None THEN "doctor"
                   ELSE IF file.form = "target_source" THEN "adopt" ELSE "exit"
       IN  IF next = "exit" THEN Exit(o)
           ELSE cli' = [cli EXCEPT ![o].stage = next, ![o].mode = file.mode]
    /\ UNCHANGED <<databaseVars, file, sessions, ghostVars>>

\* inline_smoke_adoption: discover first if there is nothing to choose from.
InlineDiscover(o, r, adoptable) ==
    /\ AtStage(o, "adopt") /\ cli[o].cmd = "bootstrap"
    /\ candidates = {} /\ adoptables = {}
    /\ Call(o, IF adoptable THEN "discover" ELSE "advise", "candidate", r, None, "adopt")
    /\ UNCHANGED <<databaseVars, file, sessions, ghostVars>>

\* The operator picks an adoptable revision.
InlineAdopt(o, r) ==
    /\ AtStage(o, "adopt")
    /\ SelectsAdoptable(r)
    /\ Call(o, "adopt", "provenance", r, ConfiguredRevision(file),
            IF cli[o].cmd = "apply" THEN "status" ELSE "doctor")
    /\ UNCHANGED <<databaseVars, file, sessions, ghostVars>>

\* A prompt is declined, or there is nothing to pick.
Decline(o) ==
    /\ AtStage(o, "adopt") \/ AtStage(o, "rollout")
    /\ Exit(o)
    /\ UNCHANGED <<databaseVars, file, sessions, ghostVars>>

\* inline_smoke_rollout_enablement and ensure_smoke_rollout_state: the families are
\* the ones of the revision the file names now.
InlineRollout(o) ==
    /\ AtStage(o, "rollout")
    /\ StartupResolves(file)
    /\ IF cli[o].cmd = "bootstrap" /\ RolloutCovers(file) THEN Step(o, "start")
       ELSE Call(o, "rollout", "read", file.rev, None,
                 IF cli[o].cmd = "apply" THEN "status" ELSE "start")
    /\ UNCHANGED <<databaseVars, file, sessions, ghostVars>>

---------------------------------------------------------------------------
(***************************************************************************)
(* doctor and run                                                          *)
(***************************************************************************)

StartDoctor(o) ==
    /\ ConfigExists
    /\ Begin(o, [NoCli EXCEPT !.cmd = "doctor", !.stage = "doctor"])
    /\ UNCHANGED <<databaseVars, file, sessions, before>>

\* run_report: a live config has to resolve, and the venue to answer the probes.
\* It writes nothing.
Doctor(o, answered) ==
    /\ AtStage(o, "doctor")
    /\ IF file.mode # "paper" /\ ~(StartupResolves(file) /\ answered) THEN Exit(o)
       ELSE CASE cli[o].cmd = "doctor" \/ (cli[o].cmd = "apply" /\ ~cli[o].start) -> Exit(o)
              [] cli[o].cmd = "apply" /\ cli[o].start -> Step(o, "gate")
              [] cli[o].cmd = "bootstrap" -> Step(o, IF cli[o].mode = "smoke" THEN "rollout" ELSE "start")
    /\ UNCHANGED <<databaseVars, file, sessions, ghostVars>>

BootstrapStart(o) ==
    /\ AtStage(o, "start")
    /\ IF cli[o].start THEN Step(o, "run") ELSE Exit(o)
    /\ UNCHANGED <<databaseVars, file, sessions, ghostVars>>

StartRun(o) ==
    /\ ConfigExists
    /\ Begin(o, [NoCli EXCEPT !.cmd = "run", !.stage = "run"])
    /\ UNCHANGED <<databaseVars, file, sessions, before>>

\* run_from_config_path reads the file once; create_starting refuses an adopted
\* source without a revision.
CreateStarting(o) ==
    /\ AtStage(o, "run")
    /\ IF file.form \in {"canonical", "target_source", "mixed"} /\ file.rev = None
       THEN Exit(o) /\ UNCHANGED sessions
       ELSE /\ sessions' = Append(sessions, [text |-> file, state |-> "starting", fresh |-> TRUE])
            /\ cli' = [cli EXCEPT ![o].stage = "resolve", ![o].text = file,
                                  ![o].session = Len(sessions) + 1]
    /\ UNCHANGED <<databaseVars, file, ghostVars>>

\* transition_active_state: only a session that has not ended moves on.
MarkSession(i, state) ==
    sessions' = [sessions EXCEPT ![i] =
        IF sessions[i].state \in {"starting", "running"}
        THEN [sessions[i] EXCEPT !.state = state, !.fresh = TRUE] ELSE sessions[i]]

\* The revision is resolved and its backend built; what fails ends the session.
ResolveRun(o, built) ==
    /\ AtStage(o, "resolve")
    /\ IF cli[o].text.mode = "paper" THEN Step(o, "running") /\ UNCHANGED sessions
       ELSE IF StartupResolves(cli[o].text) /\ built
       THEN cli' = [cli EXCEPT ![o].stage = "progress", ![o].rev = cli[o].text.rev] /\ UNCHANGED sessions
       ELSE Exit(o) /\ MarkSession(cli[o].session, "failed")
    /\ UNCHANGED <<databaseVars, file, ghostVars>>

\* The daemon saves its progress under the revision, and its session with it.
RecordProgress(o) ==
    /\ AtStage(o, "progress")
    /\ progress' = cli[o].rev /\ activeSession' = cli[o].session
    /\ Step(o, "running")
    /\ UNCHANGED <<artifactVars, history, file, sessions, ghostVars>>

\* The session is marked running, and seen, when the daemon has returned.
MarkRunning(o) ==
    /\ AtStage(o, "running")
    /\ MarkSession(cli[o].session, "running")
    /\ Step(o, "exited")
    /\ UNCHANGED <<databaseVars, file, ghostVars>>

MarkExited(o) ==
    /\ AtStage(o, "exited")
    /\ MarkSession(cli[o].session, "exited")
    /\ Exit(o)
    /\ UNCHANGED <<databaseVars, file, ghostVars>>

\* Time passes: RUN_SESSION_STALE_AFTER since a session was last seen.
Age(i) ==
    /\ i \in DOMAIN sessions /\ sessions[i].fresh /\ sessions[i].state \in {"starting", "running"}
    /\ sessions' = [sessions EXCEPT ![i].fresh = FALSE]
    /\ UNCHANGED <<adoptionVars, activeSession>>

---------------------------------------------------------------------------
\* What a command does once it has begun.
WorkflowStep(o) ==
    \/ AdoptionStep(o) /\ UNCHANGED <<sessions, activeSession>>
    \/ MigrateFirst(o) \/ ApplyScenario(o) \/ ApplyStatus(o)
    \/ \E confirmed \in BOOLEAN : ApplyGate(o, confirmed)
    \/ \E mode \in {"paper", "smoke"} : CompleteMissingConfig(o, mode)
    \/ BootstrapDetect(o)
    \/ \E r \in Discovered, adoptable \in BOOLEAN : InlineDiscover(o, r, adoptable)
    \/ \E r \in Revision : InlineAdopt(o, r)
    \/ Decline(o) \/ InlineRollout(o)
    \/ \E answered \in BOOLEAN : Doctor(o, answered)
    \/ BootstrapStart(o) \/ CreateStarting(o)
    \/ \E built \in BOOLEAN : ResolveRun(o, built)
    \/ RecordProgress(o) \/ MarkRunning(o) \/ MarkExited(o)

WorkflowNext ==
    \/ \E o \in Operator :
        \/ AdoptionNext(o) /\ UNCHANGED <<sessions, activeSession>>
        \/ \E mode \in {"paper", "live", "smoke"}, preserve \in BOOLEAN : StartInit(o, mode, preserve)
        \/ \E start \in BOOLEAN : StartApply(o, start) \/ StartBootstrap(o, start)
        \/ StartDoctor(o) \/ StartRun(o)
        \/ WorkflowStep(o)
    \/ \E i \in 1 .. MaxCommand : Age(i)

\* A command goes on until it ends (a prompt is answered), and time passes.
WorkflowSpec ==
    /\ WorkflowInit /\ [][WorkflowNext]_workflowVars
    /\ \A o \in Operator : WF_workflowVars(WorkflowStep(o))
    /\ \A i \in 1 .. MaxCommand : WF_workflowVars(Age(i))

---------------------------------------------------------------------------
(***************************************************************************)
(* Properties                                                              *)
(***************************************************************************)

\* A runtime that apply or bootstrap starts has a revision that resolves and a
\* rollout that covers its families, whatever was adopted, rolled back or left half
\* done before; two commands at once can still change the file in between.
ApplyStartsReady ==
    \A o \in Operator :
        /\ ~overlapped /\ cli[o].cmd \in {"apply", "bootstrap"}
        /\ cli[o].stage \in {"resolve", "progress"} /\ cli[o].text.mode # "paper"
        => StartupResolves(cli[o].text) /\ RolloutCovers(cli[o].text)

\* Every command ends: the loop of apply through status, adoption and rollout runs
\* out, also when another command rewrites the file under it.
CommandsEnd == \A o \in Operator : ~Idle(o) ~> Idle(o)

\* No session blocks live starts for ever, the one of a process that was killed
\* included.
SessionsRelease == []<>(\A i \in DOMAIN sessions : ~ProjectedActive(sessions[i]))

\* "when an existing startup-scoped target anchor is already present in the config
\* file, the wizard preserves it": init over a config that starts, told to preserve
\* it, leaves one that starts.
InitKeepsAnchor ==
    [][\A o \in Operator :
          cli[o].cmd = "preserve" /\ Idle(o)' /\ file' = cli[o].text /\ ~overlapped
          => (StartupResolves(file) => StartupResolves(file)')]_workflowVars
=============================================================================
