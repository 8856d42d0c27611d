------------------------------- MODULE Verify -------------------------------
(***************************************************************************)
(* app-live verify (crates/app-live/src/commands/verify): it picks a run   *)
(* session for the window the operator asks for, loads the evidence of     *)
(* that window by one query after another while runs go on recording, and  *)
(* judges it.                                                              *)
(*                                                                         *)
(* What the status of the config says (scenario, rollout, alignment of the *)
(* active revision, relevant session, routes of the configured revision)   *)
(* is an input.  The journal belongs to FamilyView: which sessions a       *)
(* window of it names, and whether it is empty, are inputs too.            *)
(***************************************************************************)
EXTENDS ExecutionRecords

CONSTANTS
    VerifyAsk,      \* context: scenario, expectation, legacy, rollout, aligned, relevant;
                    \* window: kind, attempt, since; routes of the revision, or {}
    VerifySession,  \* run sessions
    RecentLimit     \* DEFAULT_RECENT_ATTEMPTS_LIMIT

ASSUME VerifyAssumption ==
    \A ask \in VerifyAsk :
        /\ ask.context.scenario \in {"paper", "live", "smoke"}
        /\ ask.window.kind \in {"latest", "attempt", "since", "seq"}

VARIABLE verify     \* the verify of this behaviour; it writes nothing, so one is enough

verifyVars == <<recordVars, verify>>

NoVerify == [stage |-> "idle"]

---------------------------------------------------------------------------
(***************************************************************************)
(* Selecting                                                               *)
(***************************************************************************)

IsHistoricalExplicit(w) == w.kind # "latest"

\* resolve_unique_for_attempt_id and resolve_unique_for_since: the one session of
\* the attempts; only without any does the journal decide, which alone decides for
\* a range of it.
HistoricalSessions(w, journalSessions) ==
    LET ofAttempts(rows) == {a.attempt.session : a \in {x \in rows : x.attempt.session # None}}
        since == ofAttempts(ListCreatedSince(w.since))
    IN  CASE w.kind = "attempt" -> ofAttempts(AttemptsWithId(attemptRows, w.attempt))
          [] w.kind = "since" -> IF since # {} THEN since ELSE journalSessions
          [] w.kind = "seq" -> journalSessions
          [] OTHER -> {}

HistoricalSession(w, journalSessions) ==
    LET found == HistoricalSessions(w, journalSessions)
    IN  IF Cardinality(found) = 1 THEN CHOOSE s \in found : TRUE ELSE None

\* selected_session_id.
SelectedSession(ctx, w, historical) ==
    IF IsHistoricalExplicit(w) THEN historical ELSE ctx.relevant

RouteIsActive(route, routes) == routes = {} \/ route \in routes

FilterByActiveRoutes(rows, routes) == {a \in rows : RouteIsActive(a.attempt.route, routes)}

\* list_recent_by_mode_for_active_routes: the limit is per route.
RecentForActiveRoutes(mode, routes, n) ==
    IF routes = {} THEN ListRecentByMode(mode, n)
    ELSE UNION {ListRecentByModeAndRoute(mode, route, n) : route \in routes}

\* select_latest_smoke_run_attempts, and the newest attempt of each scope.
LatestSmokeAttempts(routes) ==
    LET latest == RecentOf(RecentForActiveRoutes("shadow", routes, 1), 1)
        run == UNION {ListBySnapshotId(a.attempt.snapshot) : a \in latest}
        shadow == {a \in FilterByActiveRoutes(run, routes) : a.attempt.mode = "shadow"}
    IN  {a \in shadow : \A b \in shadow : b.attempt.scope = a.attempt.scope => NewerAttempt(a, b)}

\* select_attempts.
AttemptsToVerify(ctx, w, session, routes) ==
    CASE session # None -> FilterByActiveRoutes(ListByRunSessionId(session), routes)
      [] session = None /\ w.kind = "latest" ->
             (CASE ctx.scenario = "paper" -> {}
                [] ctx.scenario = "live" -> RecentForActiveRoutes("live", routes, RecentLimit)
                [] ctx.scenario = "smoke" -> LatestSmokeAttempts(routes))
      [] session = None /\ w.kind = "attempt" -> FilterByActiveRoutes(AttemptsWithId(attemptRows, w.attempt), routes)
      [] session = None /\ w.kind = "since" -> FilterByActiveRoutes(ListCreatedSince(w.since), routes)
      [] session = None /\ w.kind = "seq" -> {}

\* select_observed_live_attempts.
ObservedLive(ctx, w, session, routes, selected) ==
    CASE session # None -> {a \in selected : a.attempt.mode = "live"}
      [] session = None /\ w.kind = "latest" /\ ctx.scenario = "paper" ->
             RecentForActiveRoutes("live", routes, RecentLimit)
      [] session = None /\ w.kind = "latest" /\ ctx.scenario = "smoke" ->
             FilterByActiveRoutes(ListAttemptsByMode("live"), routes)
      [] OTHER -> {}

\* select_observed_shadow_attempts.
ObservedShadow(ctx, w, session, routes, selected) ==
    CASE session # None -> {a \in selected : a.attempt.mode = "shadow"}
      [] session = None /\ w.kind = "latest" /\ ctx.scenario = "live" ->
             RecentForActiveRoutes("shadow", routes, RecentLimit)
      [] OTHER -> {}

\* load_replay_shadow_attempt_artifacts: the neg-risk shadow attempts with their
\* artifacts; when nothing is selected, a smoke verify takes all of them.
ReplayRows(ctx, w, selected) ==
    LET rows == {[attempt |-> a.attempt,
                  artifacts |-> {x \in Range(shadowArtifacts) : x.attempt = a.attempt.id}] :
                 a \in {x \in ListAttemptsByMode("shadow") : x.attempt.route = "neg-risk"}}
    IN  IF selected = {}
        THEN IF w.kind = "latest" /\ ctx.scenario = "smoke" THEN rows ELSE {}
        ELSE {r \in rows : AttemptsWithId(selected, r.attempt.id) # {}}

---------------------------------------------------------------------------
(***************************************************************************)
(* Judging                                                                 *)
(***************************************************************************)

ShadowIn(ev) == {a.attempt.id : a \in {x \in ev.selected : x.attempt.mode = "shadow"}}
LiveIn(ev) == {a.attempt.id : a \in {x \in ev.selected : x.attempt.mode = "live"}}
Ids(rows) == {a.attempt.id : a \in rows}

\* smoke_live_attempt_count and paper_live_attempt_count, live_shadow_attempt_count.
ForbiddenLive(ev) == Ids(ev.live) \cup LiveIn(ev)
ForbiddenShadow(ev) == Ids(ev.shadow) \cup ShadowIn(ev)

ReplayedWithArtifacts(ev) == {r.attempt.id : r \in {x \in ev.replay : x.artifacts # {}}}

\* shadow_attempts_have_consistent_artifacts.
ConsistentArtifacts(ev) ==
    IF ShadowIn(ev) = {} THEN ReplayedWithArtifacts(ev) # {}
    ELSE ShadowIn(ev) \subseteq {x.attempt : x \in ev.shadowArtifacts} \cup ReplayedWithArtifacts(ev)

\* evaluate_live_outcome.
LiveVerdict(ctx, ev) ==
    IF ForbiddenShadow(ev) # {} \/ (LiveIn(ev) = {} /\ ev.liveRecords = {}) THEN "fail"
    ELSE IF ctx.rollout = "ready" /\ ctx.aligned THEN "pass" ELSE "warn"

\* evaluate_smoke_outcome.
SmokeVerdict(ctx, ev) ==
    CASE ForbiddenLive(ev) # {} \/ ev.liveRecords # {} -> "fail"
      [] ForbiddenLive(ev) = {} /\ ev.liveRecords = {} ->
            (IF ShadowIn(ev) = {} /\ ReplayedWithArtifacts(ev) = {} THEN "fail"
             ELSE IF ConsistentArtifacts(ev) THEN "pass"
             ELSE IF ctx.rollout = "required" THEN "warn" ELSE "fail")

\* evaluate_paper_outcome.
PaperVerdict(ev) == IF ForbiddenLive(ev) # {} THEN "fail" ELSE "warn"

ModeVerdict(ctx, ev) ==
    CASE ctx.scenario = "paper" -> PaperVerdict(ev)
      [] ctx.scenario = "smoke" -> SmokeVerdict(ctx, ev)
      [] ctx.scenario = "live" -> LiveVerdict(ctx, ev)

\* evaluate_noncomparable_historical_outcome.
NoncomparableVerdict(ctx, ev) ==
    CASE ctx.scenario = "paper" -> PaperVerdict(ev)
      [] ctx.scenario = "smoke" ->
             (IF ForbiddenLive(ev) # {} \/ ev.liveRecords # {} \/ (ShadowIn(ev) = {} /\ ev.replay = {})
              THEN "fail" ELSE "warn")
      [] ctx.scenario = "live" ->
             (IF ForbiddenShadow(ev) # {} \/ (LiveIn(ev) = {} /\ ev.liveRecords = {} /\ ~ev.journal)
              THEN "fail" ELSE "warn")

\* derive_auto_expectation; incompatible_expectation_outcome refuses any other.
ExpectationOf(scenario) ==
    CASE scenario = "paper" -> "paper-no-live"
      [] scenario = "smoke" -> "smoke-shadow-only"
      [] scenario = "live" -> "live-config-consistent"

Refused(ctx) == ctx.legacy \/ ctx.expectation # ExpectationOf(ctx.scenario)

\* evaluate_foundation_outcome.
FoundationVerdict(ctx, comparable, ev) ==
    IF Refused(ctx) THEN "fail"
    ELSE IF comparable THEN ModeVerdict(ctx, ev) ELSE NoncomparableVerdict(ctx, ev)

\* window_for_route.
WindowForRoute(ev, route) ==
    LET of(rows) == {a \in rows : a.attempt.route = route}
        ids == Ids(of(ev.selected) \cup of(ev.live) \cup of(ev.shadow))
    IN  [ev EXCEPT !.selected = of(@), !.live = of(@), !.shadow = of(@), !.replay = of(@),
                   !.shadowArtifacts = {x \in @ : x.attempt \in ids},
                   !.liveRecords = {x \in @ : IF x.table = "live_submission_records"
                                              THEN x.route = route ELSE x.attempt \in ids}]

HasLocalEvidence(ev) ==
    \/ ev.selected # {} \/ ev.live # {} \/ ev.shadow # {} \/ ev.replay # {}
    \/ ev.shadowArtifacts # {} \/ ev.liveRecords # {}

\* route_verdict_reports: the verdicts per route that is active, or that has evidence.
RouteVerdicts(ctx, comparable, routes, ev) ==
    LET withEvidence == {a.attempt.route : a \in ev.selected \cup ev.live \cup ev.shadow \cup ev.replay}
        judged == IF routes = {} THEN withEvidence ELSE routes
        reported == {r \in judged : ctx.scenario = "live" \/ HasLocalEvidence(WindowForRoute(ev, r))}
    IN  IF Refused(ctx) \/ ~comparable \/ ctx.scenario = "paper" THEN {}
        ELSE {IF HasLocalEvidence(WindowForRoute(ev, r)) THEN ModeVerdict(ctx, WindowForRoute(ev, r))
              ELSE "warn" : r \in reported}

\* aggregate_verdicts: the worst one.
AggregateVerdicts(verdicts) ==
    IF "fail" \in verdicts THEN "fail" ELSE IF "warn" \in verdicts THEN "warn" ELSE "pass"

\* evaluate_outcome_with_route_reports.
Verdict(ctx, comparable, routes, ev) ==
    AggregateVerdicts({FoundationVerdict(ctx, comparable, ev)} \cup RouteVerdicts(ctx, comparable, routes, ev))

---------------------------------------------------------------------------
(***************************************************************************)
(* The queries of a verify                                                 *)
(***************************************************************************)

VerifyInit == RecordsInit /\ verify = NoVerify

NoEvidence == [selected |-> {}, live |-> {}, shadow |-> {}, replay |-> {}, shadowArtifacts |-> {},
               liveRecords |-> {}, journal |-> FALSE]

\* execute, resolve_session_window and load_active_routes: without a unique session
\* a historical window is not comparable with the config, and neither is one whose
\* revision no longer resolves (no routes).
StartVerify(ask, journalSessions) ==
    /\ verify.stage = "idle"
    /\ LET w == ask.window
           historical == HistoricalSession(w, journalSessions)
       IN  verify' = [stage |-> "attempts", context |-> ask.context, window |-> w, routes |-> ask.routes,
                      session |-> SelectedSession(ask.context, w, historical),
                      comparable |-> ~IsHistoricalExplicit(w) \/ (historical # None /\ ask.routes # {}),
                      evidence |-> [NoEvidence EXCEPT !.journal =
                                       w.kind \in {"seq", "since"} /\ journalSessions # {}],
                      verdict |-> None]
    /\ UNCHANGED recordVars

LoadEvidence(stage, next, evidence) ==
    /\ verify.stage = stage
    /\ verify' = [verify EXCEPT !.stage = next, !.evidence = evidence]
    /\ UNCHANGED recordVars

LoadSelected ==
    LoadEvidence("attempts", "observed",
        [verify.evidence EXCEPT !.selected =
            AttemptsToVerify(verify.context, verify.window, verify.session, verify.routes)])

LoadObserved ==
    LoadEvidence("observed", "replay",
        [verify.evidence EXCEPT
            !.live = ObservedLive(verify.context, verify.window, verify.session, verify.routes, verify.evidence.selected),
            !.shadow = ObservedShadow(verify.context, verify.window, verify.session, verify.routes, verify.evidence.selected)])

LoadReplay ==
    LoadEvidence("replay", "shadow_artifacts",
        [verify.evidence EXCEPT !.replay =
            ReplayRows(verify.context, verify.window, verify.evidence.selected)])

EvidenceIds == Ids(verify.evidence.selected \cup verify.evidence.live \cup verify.evidence.shadow)

LoadShadowArtifacts ==
    LoadEvidence("shadow_artifacts", "live_records",
        [verify.evidence EXCEPT !.shadowArtifacts =
            {x \in Range(shadowArtifacts) : x.attempt \in EvidenceIds}])

\* The artifacts and submissions of the attempts, and the verdict.
LoadLiveRecordsAndJudge ==
    /\ verify.stage = "live_records"
    /\ LET rows == {x \in liveRecords : x.table # "pending_reconcile_items" /\ x.attempt \in EvidenceIds}
           ev == [verify.evidence EXCEPT !.liveRecords = rows]
       IN  verify' = [verify EXCEPT !.stage = "done", !.evidence = ev,
                         !.verdict = Verdict(verify.context, verify.comparable, verify.routes, ev)]
    /\ UNCHANGED recordVars

VerifyNext ==
    \/ RecordsNext /\ UNCHANGED verify
    \/ \E ask \in VerifyAsk, sessions \in SUBSET VerifySession :
           /\ ask.window.kind \in {"latest", "attempt"} => sessions = {}
           /\ StartVerify(ask, sessions)
    \/ LoadSelected \/ LoadObserved \/ LoadReplay \/ LoadShadowArtifacts \/ LoadLiveRecordsAndJudge

VerifySpec == VerifyInit /\ [][VerifyNext]_verifyVars

---------------------------------------------------------------------------
(***************************************************************************)
(* Properties                                                              *)
(***************************************************************************)

\* A smoke verify that finds shadow attempts and no live side effect passes: its
\* queries run while batches are being recorded, by several runs at once, and
\* still never see an attempt without its artifacts, which evaluate_smoke_outcome
\* would call a failure, nor an artifact twice, though no index forbids it and
\* append_shadow_execution_artifact_idempotent selects before it inserts.
ShadowEvidenceIsWhole ==
    /\ verify.stage = "done" =>
        LET ev == verify.evidence IN
        /\ verify.context.scenario = "smoke" /\ verify.comparable /\ ~Refused(verify.context)
        /\ ShadowIn(ev) # {} /\ ForbiddenLive(ev) = {} /\ ev.liveRecords = {}
        => verify.verdict = "pass"
    /\ \A i, j \in DOMAIN shadowArtifacts :
        /\ shadowArtifacts[i].attempt = shadowArtifacts[j].attempt
        /\ shadowArtifacts[i].stream = shadowArtifacts[j].stream
        => i = j
=============================================================================
