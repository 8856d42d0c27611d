----------------------------- MODULE Discovery -----------------------------
(***************************************************************************)
(* From discovered families to persisted strategy revisions                *)
(* (crates/app-live/src/discovery.rs, commands/discover.rs, task_groups.rs *)
(* and queues.rs): the daemon and the discover command, two processes, each *)
(* turn a publication of discovery records into a notice, the notice into  *)
(* a candidate set and, if every target of it is adoptable, an adoptable   *)
(* revision, and write both.                                               *)
(*                                                                         *)
(* Revisions are digests of the sorted route artifacts and are represented *)
(* by the set of them; a digest is represented by what it digests.         *)
(***************************************************************************)
EXTENDS Option, Sequences, SequencesExt, FiniteSets

CONSTANTS
    DiscoveredFamily,   \* families of the venue; "" is a blank one
    MaxDiscoveryRuns    \* bound: notices processed

ASSUME DiscoveryAssumption == MaxDiscoveryRuns \in Nat

DiscoveryProcess == {"daemon", "discover"}

VARIABLES
    discoveryRecords,  \* the daemon's records: families discovered, and those backfilled
    liveTargets,       \* the daemon's neg_risk_live_targets
    persisting,        \* what each process has still to write
    candidateRows,     \* strategy_candidate_sets, by revision
    adoptableRows,     \* adoptable_strategy_revisions, by revision
    discoverRefreshes, \* discover_refresh_history
    routeDiffs,        \* what the last discover reported
    upsertConflicts,   \* kinds of row an upsert found with another content
    discoveryRuns      \* notices processed

discoveryVars == <<discoveryRecords, liveTargets, persisting, candidateRows, adoptableRows,
                   discoverRefreshes, routeDiffs, upsertConflicts, discoveryRuns>>

---------------------------------------------------------------------------
(***************************************************************************)
(* Candidate validation                                                    *)
(***************************************************************************)

\* validation_for_record.
ValidationForRecord(family, backfilled, authoritative) ==
    IF ~authoritative /\ ~backfilled THEN "deferred"
    ELSE IF family = "" THEN "excluded" ELSE "adoptable"

\* candidate_set_from_publication: a target for each record.
CandidateTargets(records, authoritative) ==
    [f \in records.discovered |-> ValidationForRecord(f, f \in records.backfilled, authoritative)]

\* apply_candidate_restriction: a restriction defers what was adoptable; an
\* advisory is a warning only.
ApplyCandidateRestriction(targets, restriction) ==
    [f \in DOMAIN targets |->
        IF restriction = "restricted" /\ targets[f] = "adoptable" THEN "deferred" ELSE targets[f]]

\* Mutant: one adoptable target makes the set adoptable.
AggregateDispositionAny(targets) ==
    IF \E f \in DOMAIN targets : targets[f] = "adoptable" THEN "adoptable" ELSE "deferred"

\* ValidationSummary::aggregate_disposition: all adoptable, or else.
AggregateDisposition(targets) ==
    LET results == {targets[f] : f \in DOMAIN targets}
    IN  CASE results = {"adoptable"} -> "adoptable"
          [] "excluded" \in results -> "excluded"
          [] OTHER -> "deferred"

---------------------------------------------------------------------------
(***************************************************************************)
(* Rendering                                                               *)
(***************************************************************************)

FullSetRouteArtifact(basis) == [route |-> "full-set", scope |-> "default", content |-> basis]

\* neg_risk_route_artifact: the content has the family, the target's rendering, if
\* there is one, and its validation.
NegRiskRouteArtifact(family, validation, rendered) ==
    [route |-> "neg-risk", scope |-> IF family = "" THEN "target:" ELSE family,
     content |-> <<family, family \in rendered, validation>>]

\* route_artifacts: sorted by key, so a set.
RouteArtifacts(targets, rendered, basis) ==
    {FullSetRouteArtifact(basis)}
        \cup {NegRiskRouteArtifact(f, targets[f], rendered) : f \in DOMAIN targets}

\* bundle_revision: the keys and semantic digests of the artifacts.
BundleRevision(artifacts) == artifacts

\* render_candidate_with_full_set_basis.
RenderCandidate(targets, rendered, basis) ==
    LET artifacts == RouteArtifacts(targets, rendered, basis)
    IN  [revision |-> BundleRevision(artifacts), route_artifacts |-> artifacts, targets |-> targets]

\* render_with_full_set_basis: the payload also has the live targets rendered,
\* of families in and out of the candidate set.
RenderAdoptable(targets, rendered, basis) ==
    LET artifacts == RouteArtifacts(targets, rendered, basis)
    IN  [revision |-> BundleRevision(artifacts), candidate |-> BundleRevision(artifacts),
         rendered_live_targets |-> rendered]

\* process_notice: nothing for a notice about something else, a candidate, or
\* a candidate and an adoptable revision.
ProcessNotice(notice) ==
    LET targets == ApplyCandidateRestriction(
                       CandidateTargets(notice.records, notice.authoritative), notice.restriction)
    IN  IF ~notice.dirty \/ notice.records.discovered = {}
        THEN [candidate |-> None, adoptable |-> None]
        ELSE [candidate |-> RenderCandidate(targets, notice.rendered, notice.basis),
              adoptable |-> IF AggregateDisposition(targets) = "adoptable"
                            THEN RenderAdoptable(targets, notice.rendered, notice.basis) ELSE None]

\* route_diffs: what changed between two candidate sets, by key.
RouteDiffs(previous, current) ==
    LET Digests(set) == {<<a.route, a.scope>> : a \in set}
    IN  {<<IF <<a.route, a.scope>> \in Digests(previous) THEN "changed" ELSE "added", a.scope>> :
            a \in current \ previous}
        \cup {<<"removed", a.scope>> :
            a \in {x \in previous : <<x.route, x.scope>> \notin Digests(current)}}

---------------------------------------------------------------------------
(***************************************************************************)
(* Actions                                                                 *)
(***************************************************************************)

Nothing == [stage |-> "idle"]
NoRecords == [discovered |-> {}, backfilled |-> {}]

DiscoveryInit ==
    /\ discoveryRecords = NoRecords
    /\ liveTargets \in SUBSET (DiscoveredFamily \ {""})
    /\ persisting = [p \in DiscoveryProcess |-> Nothing]
    /\ candidateRows = {} /\ adoptableRows = {}
    /\ discoverRefreshes = <<>> /\ routeDiffs = {} /\ upsertConflicts = {}
    /\ discoveryRuns = 0

\* What a process has to write for a notice, if anything.
RowsOf(notice) ==
    LET outcome == ProcessNotice(notice)
    IN  IF outcome.candidate = None THEN Nothing
        ELSE [stage |-> "candidate", candidate |-> outcome.candidate, adoptable |-> outcome.adoptable]

\* materialize_candidate_artifacts_with_authority: a notice of what is known now,
\* with the live targets the daemon was started with; the daemon waits for its
\* rows to be written.
MaterializeCandidates(records, authoritative) ==
    /\ discoveryRuns < MaxDiscoveryRuns /\ persisting["daemon"] = Nothing
    /\ discoveryRuns' = discoveryRuns + 1
    /\ persisting' = [persisting EXCEPT !["daemon"] =
            RowsOf([records |-> records, authoritative |-> authoritative, rendered |-> liveTargets,
                    restriction |-> "eligible", dirty |-> TRUE, basis |-> "default"])]
    /\ UNCHANGED <<liveTargets, candidateRows, adoptableRows, discoverRefreshes, routeDiffs,
                   upsertConflicts>>

\* drain_input_tasks: one discovery or backfill input, for a family that may be
\* known already, and a notice for it; a backfill that comes first waits for its
\* family.
DrainDiscoveryInput(f) ==
    /\ \/ discoveryRecords' = [discoveryRecords EXCEPT !.discovered = @ \cup {f}]
       \/ discoveryRecords' = [discoveryRecords EXCEPT !.backfilled = @ \cup {f}]
    /\ MaterializeCandidates(discoveryRecords', FALSE)

\* drain_input_tasks_authoritative_discovery: every input, and one notice.
DrainAuthoritativeDiscovery(families) ==
    /\ families # {}
    /\ discoveryRecords' = [discoveryRecords EXCEPT !.discovered = @ \cup families]
    /\ MaterializeCandidates(discoveryRecords', TRUE)

\* The daemon stops, wherever it is, and is started with the targets of the
\* revision that is adopted by then.
RestartDaemon(targets) ==
    /\ liveTargets' = targets
    /\ discoveryRecords' = NoRecords
    /\ persisting' = [persisting EXCEPT !["daemon"] = Nothing]
    /\ UNCHANGED <<candidateRows, adoptableRows, discoverRefreshes, routeDiffs, upsertConflicts,
                   discoveryRuns>>

\* run_discover_from_config: authoritative_discovery_batch renders every family
\* of the metadata, and authoritative_candidate_publication has a store of its own.
RunDiscover(families) ==
    /\ discoveryRuns < MaxDiscoveryRuns /\ persisting["discover"] = Nothing
    /\ families # {}
    /\ discoveryRuns' = discoveryRuns + 1
    /\ persisting' = [persisting EXCEPT !["discover"] =
            RowsOf([records |-> [discovered |-> families, backfilled |-> {}],
                    authoritative |-> TRUE, rendered |-> families,
                    restriction |-> "eligible", dirty |-> TRUE, basis |-> "operator"])]
    /\ UNCHANGED <<discoveryRecords, liveTargets, candidateRows, adoptableRows,
                   discoverRefreshes, routeDiffs, upsertConflicts>>

\* An upsert of a content-addressed row: the same one again is no change, a
\* different one of the same revision an error, which ends the process's work.
Upsert(p, rows, row, kind, next) ==
    IF \E r \in rows : r.revision = row.revision /\ r # row
    THEN /\ upsertConflicts' = upsertConflicts \cup {kind}
         /\ persisting' = [persisting EXCEPT ![p] = Nothing]
    ELSE /\ persisting' = [persisting EXCEPT ![p].stage = next]
         /\ UNCHANGED upsertConflicts

UpsertStrategyCandidateSet(p) ==
    /\ persisting[p].stage = "candidate"
    /\ LET row == persisting[p].candidate
       IN  /\ Upsert(p, candidateRows, row, "candidate", "adoptable")
           /\ candidateRows' = IF \E r \in candidateRows : r.revision = row.revision
                               THEN candidateRows ELSE candidateRows \cup {row}
    /\ UNCHANGED <<discoveryRecords, liveTargets, adoptableRows, discoverRefreshes,
                   routeDiffs, discoveryRuns>>

UpsertAdoptableStrategyRevision(p) ==
    /\ persisting[p].stage = "adoptable"
    /\ LET row == persisting[p].adoptable
       IN  IF row = None
           THEN /\ persisting' = [persisting EXCEPT ![p].stage = "written"]
                /\ UNCHANGED <<adoptableRows, upsertConflicts>>
           ELSE /\ Upsert(p, adoptableRows, row, "adoptable", "written")
                /\ adoptableRows' = IF \E r \in adoptableRows : r.revision = row.revision
                                    THEN adoptableRows ELSE adoptableRows \cup {row}
    /\ UNCHANGED <<discoveryRecords, liveTargets, candidateRows, discoverRefreshes,
                   routeDiffs, discoveryRuns>>

\* append_discover_refresh and route_diffs_from_previous_bundle, for discover
\* only; the daemon has its report.
FinishPersisting(p) ==
    /\ persisting[p].stage = "written"
    /\ persisting' = [persisting EXCEPT ![p] = Nothing]
    /\ IF p = "daemon" THEN UNCHANGED <<discoverRefreshes, routeDiffs>>
       ELSE /\ discoverRefreshes' = Append(discoverRefreshes, persisting[p].candidate.revision)
            /\ routeDiffs' = IF discoverRefreshes = <<>> THEN {}
                             ELSE RouteDiffs(Last(discoverRefreshes),
                                             persisting[p].candidate.route_artifacts)
    /\ UNCHANGED <<discoveryRecords, liveTargets, candidateRows, adoptableRows,
                   upsertConflicts, discoveryRuns>>

\* The discover command stops between two writes.
StopDiscover ==
    /\ persisting["discover"] # Nothing
    /\ persisting' = [persisting EXCEPT !["discover"] = Nothing]
    /\ UNCHANGED <<discoveryRecords, liveTargets, candidateRows, adoptableRows, discoverRefreshes,
                   routeDiffs, upsertConflicts, discoveryRuns>>

DiscoveryNext ==
    \/ \E f \in DiscoveredFamily : DrainDiscoveryInput(f)
    \/ \E families \in SUBSET DiscoveredFamily :
        \/ DrainAuthoritativeDiscovery(families)
        \/ RunDiscover(families)
    \/ \E targets \in SUBSET (DiscoveredFamily \ {""}) : RestartDaemon(targets)
    \/ \E p \in DiscoveryProcess :
        \/ UpsertStrategyCandidateSet(p)
        \/ UpsertAdoptableStrategyRevision(p)
        \/ FinishPersisting(p)
    \/ StopDiscover

DiscoverySpec == DiscoveryInit /\ [][DiscoveryNext]_discoveryVars

---------------------------------------------------------------------------
(***************************************************************************)
(* Properties                                                              *)
(***************************************************************************)

\* What an operator may adopt was vetted: whatever the daemon and discover
\* write in turn, and wherever one of them stops, an adoptable revision has its
\* candidate set in the store, every target of that set is adoptable and names
\* a family, and no candidate set is refused for a revision it shares with
\* another (process_notice, persist_notice_for_runtime and the upserts).
AdoptableIsVetted ==
    /\ \A a \in adoptableRows : \E c \in candidateRows :
          /\ c.revision = a.candidate
          /\ \A f \in DOMAIN c.targets : c.targets[f] = "adoptable" /\ f # ""
    /\ "candidate" \notin upsertConflicts
=============================================================================
