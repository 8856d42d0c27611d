---------------------------- MODULE VenueProofs ----------------------------
(***************************************************************************)
(* Proofs about what faces the venue, for every set of inputs, listings    *)
(* and families and every bound: the monitors and the events of its        *)
(* sessions, the execution of plans, metadata discovery, and the strategy  *)
(* revisions that are made of what is discovered.                          *)
(***************************************************************************)
EXTENDS VenueSessions, Execution, Metadata, Discovery, PolicyReports, SequenceTheorems,
        FiniteSetTheorems, TLAPS

---------------------------------------------------------------------------
(***************************************************************************)
(* The monitors of the sessions                                            *)
(***************************************************************************)

\* The attentions of a monitor that were raised and not recovered.
OpenAttentions(attention) == IF attention THEN 1 ELSE 0

ChannelOK(channel, cleared) ==
    /\ channel = [x \in {"last_message_at", "stale_since", "attention", "reports"} |-> channel[x]]
    /\ channel.reports \in Int
    /\ channel.reports - cleared = OpenAttentions(channel.attention)

HeartbeatOK(group, cleared) ==
    /\ group = [x \in {"now", "heartbeat_id", "last_success_at", "attention", "next_journal_seq"} |->
                   group[x]]
    /\ group.next_journal_seq \in Int
    /\ group.next_journal_seq - 1 - cleared = OpenAttentions(group.attention)

MonitorOK(channel, group, cleared) ==
    /\ cleared = [x \in {"channel", "heartbeat"} |-> cleared[x]]
    /\ cleared.channel \in Int /\ cleared.heartbeat \in Int
    /\ ChannelOK(channel, cleared.channel)
    /\ HeartbeatOK(group, cleared.heartbeat)

MonitorInv == MonitorOK(channelState, heartbeatGroup, recoveries)

\* raise_attention counts the attention it raises, and only that one.
LEMMA RaiseAttentionOK ==
    ASSUME NEW group, NEW cleared \in Int, HeartbeatOK(group, cleared)
    PROVE  HeartbeatOK(RaiseAttention(group), cleared)
<1>1. CASE group.attention
  BY <1>1 DEF RaiseAttention
<1>2. CASE ~group.attention
  <2> DEFINE g == [group EXCEPT !.attention = TRUE, !.next_journal_seq = @ + 1]
  <2>1. /\ g = [x \in {"now", "heartbeat_id", "last_success_at", "attention", "next_journal_seq"} |-> g[x]]
        /\ g.attention = TRUE /\ g.next_journal_seq = group.next_journal_seq + 1
    BY DEF HeartbeatOK
  <2>2. RaiseAttention(group) = g
    BY <1>2 DEF RaiseAttention
  <2> HIDE DEF g
  <2>3. group.next_journal_seq \in Int /\ group.next_journal_seq - 1 - cleared = 0
    BY <1>2 DEF HeartbeatOK, OpenAttentions
  <2>4. g.next_journal_seq \in Int /\ g.next_journal_seq - 1 - cleared = 1
    BY <2>1, <2>3
  <2>5. OpenAttentions(g.attention) = 1
    BY <2>1 DEF OpenAttentions
  <2> QED BY <2>1, <2>2, <2>4, <2>5 DEF HeartbeatOK
<1> QED BY <1>1, <1>2

LEMMA MonitorInitOK == VenueSessionsInit => MonitorInv
BY DEF VenueSessionsInit, MonitorInit, MonitorInv, MonitorOK, ChannelOK, HeartbeatOK, OpenAttentions

LEMMA MonitorNextOK ==
    MonitorInv /\ [VenueSessionsNext]_<<clientVars, monitorVars>> => MonitorInv'
<1> SUFFICES ASSUME MonitorInv, MonitorNext PROVE MonitorInv'
  BY DEF VenueSessionsNext, monitorVars, MonitorInv
<1>1. /\ recoveries = [x \in {"channel", "heartbeat"} |-> recoveries[x]]
      /\ recoveries.channel \in Int /\ recoveries.heartbeat \in Int
      /\ ChannelOK(channelState, recoveries.channel)
      /\ HeartbeatOK(heartbeatGroup, recoveries.heartbeat)
  BY DEF MonitorInv, MonitorOK
<1>2. CASE UNCHANGED <<channelState, heartbeatGroup, recoveries>>
  BY <1>2 DEF MonitorInv
<1>3. CASE RecordChannelEvent
  BY <1>1, <1>3 DEF RecordChannelEvent, MonitorInv, MonitorOK, ChannelOK
<1>4. CASE ChannelReconcileTrigger
  <2>1. ~channelState.attention /\ UNCHANGED <<heartbeatGroup, recoveries>>
    BY <1>4 DEF ChannelReconcileTrigger
  <2>2. /\ channelState' = [x \in {"last_message_at", "stale_since", "attention", "reports"} |->
                               channelState'[x]]
        /\ channelState'.attention = TRUE /\ channelState'.reports = channelState.reports + 1
    BY <1>1, <1>4 DEF ChannelReconcileTrigger, ChannelOK
  <2>3. channelState.reports \in Int /\ channelState.reports - recoveries.channel = 0
    BY <1>1, <2>1 DEF ChannelOK, OpenAttentions
  <2>4. channelState'.reports \in Int /\ channelState'.reports - recoveries.channel = 1
    BY <1>1, <2>2, <2>3
  <2>5. ChannelOK(channelState', recoveries.channel)
    BY <2>2, <2>4 DEF ChannelOK, OpenAttentions
  <2> QED BY <1>1, <2>1, <2>5 DEF MonitorInv, MonitorOK
<1>5. CASE ResetReconcileAttention
  <2>1. UNCHANGED heartbeatGroup
    BY <1>5 DEF ResetReconcileAttention
  <2>2. /\ channelState' = [x \in {"last_message_at", "stale_since", "attention", "reports"} |->
                               channelState'[x]]
        /\ channelState'.attention = FALSE /\ channelState'.reports = channelState.reports
    BY <1>1, <1>5 DEF ResetReconcileAttention, ChannelOK
  <2>3. /\ recoveries' = [x \in {"channel", "heartbeat"} |-> recoveries'[x]]
        /\ recoveries'.heartbeat = recoveries.heartbeat
        /\ recoveries'.channel = recoveries.channel + OpenAttentions(channelState.attention)
    BY <1>1, <1>5 DEF ResetReconcileAttention, OpenAttentions
  <2>4. OpenAttentions(channelState.attention) \in Int
    BY DEF OpenAttentions
  <2>5. /\ recoveries'.channel \in Int /\ channelState'.reports \in Int
        /\ channelState'.reports - recoveries'.channel = 0
    BY <1>1, <2>2, <2>3, <2>4 DEF ChannelOK
  <2>6. ChannelOK(channelState', recoveries'.channel)
    BY <2>2, <2>5 DEF ChannelOK, OpenAttentions
  <2> QED BY <1>1, <2>1, <2>3, <2>5, <2>6 DEF MonitorInv, MonitorOK
<1>6. CASE HeartbeatTick
  <2>1. ASSUME NEW named \in BOOLEAN,
               heartbeatGroup' = RecordFetchResult(heartbeatGroup, FALSE, named) PROVE
               HeartbeatOK(heartbeatGroup', recoveries.heartbeat)
    <3> DEFINE g == [heartbeatGroup EXCEPT !.heartbeat_id = named]
    <3>1. HeartbeatOK(g, recoveries.heartbeat)
      BY <1>1 DEF HeartbeatOK
    <3>2. HeartbeatOK(RaiseAttention(g), recoveries.heartbeat)
      BY <1>1, <3>1, RaiseAttentionOK
    <3> QED BY <2>1, <3>2 DEF RecordFetchResult
  <2>2. HeartbeatOK(HeartbeatReconcileTrigger(heartbeatGroup, MaxGap), recoveries.heartbeat)
    BY <1>1, RaiseAttentionOK DEF HeartbeatReconcileTrigger
  <2>3. ASSUME heartbeatGroup' = RecordSuccess(heartbeatGroup),
               recoveries' = IF heartbeatGroup.attention
                             THEN [recoveries EXCEPT !.heartbeat = @ + 1] ELSE recoveries
        PROVE  /\ recoveries' = [x \in {"channel", "heartbeat"} |-> recoveries'[x]]
               /\ recoveries'.channel = recoveries.channel /\ recoveries'.heartbeat \in Int
               /\ HeartbeatOK(heartbeatGroup', recoveries'.heartbeat)
    <3> DEFINE fields == {"now", "heartbeat_id", "last_success_at", "attention", "next_journal_seq"}
    <3>1. /\ heartbeatGroup' = [x \in fields |-> heartbeatGroup'[x]]
          /\ heartbeatGroup'.attention = FALSE
          /\ heartbeatGroup'.next_journal_seq = heartbeatGroup.next_journal_seq
      BY <1>1, <2>3 DEF RecordSuccess, HeartbeatOK
    <3>2. /\ recoveries' = [x \in {"channel", "heartbeat"} |-> recoveries'[x]]
          /\ recoveries'.channel = recoveries.channel
          /\ recoveries'.heartbeat = recoveries.heartbeat + OpenAttentions(heartbeatGroup.attention)
      BY <1>1, <2>3 DEF OpenAttentions
    <3>3. OpenAttentions(heartbeatGroup.attention) \in Int
      BY DEF OpenAttentions
    <3>4. /\ recoveries'.heartbeat \in Int /\ heartbeatGroup'.next_journal_seq \in Int
          /\ heartbeatGroup'.next_journal_seq - 1 - recoveries'.heartbeat = 0
      BY <1>1, <3>1, <3>2, <3>3 DEF HeartbeatOK
    <3> QED BY <3>1, <3>2, <3>4 DEF HeartbeatOK, OpenAttentions
  <2>4. UNCHANGED channelState
    BY <1>6 DEF HeartbeatTick
  <2>5. \/ UNCHANGED recoveries /\ HeartbeatOK(heartbeatGroup', recoveries.heartbeat)
        \/ /\ recoveries' = [x \in {"channel", "heartbeat"} |-> recoveries'[x]]
           /\ recoveries'.channel = recoveries.channel /\ recoveries'.heartbeat \in Int
           /\ HeartbeatOK(heartbeatGroup', recoveries'.heartbeat)
    BY <1>6, <2>1, <2>2, <2>3 DEF HeartbeatTick, RecordFetchResult
  <2> QED BY <1>1, <2>4, <2>5 DEF MonitorInv, MonitorOK
<1> QED BY <1>2, <1>3, <1>4, <1>5, <1>6 DEF MonitorNext, TimePasses, RecordConnected, RecordDisconnected

\* An outage is reported once, for every clock, gap and number of reports: an
\* attention counts as raised or as recovered, and at most one is open.
THEOREM OutagesAreReportedOnce == VenueSessionsSpec => []OneReportPerOutage
<1>1. MonitorInv => OneReportPerOutage
  BY DEF MonitorInv, MonitorOK, ChannelOK, HeartbeatOK, OpenAttentions, OneReportPerOutage
<1> QED BY <1>1, MonitorInitOK, MonitorNextOK, PTL DEF VenueSessionsSpec

---------------------------------------------------------------------------
(***************************************************************************)
(* Discovery: what a notice is rendered as                                 *)
(***************************************************************************)

\* The artifact of a target names its family and its validation.
LEMMA ArtifactNamesTarget ==
    ASSUME NEW f, NEW v, NEW r, NEW g, NEW u, NEW q,
           NegRiskRouteArtifact(f, v, r) = NegRiskRouteArtifact(g, u, q)
    PROVE  f = g /\ v = u
<1> DEFINE a == <<f, f \in r, v>>
           b == <<g, g \in q, u>>
<1>1. NegRiskRouteArtifact(f, v, r).content = a /\ NegRiskRouteArtifact(g, u, q).content = b
  BY DEF NegRiskRouteArtifact
<1>2. a = b
  BY <1>1
<1>3. a[1] = b[1] /\ a[3] = b[3]
  BY <1>2
<1> QED BY <1>3

\* A candidate set as render_candidate_with_full_set_basis makes it.
IsCandidate(c) ==
    /\ c = [revision |-> c.revision, route_artifacts |-> c.revision, targets |-> c.targets]
    /\ c.targets = [f \in DOMAIN c.targets |-> c.targets[f]]
    /\ \E rendered \in SUBSET DiscoveredFamily, basis \in {"default", "operator"} :
          c.revision = RouteArtifacts(c.targets, rendered, basis)

\* The revision of a candidate set determines it.
LEMMA CandidateOfRevision ==
    ASSUME NEW c, NEW d, IsCandidate(c), IsCandidate(d), c.revision = d.revision
    PROVE  c = d
<1>1. ASSUME NEW x, NEW y, IsCandidate(x), IsCandidate(y), x.revision = y.revision,
             NEW f \in DOMAIN x.targets
      PROVE  f \in DOMAIN y.targets /\ x.targets[f] = y.targets[f]
  <2>1. PICK r \in SUBSET DiscoveredFamily, b \in {"default", "operator"} :
               x.revision = RouteArtifacts(x.targets, r, b)
    BY <1>1 DEF IsCandidate
  <2>2. PICK q \in SUBSET DiscoveredFamily, e \in {"default", "operator"} :
               y.revision = RouteArtifacts(y.targets, q, e)
    BY <1>1 DEF IsCandidate
  <2>3. NegRiskRouteArtifact(f, x.targets[f], r) \in RouteArtifacts(y.targets, q, e)
    BY <1>1, <2>1, <2>2 DEF RouteArtifacts
  <2>4. NegRiskRouteArtifact(f, x.targets[f], r) # FullSetRouteArtifact(e)
    <3>1. NegRiskRouteArtifact(f, x.targets[f], r).route = "neg-risk"
      BY DEF NegRiskRouteArtifact
    <3>2. FullSetRouteArtifact(e).route = "full-set"
      BY DEF FullSetRouteArtifact
    <3> QED BY <3>1, <3>2
  <2>5. PICK g \in DOMAIN y.targets :
            NegRiskRouteArtifact(f, x.targets[f], r) = NegRiskRouteArtifact(g, y.targets[g], q)
    BY <2>3, <2>4 DEF RouteArtifacts
  <2>6. f = g /\ x.targets[f] = y.targets[g]
    BY <2>5, ArtifactNamesTarget
  <2> QED BY <2>5, <2>6
<1>2. DOMAIN c.targets = DOMAIN d.targets /\ \A f \in DOMAIN c.targets : c.targets[f] = d.targets[f]
  BY <1>1
<1>3. c.targets = d.targets
  BY <1>2 DEF IsCandidate
<1> QED BY <1>3 DEF IsCandidate

\* Every target was found adoptable, and has a family.
Vetted(targets) == \A f \in DOMAIN targets : targets[f] = "adoptable" /\ f # ""

\* A notice of families of the venue.
IsNotice(notice) ==
    /\ notice.rendered \subseteq DiscoveredFamily
    /\ notice.basis \in {"default", "operator"}

\* What process_notice renders: a candidate set and, if it is vetted, an
\* adoptable revision that names it.
LEMMA NoticeOutcome ==
    ASSUME NEW notice, IsNotice(notice), ProcessNotice(notice).candidate # None
    PROVE  LET outcome == ProcessNotice(notice)
           IN  /\ IsCandidate(outcome.candidate)
               /\ outcome.adoptable # None =>
                      /\ outcome.adoptable.candidate = outcome.candidate.revision
                      /\ Vetted(outcome.candidate.targets)
<1> DEFINE found == CandidateTargets(notice.records, notice.authoritative)
           targets == ApplyCandidateRestriction(found, notice.restriction)
           candidate == RenderCandidate(targets, notice.rendered, notice.basis)
           adoptable == IF AggregateDisposition(targets) = "adoptable"
                        THEN RenderAdoptable(targets, notice.rendered, notice.basis) ELSE None
           outcome == ProcessNotice(notice)
<1>1. outcome = [candidate |-> candidate, adoptable |-> adoptable]
  BY DEF ProcessNotice
<1>2. DOMAIN targets = DOMAIN found /\ targets = [f \in DOMAIN targets |-> targets[f]]
  BY DEF ApplyCandidateRestriction
<1>3. candidate = [revision |-> RouteArtifacts(targets, notice.rendered, notice.basis),
                   route_artifacts |-> RouteArtifacts(targets, notice.rendered, notice.basis),
                   targets |-> targets]
  BY DEF RenderCandidate, BundleRevision
<1>4. IsCandidate(candidate)
  <2> HIDE DEF targets, candidate
  <2>1. candidate.revision = RouteArtifacts(targets, notice.rendered, notice.basis)
        /\ candidate.targets = targets /\ candidate.route_artifacts = candidate.revision
    BY <1>3
  <2>2. candidate = [revision |-> candidate.revision, route_artifacts |-> candidate.revision,
                     targets |-> candidate.targets]
    BY <1>3, <2>1
  <2> QED BY <1>2, <2>1, <2>2 DEF IsCandidate, IsNotice
<1>5. ASSUME adoptable # None
      PROVE  adoptable.candidate = candidate.revision /\ Vetted(candidate.targets)
  <2>1. AggregateDisposition(targets) = "adoptable"
    BY <1>5
  <2>2. adoptable.candidate = RouteArtifacts(targets, notice.rendered, notice.basis)
    BY <2>1 DEF RenderAdoptable, BundleRevision
  <2>3. {targets[f] : f \in DOMAIN targets} = {"adoptable"}
    BY <2>1 DEF AggregateDisposition
  <2>4. ASSUME NEW f \in DOMAIN targets PROVE targets[f] = "adoptable" /\ f # ""
    <3>1. targets[f] = "adoptable"
      BY <2>3
    <3>2. found[f] = "adoptable" /\ f \in DOMAIN found
      BY <1>2, <3>1 DEF ApplyCandidateRestriction
    <3>3. f # ""
      BY <3>2 DEF CandidateTargets, ValidationForRecord
    <3> QED BY <3>1, <3>3
  <2>5. Vetted(targets)
    BY <2>4 DEF Vetted
  <2> HIDE DEF targets, candidate, adoptable
  <2>6. /\ candidate.revision = RouteArtifacts(targets, notice.rendered, notice.basis)
        /\ candidate.targets = targets
    BY <1>3
  <2> QED BY <2>2, <2>5, <2>6
<1> HIDE DEF candidate, adoptable
<1>6. outcome.candidate = candidate /\ outcome.adoptable = adoptable
  BY <1>1
<1> QED BY <1>1, <1>4, <1>5, <1>6

---------------------------------------------------------------------------
(***************************************************************************)
(* Discovery: the inductive invariant                                      *)
(***************************************************************************)

\* What a process has still to write: a candidate set, which is stored once its
\* turn is over, and perhaps the adoptable revision of it.
WorkOK(work, candidates) ==
    \/ work = Nothing
    \/ /\ work = [x \in {"stage", "candidate", "adoptable"} |-> work[x]]
       /\ work.stage \in {"candidate", "adoptable", "written"}
       /\ IsCandidate(work.candidate)
       /\ work.adoptable # None =>
              /\ work.adoptable.candidate = work.candidate.revision
              /\ Vetted(work.candidate.targets)
       /\ work.stage # "candidate" => work.candidate \in candidates

RevisionsOK(candidates, adoptables, conflicts) ==
    /\ \A c \in candidates : IsCandidate(c)
    /\ \A a \in adoptables : \E c \in candidates : c.revision = a.candidate /\ Vetted(c.targets)
    /\ "candidate" \notin conflicts

DiscoveryOK(live, works, candidates, adoptables, conflicts) ==
    /\ live \subseteq DiscoveredFamily
    /\ works = [p \in DiscoveryProcess |-> works[p]]
    /\ \A p \in DiscoveryProcess : WorkOK(works[p], candidates)
    /\ RevisionsOK(candidates, adoptables, conflicts)

DiscoveryInv ==
    DiscoveryOK(liveTargets, persisting, candidateRows, adoptableRows, upsertConflicts)

LEMMA RowsOfNotice ==
    ASSUME NEW notice, IsNotice(notice), NEW candidates
    PROVE  WorkOK(RowsOf(notice), candidates)
<1> DEFINE outcome == ProcessNotice(notice)
           work == [stage |-> "candidate", candidate |-> outcome.candidate,
                    adoptable |-> outcome.adoptable]
<1>1. CASE outcome.candidate = None
  BY <1>1 DEF RowsOf, WorkOK
<1>2. CASE outcome.candidate # None
  <2>1. /\ IsCandidate(outcome.candidate)
        /\ outcome.adoptable # None =>
               /\ outcome.adoptable.candidate = outcome.candidate.revision
               /\ Vetted(outcome.candidate.targets)
    BY <1>2, NoticeOutcome
  <2>2. RowsOf(notice) = work
    BY <1>2 DEF RowsOf
  <2>3. /\ work = [x \in {"stage", "candidate", "adoptable"} |-> work[x]]
        /\ work.stage = "candidate"
        /\ work.candidate = outcome.candidate /\ work.adoptable = outcome.adoptable
    OBVIOUS
  <2> HIDE DEF work, outcome
  <2> QED BY <2>1, <2>2, <2>3 DEF WorkOK
<1> QED BY <1>1, <1>2

\* A process has other work.
LEMMA WorkChanges ==
    ASSUME NEW live, NEW works, NEW candidates, NEW adoptables, NEW conflicts,
           DiscoveryOK(live, works, candidates, adoptables, conflicts),
           NEW p \in DiscoveryProcess, NEW work, WorkOK(work, candidates)
    PROVE  DiscoveryOK(live, [works EXCEPT ![p] = work], candidates, adoptables, conflicts)
BY DEF DiscoveryOK

LEMMA DiscoveryInitOK == DiscoveryInit => DiscoveryInv
BY DEF DiscoveryInit, DiscoveryInv, DiscoveryOK, WorkOK, RevisionsOK

LEMMA DiscoveryNextOK == DiscoveryInv /\ [DiscoveryNext]_discoveryVars => DiscoveryInv'
<1> SUFFICES ASSUME DiscoveryInv, [DiscoveryNext]_discoveryVars PROVE DiscoveryInv'
  OBVIOUS
<1>1. /\ liveTargets \subseteq DiscoveredFamily
      /\ persisting = [p \in DiscoveryProcess |-> persisting[p]]
      /\ \A p \in DiscoveryProcess : WorkOK(persisting[p], candidateRows)
      /\ RevisionsOK(candidateRows, adoptableRows, upsertConflicts)
  BY DEF DiscoveryInv, DiscoveryOK
<1>2. ASSUME NEW p \in DiscoveryProcess, NEW work, WorkOK(work, candidateRows),
             persisting' = [persisting EXCEPT ![p] = work],
             UNCHANGED <<liveTargets, candidateRows, adoptableRows, upsertConflicts>>
      PROVE  DiscoveryInv'
  BY <1>2, WorkChanges DEF DiscoveryInv
<1>3. WorkOK(Nothing, candidateRows)
  BY DEF WorkOK
<1>4. ASSUME NEW records, NEW authoritative, MaterializeCandidates(records, authoritative)
      PROVE  DiscoveryInv'
  <2> DEFINE notice == [records |-> records, authoritative |-> authoritative, rendered |-> liveTargets,
                        restriction |-> "eligible", dirty |-> TRUE, basis |-> "default"]
  <2>1. IsNotice(notice)
    BY <1>1 DEF IsNotice
  <2>2. WorkOK(RowsOf(notice), candidateRows)
    BY <2>1, RowsOfNotice
  <2>3. /\ persisting' = [persisting EXCEPT !["daemon"] = RowsOf(notice)]
        /\ UNCHANGED <<liveTargets, candidateRows, adoptableRows, upsertConflicts>>
    BY <1>4 DEF MaterializeCandidates
  <2> QED BY <1>2, <2>2, <2>3 DEF DiscoveryProcess
<1>5. ASSUME NEW families \in SUBSET DiscoveredFamily, RunDiscover(families) PROVE DiscoveryInv'
  <2> DEFINE notice == [records |-> [discovered |-> families, backfilled |-> {}],
                        authoritative |-> TRUE, rendered |-> families,
                        restriction |-> "eligible", dirty |-> TRUE, basis |-> "operator"]
  <2>1. IsNotice(notice)
    BY <1>5 DEF IsNotice
  <2>2. WorkOK(RowsOf(notice), candidateRows)
    BY <2>1, RowsOfNotice
  <2>3. /\ persisting' = [persisting EXCEPT !["discover"] = RowsOf(notice)]
        /\ UNCHANGED <<liveTargets, candidateRows, adoptableRows, upsertConflicts>>
    BY <1>5 DEF RunDiscover
  <2> QED BY <1>2, <2>2, <2>3 DEF DiscoveryProcess
<1>6. ASSUME NEW targets \in SUBSET (DiscoveredFamily \ {""}), RestartDaemon(targets)
      PROVE  DiscoveryInv'
  <2>1. DiscoveryOK(liveTargets, [persisting EXCEPT !["daemon"] = Nothing], candidateRows,
                    adoptableRows, upsertConflicts)
    BY <1>3, WorkChanges DEF DiscoveryInv, DiscoveryProcess
  <2> QED BY <1>6, <2>1 DEF RestartDaemon, DiscoveryInv, DiscoveryOK
<1>7. ASSUME NEW p \in DiscoveryProcess, UpsertStrategyCandidateSet(p) PROVE DiscoveryInv'
  <2> DEFINE work == persisting[p]
             row == work.candidate
             next == [work EXCEPT !.stage = "adoptable"]
  <2>1. /\ work.stage = "candidate"
        /\ work = [x \in {"stage", "candidate", "adoptable"} |-> work[x]]
        /\ IsCandidate(row)
        /\ work.adoptable # None =>
               work.adoptable.candidate = row.revision /\ Vetted(row.targets)
    BY <1>1, <1>7 DEF UpsertStrategyCandidateSet, WorkOK, Nothing
  <2>2. ~\E r \in candidateRows : r.revision = row.revision /\ r # row
    BY <1>1, <2>1, CandidateOfRevision DEF RevisionsOK
  <2>3. /\ persisting' = [persisting EXCEPT ![p].stage = "adoptable"]
        /\ candidateRows' = IF \E r \in candidateRows : r.revision = row.revision
                            THEN candidateRows ELSE candidateRows \cup {row}
        /\ UNCHANGED <<liveTargets, adoptableRows, upsertConflicts>>
    BY <1>7, <2>2 DEF UpsertStrategyCandidateSet, Upsert
  <2>4. candidateRows' = candidateRows \cup {row}
    BY <2>2, <2>3
  <2>5. persisting' = [persisting EXCEPT ![p] = next]
    BY <1>1, <2>3
  <2>6. /\ next = [x \in {"stage", "candidate", "adoptable"} |-> next[x]]
        /\ next.stage = "adoptable" /\ next.candidate = row /\ next.adoptable = work.adoptable
    BY <2>1
  <2> HIDE DEF next, row
  <2>7. WorkOK(next, candidateRows')
    BY <2>1, <2>4, <2>6 DEF WorkOK
  <2>8. \A q \in DiscoveryProcess : WorkOK(persisting[q], candidateRows')
    BY <1>1, <2>4 DEF WorkOK
  <2>9. RevisionsOK(candidateRows', adoptableRows, upsertConflicts)
    BY <1>1, <2>1, <2>4 DEF RevisionsOK
  <2>10. DiscoveryOK(liveTargets, persisting, candidateRows', adoptableRows, upsertConflicts)
    BY <1>1, <2>8, <2>9 DEF DiscoveryOK
  <2>11. DiscoveryOK(liveTargets, [persisting EXCEPT ![p] = next], candidateRows', adoptableRows,
                     upsertConflicts)
    BY <2>7, <2>10, WorkChanges
  <2> QED BY <2>3, <2>5, <2>11 DEF DiscoveryInv
<1>8. ASSUME NEW p \in DiscoveryProcess, UpsertAdoptableStrategyRevision(p) PROVE DiscoveryInv'
  <2> DEFINE work == persisting[p]
             row == work.adoptable
             next == [work EXCEPT !.stage = "written"]
  <2>1. /\ work.stage = "adoptable"
        /\ work = [x \in {"stage", "candidate", "adoptable"} |-> work[x]]
        /\ IsCandidate(work.candidate) /\ work.candidate \in candidateRows
        /\ row # None => row.candidate = work.candidate.revision /\ Vetted(work.candidate.targets)
    BY <1>1, <1>8 DEF UpsertAdoptableStrategyRevision, WorkOK, Nothing
  <2>2. /\ next = [x \in {"stage", "candidate", "adoptable"} |-> next[x]]
        /\ next.stage = "written" /\ next.candidate = work.candidate /\ next.adoptable = row
    BY <2>1
  <2>3. /\ \/ persisting' = [persisting EXCEPT ![p].stage = "written"]
           \/ persisting' = [persisting EXCEPT ![p] = Nothing]
        /\ UNCHANGED <<liveTargets, candidateRows>>
    BY <1>8 DEF UpsertAdoptableStrategyRevision, Upsert
  <2>4. /\ adoptableRows' = adoptableRows \/ (row # None /\ adoptableRows' = adoptableRows \cup {row})
        /\ upsertConflicts' \subseteq upsertConflicts \cup {"adoptable"}
    BY <1>8 DEF UpsertAdoptableStrategyRevision, Upsert
  <2>5. [persisting EXCEPT ![p].stage = "written"] = [persisting EXCEPT ![p] = next]
    BY <1>1
  <2> HIDE DEF next, row
  <2>6. RevisionsOK(candidateRows, adoptableRows', upsertConflicts')
    <3>1. row # None => \E c \in candidateRows : c.revision = row.candidate /\ Vetted(c.targets)
      BY <2>1
    <3>2. \A a \in adoptableRows' : \E c \in candidateRows : c.revision = a.candidate /\ Vetted(c.targets)
      BY <1>1, <2>4, <3>1 DEF RevisionsOK
    <3>3. "candidate" \notin upsertConflicts'
      BY <1>1, <2>4 DEF RevisionsOK
    <3> QED BY <1>1, <3>2, <3>3 DEF RevisionsOK
  <2>7. DiscoveryOK(liveTargets, persisting, candidateRows, adoptableRows', upsertConflicts')
    BY <1>1, <2>6 DEF DiscoveryOK
  <2>8. WorkOK(next, candidateRows)
    BY <2>1, <2>2 DEF WorkOK
  <2>9. \A w : WorkOK(w, candidateRows) =>
            DiscoveryOK(liveTargets, [persisting EXCEPT ![p] = w], candidateRows, adoptableRows',
                        upsertConflicts')
    BY <2>7, WorkChanges
  <2> QED BY <1>3, <2>3, <2>5, <2>8, <2>9 DEF DiscoveryInv
<1>9. ASSUME NEW p \in DiscoveryProcess, FinishPersisting(p) PROVE DiscoveryInv'
  BY <1>2, <1>3, <1>9 DEF FinishPersisting
<1>10. CASE StopDiscover
  BY <1>2, <1>3, <1>10 DEF StopDiscover, DiscoveryProcess
<1>11. CASE UNCHANGED discoveryVars
  BY <1>11 DEF discoveryVars, DiscoveryInv
<1> QED BY <1>4, <1>5, <1>6, <1>7, <1>8, <1>9, <1>10, <1>11
        DEF DiscoveryNext, DrainDiscoveryInput, DrainAuthoritativeDiscovery

\* An adoptable revision has its candidate set in the store and all its targets
\* are vetted, and no candidate set is refused: a revision determines the
\* candidate set it is a digest of, so the daemon and discover agree on it.
THEOREM AdoptableIsAlwaysVetted == DiscoverySpec => []AdoptableIsVetted
<1>1. DiscoveryInv => AdoptableIsVetted
  BY DEF DiscoveryInv, DiscoveryOK, RevisionsOK, Vetted, AdoptableIsVetted
<1> QED BY <1>1, DiscoveryInitOK, DiscoveryNextOK, PTL DEF DiscoverySpec

---------------------------------------------------------------------------
(***************************************************************************)
(* Execution: the inductive invariant                                      *)
(***************************************************************************)

AttemptFields == {"plan_id", "attempt_no", "mode", "members", "results", "receipt", "reconciled"}

\* A family that is being submitted has one member, without a result.
AttemptOK(e) ==
    /\ e = [x \in AttemptFields |-> e[x]]
    /\ e.receipt = Submitting => e.members = 1 /\ e.results = <<>> /\ e.reconciled = None

\* The classes of the transactions of a reference.
StatesIn(txs, ref) ==
    IF ref \in DOMAIN txs THEN {ClassifyTransactionState(txs[ref][n]) : n \in DOMAIN txs[ref]} ELSE {}

\* What was decided of an attempt is what the venue did.
DecisionHolds(e, orders, txs) ==
    /\ e.reconciled = "NeedsRecovery" => StatesIn(txs, e.receipt.pending_ref) = {"Terminal"}
    /\ e.reconciled = "ConfirmedAuthoritative" =>
           e.receipt.pending_ref \in DOMAIN orders \/ "Confirmed" \in StatesIn(txs, e.receipt.pending_ref)

TxStates == {"NEW", "MINED", "OTHER", "INVALID", "FAILED", "CONFIRMED"}

TxsOK(txs) == txs \in [DOMAIN txs -> Seq(TxStates)]

\* A sequence, of whatever.
IsSequence(s) == s \in Seq({s[i] : i \in DOMAIN s})

ExecutionOK(attempts, orders, txs) ==
    /\ IsSequence(attempts)
    /\ \A i \in DOMAIN attempts : AttemptOK(attempts[i]) /\ DecisionHolds(attempts[i], orders, txs)
    /\ TxsOK(txs)

ExecutionInv == ExecutionOK(executions, venueOrders, relayerTxs)

---------------------------------------------------------------------------
(***************************************************************************)
(* Execution: receipts                                                     *)
(***************************************************************************)

\* A receipt that claims nothing of the venue: no refusal, and no submission.
NoClaim(receipt) ==
    /\ receipt # Submitting
    /\ receipt.outcome # "FailedDefinitive"
    /\ receipt.submission_ref = None

LEMMA ReceiptFields ==
    ASSUME NEW outcome, NEW submission, NEW pending
    PROVE  /\ Receipt(outcome, submission, pending).outcome = outcome
           /\ Receipt(outcome, submission, pending).submission_ref = submission
           /\ Receipt(outcome, submission, pending) = Submitting => outcome = "Submitting"
<1>1. Receipt(outcome, submission, pending).outcome = outcome
      /\ Receipt(outcome, submission, pending).submission_ref = submission
  BY DEF Receipt
<1>2. Submitting.outcome = "Submitting"
  BY DEF Submitting
<1> QED BY <1>1, <1>2

LEMMA SinkErrorClaims == NoClaim(SinkError)
BY ReceiptFields DEF SinkError, NoClaim

\* A sink that does not answer at once submits a family of one member.
LEMMA SinksAnswer ==
    ASSUME NEW sink, NEW input, NEW signs, NEW i, NEW receipt,
           receipt = ShadowExecute(input) \/ receipt = LiveExecute(sink, input, signs, i)
    PROVE  NoClaim(receipt) \/ (receipt = Submitting /\ Cardinality(input.plan.members) = 1)
<1>1. /\ NoClaim(Receipt("ShadowRecorded", None, None)) /\ NoClaim(Receipt("Succeeded", None, None))
      /\ NoClaim(HookSubmitFamily(i))
  BY ReceiptFields DEF NoClaim, HookSubmitFamily
<1>2. NoClaim(ShadowExecute(input))
  BY <1>1, SinkErrorClaims DEF ShadowExecute
<1>3. NoClaim(SubmitLive(sink, input, signs, i))
      \/ (SubmitLive(sink, input, signs, i) = Submitting /\ Cardinality(input.plan.members) = 1)
  BY <1>1, SinkErrorClaims DEF SubmitLive, SubmitFamily
<1>4. NoClaim(LiveExecute(sink, input, signs, i))
      \/ (LiveExecute(sink, input, signs, i) = Submitting /\ Cardinality(input.plan.members) = 1)
  BY <1>1, <1>3, SinkErrorClaims DEF LiveExecute
<1> QED BY <1>2, <1>4

\* The kind of a member's result tells what the venue answered.
LEMMA OutcomeKinds ==
    ASSUME NEW response, NEW i, NEW k
    PROVE  LET result == SubmitOrderResponseToOutcome(response, i, k)
           IN  /\ result.kind = "accepted" => response.success
               /\ result.kind = "rejected" => ~response.success
<1>1. Rejected.kind = "rejected" /\ SubmitError.kind = "error"
      /\ \A s, p : Accepted(s, p).kind = "accepted"
  BY DEF Rejected, SubmitError, Accepted
<1>2. CASE ~response.success
  BY <1>1, <1>2 DEF SubmitOrderResponseToOutcome
<1>3. CASE response.success
  <2>1. \/ SubmitOrderResponseToOutcome(response, i, k) = SubmitError
        \/ \E s, p : SubmitOrderResponseToOutcome(response, i, k) = Accepted(s, p)
    BY <1>3 DEF SubmitOrderResponseToOutcome
  <2> QED BY <1>1, <1>3, <2>1
<1> QED BY <1>2, <1>3

\* The receipt of a family of one member says what its result says.
LEMMA FinishOne ==
    ASSUME NEW result
    PROVE  /\ FinishFamily(<<result>>) # Submitting
           /\ FinishFamily(<<result>>).outcome = "Succeeded" => result.kind = "accepted"
           /\ FinishFamily(<<result>>).outcome = "FailedDefinitive" => result.kind = "rejected"
<1> DEFINE results == <<result>>
           accepted == {k \in DOMAIN results : results[k].kind = "accepted"}
<1>1. DOMAIN results = {1} /\ results[1] = result
  OBVIOUS
<1>2. Min({1}) = 1
  BY DEF Min
<1>3. CASE result.kind = "accepted"
  <2>1. accepted = {1}
    BY <1>1, <1>3
  <2>2. FinishFamily(results) = Receipt("Succeeded", FirstAccepted(results).submission,
                                        FirstAccepted(results).pending)
    BY <1>1, <2>1 DEF FinishFamily
  <2> QED BY <1>3, <2>2, ReceiptFields
<1>4. CASE result.kind # "accepted"
  <2>1. accepted = {} /\ {k \in DOMAIN results : results[k].kind # "accepted"} = {1}
    BY <1>1, <1>4
  <2>2. FirstFailure(results) = result
    BY <1>1, <1>2, <2>1 DEF FirstFailure
  <2>3. FinishFamily(results) =
            IF result.kind = "rejected" THEN Receipt("FailedDefinitive", None, None) ELSE SinkError
    BY <1>1, <2>1, <2>2 DEF FinishFamily
  <2> QED BY <2>3, ReceiptFields DEF SinkError
<1> QED BY <1>3, <1>4

---------------------------------------------------------------------------
(***************************************************************************)
(* Execution: decisions                                                    *)
(***************************************************************************)

LEMMA SequenceOfRange ==
    ASSUME NEW S, NEW s \in Seq(S)
    PROVE  IsSequence(s)
<1> DEFINE R == {s[i] : i \in DOMAIN s}
<1>1. Len(s) \in Nat /\ DOMAIN s = 1..Len(s) /\ s = [i \in 1..Len(s) |-> s[i]]
  OBVIOUS
<1>2. s \in [1..Len(s) -> R]
  BY <1>1
<1> HIDE DEF R
<1>3. s \in Seq(R)
  BY <1>1, <1>2
<1> QED BY <1>3 DEF IsSequence, R

LEMMA SequenceAppend ==
    ASSUME NEW s, IsSequence(s), NEW e
    PROVE  /\ IsSequence(Append(s, e))
           /\ DOMAIN Append(s, e) = DOMAIN s \cup {Len(s) + 1}
           /\ Append(s, e)[Len(s) + 1] = e
           /\ \A i \in DOMAIN s : i # Len(s) + 1 /\ Append(s, e)[i] = s[i]
<1> DEFINE R == {s[i] : i \in DOMAIN s}
<1>1. s \in Seq(R)
  BY DEF IsSequence
<1> HIDE DEF R
<1>2. s \in Seq(R \cup {e}) /\ Len(s) \in Nat /\ DOMAIN s = 1..Len(s)
  BY <1>1
<1>3. Append(s, e) \in Seq(R \cup {e}) /\ Len(Append(s, e)) = Len(s) + 1
  BY <1>2
<1>4. DOMAIN Append(s, e) = 1..(Len(s) + 1)
  BY <1>3
<1>5. Append(s, e)[Len(s) + 1] = e /\ \A i \in 1..Len(s) : Append(s, e)[i] = s[i]
  BY <1>2
<1>6. 1..(Len(s) + 1) = (1..Len(s)) \cup {Len(s) + 1} /\ \A i \in 1..Len(s) : i # Len(s) + 1
  BY <1>2
<1> QED BY <1>2, <1>3, <1>4, <1>5, <1>6, SequenceOfRange

LEMMA SequenceExcept ==
    ASSUME NEW s, IsSequence(s), NEW i \in DOMAIN s, NEW e
    PROVE  /\ IsSequence([s EXCEPT ![i] = e]) /\ DOMAIN [s EXCEPT ![i] = e] = DOMAIN s
           /\ [s EXCEPT ![i] = e][i] = e /\ \A j \in DOMAIN s \ {i} : [s EXCEPT ![i] = e][j] = s[j]
<1> DEFINE R == {s[j] : j \in DOMAIN s}
           t == [s EXCEPT ![i] = e]
<1>1. s \in Seq(R)
  BY DEF IsSequence
<1>2. Len(s) \in Nat /\ DOMAIN s = 1..Len(s) /\ s = [j \in 1..Len(s) |-> s[j]]
  BY <1>1
<1> HIDE DEF R
<1>3. s \in Seq(R \cup {e})
  BY <1>1, SeqMonotonic
<1>4. t \in Seq(R \cup {e})
  BY <1>2, <1>3, ExceptSeq
<1>5. IsSequence(t)
  BY <1>4, SequenceOfRange
<1> QED BY <1>2, <1>5

\* A transaction is pending, confirmed or has failed for good, or is of a state
\* the provider does not know.
LEMMA StateClasses ==
    ASSUME NEW s
    PROVE  ClassifyTransactionState(s) \in {"Pending", "Confirmed", "Terminal", "Unknown"}
BY DEF ClassifyTransactionState

\* What the relayer decided stays: of the transactions of a reference.
TxsStay(txs, us) ==
    \A r \in DOMAIN txs :
        /\ StatesIn(txs, r) = {"Terminal"} => StatesIn(us, r) = {"Terminal"}
        /\ "Confirmed" \in StatesIn(txs, r) => "Confirmed" \in StatesIn(us, r)

LEMMA DecisionStays ==
    ASSUME NEW e, NEW orders, NEW txs, DecisionHolds(e, orders, txs),
           NEW later, NEW us, DOMAIN orders \subseteq DOMAIN later, TxsStay(txs, us)
    PROVE  DecisionHolds(e, later, us)
<1>1. \A r : StatesIn(txs, r) # {} => r \in DOMAIN txs
  BY DEF StatesIn
<1>2. \A r : StatesIn(txs, r) = {"Terminal"} => StatesIn(us, r) = {"Terminal"}
  BY <1>1 DEF TxsStay
<1>3. \A r : "Confirmed" \in StatesIn(txs, r) => "Confirmed" \in StatesIn(us, r)
  BY <1>1 DEF TxsStay
<1> QED BY <1>2, <1>3 DEF DecisionHolds

\* The relayer moves a transaction on that is not decided.
LEMMA AdvanceStays ==
    ASSUME NEW txs, TxsOK(txs), NEW r \in DOMAIN txs, NEW n \in DOMAIN txs[r],
           txs[r][n] \in {"NEW", "MINED", "OTHER"}, NEW after \in TxStates
    PROVE  TxsOK([txs EXCEPT ![r][n] = after]) /\ TxsStay(txs, [txs EXCEPT ![r][n] = after])
<1> DEFINE us == [txs EXCEPT ![r][n] = after]
           row == [txs[r] EXCEPT ![n] = after]
<1>1. txs = [q \in DOMAIN txs |-> txs[q]] /\ txs[r] \in Seq(TxStates)
  BY DEF TxsOK
<1>2. row \in Seq(TxStates) /\ DOMAIN row = DOMAIN txs[r] /\ \A m \in DOMAIN txs[r] \ {n} : row[m] = txs[r][m]
  BY <1>1
<1>3. us = [txs EXCEPT ![r] = row]
  BY <1>1
<1> HIDE DEF us, row
<1>4. DOMAIN us = DOMAIN txs /\ us[r] = row /\ \A q \in DOMAIN txs \ {r} : us[q] = txs[q]
  BY <1>1, <1>3
<1>5. TxsOK(us)
  BY <1>1, <1>2, <1>3, <1>4 DEF TxsOK
<1>6. ASSUME NEW q \in DOMAIN txs, q # r PROVE StatesIn(us, q) = StatesIn(txs, q)
  BY <1>4, <1>6 DEF StatesIn
<1>7. ClassifyTransactionState(txs[r][n]) \in {"Pending", "Unknown"}
  BY DEF ClassifyTransactionState
<1>8. StatesIn(txs, r) # {"Terminal"}
  BY <1>7 DEF StatesIn
<1>9. "Confirmed" \in StatesIn(txs, r) => "Confirmed" \in StatesIn(us, r)
  <2>1. SUFFICES ASSUME "Confirmed" \in StatesIn(txs, r) PROVE "Confirmed" \in StatesIn(us, r)
    OBVIOUS
  <2>2. PICK m \in DOMAIN txs[r] : ClassifyTransactionState(txs[r][m]) = "Confirmed"
    BY <2>1 DEF StatesIn
  <2>3. m # n
    BY <1>7, <2>2
  <2> QED BY <1>2, <1>4, <2>2, <2>3 DEF StatesIn
<1>10. TxsStay(txs, us)
  BY <1>6, <1>8, <1>9 DEF TxsStay
<1> QED BY <1>5, <1>10 DEF us

\* It replaces one that is not decided and has no other.
LEMMA ReplaceStays ==
    ASSUME NEW txs, TxsOK(txs), NEW r \in DOMAIN txs, Len(txs[r]) = 1,
           ClassifyTransactionState(txs[r][1]) \in {"Pending", "Unknown"}
    PROVE  /\ TxsOK([txs EXCEPT ![r] = Append(@, "NEW")])
           /\ TxsStay(txs, [txs EXCEPT ![r] = Append(@, "NEW")])
<1> DEFINE row == Append(txs[r], "NEW")
           us == [txs EXCEPT ![r] = row]
<1>1. txs = [q \in DOMAIN txs |-> txs[q]] /\ txs[r] \in Seq(TxStates)
  BY DEF TxsOK
<1>2. row \in Seq(TxStates)
  BY <1>1 DEF TxStates
<1>3. DOMAIN txs[r] = {1}
  BY <1>1
<1> HIDE DEF row
<1>4. DOMAIN us = DOMAIN txs /\ us[r] = row /\ \A q \in DOMAIN txs \ {r} : us[q] = txs[q]
  BY <1>1
<1>5. TxsOK(us)
  BY <1>1, <1>2, <1>4 DEF TxsOK
<1> HIDE DEF us
<1>6. ASSUME NEW q \in DOMAIN txs, q # r PROVE StatesIn(us, q) = StatesIn(txs, q)
  BY <1>4, <1>6 DEF StatesIn
<1>7. StatesIn(txs, r) = {ClassifyTransactionState(txs[r][1])}
  BY <1>3 DEF StatesIn
<1>8. TxsStay(txs, us)
  BY <1>6, <1>7 DEF TxsStay
<1> QED BY <1>5, <1>8 DEF us, row

\* A match has its transactions.
LEMMA EntryStays ==
    ASSUME NEW txs, TxsOK(txs), NEW ref
    PROVE  TxsOK(WithEntry(txs, ref, <<"NEW">>)) /\ TxsStay(txs, WithEntry(txs, ref, <<"NEW">>))
<1> DEFINE us == WithEntry(txs, ref, <<"NEW">>)
<1>1. /\ us = [q \in DOMAIN us |-> us[q]] /\ DOMAIN us = DOMAIN txs \cup {ref}
      /\ \A q \in DOMAIN txs : us[q] = txs[q]
      /\ \A q \in DOMAIN us : us[q] = txs[q] \/ us[q] = <<"NEW">>
      /\ \A q \in DOMAIN us \ DOMAIN txs : us[q] = <<"NEW">>
  BY DEF WithEntry
<1> HIDE DEF us
<1>2. <<"NEW">> \in Seq(TxStates)
  BY DEF TxStates
<1>3. TxsOK(us)
  BY <1>1, <1>2 DEF TxsOK
<1>4. \A q \in DOMAIN txs : StatesIn(us, q) = StatesIn(txs, q)
  BY <1>1 DEF StatesIn
<1> QED BY <1>3, <1>4 DEF TxsStay, us

---------------------------------------------------------------------------
(***************************************************************************)
(* Execution: the proof                                                    *)
(***************************************************************************)

\* What the reconcile provider decides is what the venue did.
LEMMA ReconcileDecides ==
    ASSUME NEW ref
    PROVE  /\ ReconcileLive(ref) = "NeedsRecovery" => StatesIn(relayerTxs, ref) = {"Terminal"}
           /\ ReconcileLive(ref) = "ConfirmedAuthoritative" =>
                  ref \in DOMAIN venueOrders \/ "Confirmed" \in StatesIn(relayerTxs, ref)
<1> DEFINE states == StatesIn(relayerTxs, ref)
<1>1. MatchingStates(ref) = states
  BY DEF MatchingStates, StatesIn
<1>2. states \subseteq {"Pending", "Confirmed", "Terminal", "Unknown"}
  BY StateClasses DEF StatesIn
<1> HIDE DEF states
<1>3. ReconcileTxRef(ref) = "NeedsRecovery" => states = {"Terminal"}
  BY <1>1, <1>2 DEF ReconcileTxRef
<1>4. ReconcileTxRef(ref) = "ConfirmedAuthoritative" => "Confirmed" \in states
  BY <1>1 DEF ReconcileTxRef
<1>5. /\ ReconcileOrderRef(ref) # "NeedsRecovery"
      /\ ReconcileOrderRef(ref) = "ConfirmedAuthoritative" => ref \in DOMAIN venueOrders
  BY DEF ReconcileOrderRef
<1>6. ReconcileLive(ref) \in {"Error", ReconcileTxRef(ref), ReconcileOrderRef(ref)}
  BY DEF ReconcileLive, ReconcileTxRefViaGatewayRuntime, ReconcileOrderRefViaGatewayRuntime
<1> QED BY <1>3, <1>4, <1>5, <1>6 DEF states

LEMMA ExecutionInitOK == ExecutionInit => ExecutionInv
<1> SUFFICES ASSUME ExecutionInit PROVE ExecutionInv
  OBVIOUS
<1>1. executions = <<>> /\ executions \in Seq({}) /\ DOMAIN executions = {}
  BY DEF ExecutionInit
<1>2. IsSequence(executions)
  BY <1>1, SequenceOfRange
<1>3. TxsOK(relayerTxs)
  BY DEF ExecutionInit, TxsOK
<1> QED BY <1>1, <1>2, <1>3 DEF ExecutionInv, ExecutionOK

\* The venue does something.
LEMMA VenueStep ==
    ASSUME ExecutionInv, UNCHANGED executions, TxsOK(relayerTxs'), TxsStay(relayerTxs, relayerTxs'),
           DOMAIN venueOrders \subseteq DOMAIN venueOrders'
    PROVE  ExecutionInv'
<1>1. \A i \in DOMAIN executions : DecisionHolds(executions[i], venueOrders', relayerTxs')
  BY DecisionStays DEF ExecutionInv, ExecutionOK
<1> QED BY <1>1 DEF ExecutionInv, ExecutionOK

\* An attempt that is under way has its result.
LEMMA MemberRecorded ==
    ASSUME ExecutionInv, NEW i \in DOMAIN executions, UnderWay(i), NEW result,
           RecordMember(i, result), UNCHANGED <<venueOrders, relayerTxs>>
    PROVE  /\ ExecutionInv'
           /\ DOMAIN executions' = DOMAIN executions
           /\ \A j \in DOMAIN executions \ {i} : executions'[j] = executions[j]
           /\ executions[i].members = 1 /\ executions'[i].members = 1
           /\ executions'[i].receipt = FinishFamily(<<result>>)
<1> DEFINE e == executions[i]
           receipt == FinishFamily(<<result>>)
           f == [e EXCEPT !.results = <<result>>, !.receipt = receipt]
<1>1. /\ IsSequence(executions) /\ e = [x \in AttemptFields |-> e[x]]
      /\ e.members = 1 /\ e.results = <<>> /\ e.reconciled = None
  BY DEF ExecutionInv, ExecutionOK, AttemptOK, UnderWay
<1>2. receipt # Submitting
  BY FinishOne
<1>3. Append(e.results, result) = <<result>> /\ ~(Len(<<result>>) < e.members)
  <2>1. Append(<<>>, result) = <<result>>
    OBVIOUS
  <2>2. Len(<<result>>) = 1
    OBVIOUS
  <2>3. ~(Len(<<result>>) < e.members)
    BY <1>1, <2>2
  <2> QED BY <1>1, <2>1, <2>3
<1> HIDE DEF receipt
<1>4. executions' = [executions EXCEPT ![i].results = <<result>>, ![i].receipt = receipt]
  BY <1>3 DEF RecordMember, receipt
<1>5. executions' = [executions EXCEPT ![i] = f]
  <2>1. executions = [j \in DOMAIN executions |-> executions[j]]
    BY <1>1 DEF IsSequence
  <2> QED BY <1>4, <2>1
<1>6. /\ f = [x \in AttemptFields |-> f[x]]
      /\ f.receipt = receipt /\ f.reconciled = None /\ f.members = 1
  BY <1>1 DEF AttemptFields
<1> HIDE DEF f
<1>7. AttemptOK(f)
  BY <1>2, <1>6 DEF AttemptOK
<1>8. DecisionHolds(f, venueOrders, relayerTxs)
  BY <1>6, NoneIsNoOutcome DEF DecisionHolds
<1>9. /\ IsSequence(executions') /\ DOMAIN executions' = DOMAIN executions
      /\ executions'[i] = f /\ \A j \in DOMAIN executions \ {i} : executions'[j] = executions[j]
  BY <1>1, <1>5, SequenceExcept
<1>10. ExecutionInv'
  BY <1>7, <1>8, <1>9 DEF ExecutionInv, ExecutionOK
<1> QED BY <1>1, <1>6, <1>9, <1>10 DEF receipt

\* An attempt that is begun.
LEMMA AttemptBegun ==
    ASSUME ExecutionInv, NEW sink, NEW input, NEW signs, ExecuteWithAttempt(sink, input, signs)
    PROVE  /\ ExecutionInv'
           /\ UNCHANGED <<wire, venueOrders, relayerTxs>>
           /\ Len(executions) + 1 \notin DOMAIN executions
           /\ DOMAIN executions' = DOMAIN executions \cup {Len(executions) + 1}
           /\ \A i \in DOMAIN executions : executions'[i] = executions[i]
           /\ LET receipt == executions'[Len(executions) + 1].receipt
              IN  NoClaim(receipt) \/ receipt = Submitting
<1>1. IsSequence(executions) /\ TxsOK(relayerTxs)
  BY DEF ExecutionInv, ExecutionOK
<1> DEFINE receipt == IF sink = "shadow" THEN ShadowExecute(input)
                      ELSE LiveExecute(sink, input, signs, Len(executions) + 1)
           e == [plan_id |-> RequestBoundPlanId(input.plan, input.request),
                 attempt_no |-> NextAttemptNo(input.plan, input.request), mode |-> input.mode,
                 members |-> Cardinality(input.plan.members), results |-> <<>>,
                 receipt |-> receipt, reconciled |-> None]
<1>2. executions' = Append(executions, e) /\ UNCHANGED <<wire, venueOrders, relayerTxs>>
  BY DEF ExecuteWithAttempt
<1>3. NoClaim(receipt) \/ (receipt = Submitting /\ Cardinality(input.plan.members) = 1)
  BY SinksAnswer
<1> HIDE DEF receipt
<1>4. /\ e = [x \in AttemptFields |-> e[x]] /\ e.receipt = receipt /\ e.reconciled = None
      /\ e.members = Cardinality(input.plan.members) /\ e.results = <<>>
  BY DEF AttemptFields
<1> HIDE DEF e
<1>5. AttemptOK(e)
  BY <1>3, <1>4 DEF AttemptOK, NoClaim
<1>6. DecisionHolds(e, venueOrders, relayerTxs)
  BY <1>4, NoneIsNoOutcome DEF DecisionHolds
<1>7. /\ IsSequence(executions') /\ DOMAIN executions' = DOMAIN executions \cup {Len(executions) + 1}
      /\ executions'[Len(executions) + 1] = e /\ Len(executions) + 1 \notin DOMAIN executions
      /\ \A i \in DOMAIN executions : executions'[i] = executions[i]
  BY <1>1, <1>2, SequenceAppend
<1>8. ExecutionInv'
  BY <1>2, <1>5, <1>6, <1>7 DEF ExecutionInv, ExecutionOK
<1> QED BY <1>2, <1>3, <1>4, <1>7, <1>8

LEMMA ExecutionNextOK == ExecutionInv /\ [ExecutionNext]_executionVars => ExecutionInv'
<1> SUFFICES ASSUME ExecutionInv, [ExecutionNext]_executionVars PROVE ExecutionInv'
  OBVIOUS
<1>1. IsSequence(executions) /\ TxsOK(relayerTxs)
  BY DEF ExecutionInv, ExecutionOK
<1>2. ASSUME NEW sink, NEW input, NEW signs, ExecuteWithAttempt(sink, input, signs) PROVE ExecutionInv'
  BY <1>2, AttemptBegun
<1>3. ASSUME NEW i \in DOMAIN executions, NEW response \in Responses, VenueAnswers(i, response)
      PROVE  ExecutionInv'
  <2> DEFINE k == MemberUnderWay(i)
             open == IF response.status = "matched" THEN "closed" ELSE "open"
  <2>1. /\ UNCHANGED executions
        /\ venueOrders' = venueOrders \/ venueOrders' = WithEntry(venueOrders, OrderRef(i, k), open)
        /\ relayerTxs' = relayerTxs \/ relayerTxs' = WithEntry(relayerTxs, TxRef(i, k), <<"NEW">>)
    BY <1>3 DEF VenueAnswers
  <2> HIDE DEF k, open
  <2>2. DOMAIN venueOrders \subseteq DOMAIN venueOrders'
    BY <2>1 DEF WithEntry
  <2>3. TxsOK(relayerTxs') /\ TxsStay(relayerTxs, relayerTxs')
    <3>1. CASE relayerTxs' = relayerTxs
      BY <1>1, <3>1 DEF TxsStay
    <3>2. CASE relayerTxs' = WithEntry(relayerTxs, TxRef(i, k), <<"NEW">>)
      BY <1>1, <3>2, EntryStays
    <3> QED BY <2>1, <3>1, <3>2
  <2> QED BY <2>1, <2>2, <2>3, VenueStep
<1>4. ASSUME NEW i \in DOMAIN executions, SubmitMember(i) PROVE ExecutionInv'
  BY <1>4, MemberRecorded DEF SubmitMember
<1>5. ASSUME NEW i \in DOMAIN executions, GatewayFails(i) PROVE ExecutionInv'
  BY <1>5, MemberRecorded DEF GatewayFails
<1>6. ASSUME NEW i \in DOMAIN executions, ReconcileWork(i) PROVE ExecutionInv'
  <2> DEFINE e == executions[i]
             outcome == ReconcileLive(e.receipt.pending_ref)
             f == [e EXCEPT !.reconciled = outcome]
  <2>1. e.receipt # Submitting /\ UNCHANGED <<venueOrders, relayerTxs>>
    BY <1>6 DEF ReconcileWork, UnderWay
  <2>2. AttemptOK(e)
    BY DEF ExecutionInv, ExecutionOK
  <2>3. /\ outcome = "NeedsRecovery" => StatesIn(relayerTxs, e.receipt.pending_ref) = {"Terminal"}
        /\ outcome = "ConfirmedAuthoritative" =>
               \/ e.receipt.pending_ref \in DOMAIN venueOrders
               \/ "Confirmed" \in StatesIn(relayerTxs, e.receipt.pending_ref)
    BY ReconcileDecides
  <2> HIDE DEF outcome
  <2>4. executions' = [executions EXCEPT ![i].reconciled = outcome]
    BY <1>6 DEF ReconcileWork, outcome
  <2>5. executions' = [executions EXCEPT ![i] = f]
    <3>1. executions = [j \in DOMAIN executions |-> executions[j]]
      BY <1>1 DEF IsSequence
    <3> QED BY <2>4, <3>1
  <2>6. f = [x \in AttemptFields |-> f[x]] /\ f.receipt = e.receipt /\ f.reconciled = outcome
    BY <2>2 DEF AttemptOK, AttemptFields
  <2> HIDE DEF f, e
  <2>7. AttemptOK(f) /\ DecisionHolds(f, venueOrders, relayerTxs)
    BY <2>1, <2>2, <2>3, <2>6 DEF AttemptOK, DecisionHolds
  <2>8. /\ IsSequence(executions') /\ DOMAIN executions' = DOMAIN executions
        /\ executions'[i] = f /\ \A j \in DOMAIN executions \ {i} : executions'[j] = executions[j]
    BY <1>1, <2>5, SequenceExcept
  <2> QED BY <2>1, <2>7, <2>8 DEF ExecutionInv, ExecutionOK
<1>7. TxsStay(relayerTxs, relayerTxs)
  BY DEF TxsStay
<1>8. ASSUME NEW r \in DOMAIN venueOrders, VenueClosesOrder(r) PROVE ExecutionInv'
  <2>1. UNCHANGED <<executions, relayerTxs>> /\ DOMAIN venueOrders \subseteq DOMAIN venueOrders'
    BY <1>8 DEF VenueClosesOrder
  <2> QED BY <1>1, <1>7, <2>1, VenueStep
<1>9. ASSUME NEW r \in DOMAIN relayerTxs, NEW n \in DOMAIN relayerTxs[r], RelayerAdvances(r, n)
      PROVE  ExecutionInv'
  <2>1. PICK after \in TxStates :
            /\ relayerTxs[r][n] \in {"NEW", "MINED", "OTHER"}
            /\ relayerTxs' = [relayerTxs EXCEPT ![r][n] = after]
    BY <1>9 DEF RelayerAdvances, TxStates
  <2>2. TxsOK(relayerTxs') /\ TxsStay(relayerTxs, relayerTxs')
    BY <1>1, <2>1, AdvanceStays
  <2>3. UNCHANGED <<executions, venueOrders>>
    BY <1>9 DEF RelayerAdvances
  <2> QED BY <2>2, <2>3, VenueStep
<1>10. ASSUME NEW r \in DOMAIN relayerTxs, RelayerReplaces(r) PROVE ExecutionInv'
  <2>1. TxsOK(relayerTxs') /\ TxsStay(relayerTxs, relayerTxs')
    BY <1>1, <1>10, ReplaceStays DEF RelayerReplaces
  <2>2. UNCHANGED <<executions, venueOrders>>
    BY <1>10 DEF RelayerReplaces
  <2> QED BY <2>1, <2>2, VenueStep
<1>11. CASE UNCHANGED executionVars
  BY <1>11 DEF executionVars, ExecutionInv
<1> QED BY <1>2, <1>3, <1>4, <1>5, <1>6, <1>8, <1>9, <1>10, <1>11 DEF ExecutionNext

LEMMA ExecutionInvariant == ExecutionSpec => []ExecutionInv
BY ExecutionInitOK, ExecutionNextOK, PTL DEF ExecutionSpec

\* What the venue has of the attempts: no order of one to come; of the one under
\* way, the order of its member if the answer on the wire says so, and nothing
\* before; and of the others what their receipts claim.
OrderAt(i) == OrderRef(i, 1) \in DOMAIN venueOrders

ClaimHolds(i) ==
    LET receipt == executions[i].receipt
    IN  /\ receipt.outcome = "FailedDefinitive" => executions[i].members = 1 /\ ~OrderAt(i)
        /\ receipt.outcome = "Succeeded" /\ receipt.submission_ref # None =>
               executions[i].members = 1 /\ OrderAt(i)

VenueInv ==
    /\ wire = None \/ wire \in Responses
    /\ wire # None => \E i \in DOMAIN executions : UnderWay(i)
    /\ \A i, j \in DOMAIN executions : UnderWay(i) /\ UnderWay(j) => i = j
    /\ \A i : OrderAt(i) => i \in DOMAIN executions
    /\ \A i \in DOMAIN executions :
           IF UnderWay(i) THEN OrderAt(i) <=> (wire # None /\ wire.success) ELSE ClaimHolds(i)

\* An attempt ends with the result of its member.
LEMMA MemberClaims ==
    ASSUME ExecutionInv, VenueInv, NEW i \in DOMAIN executions, UnderWay(i), NEW result,
           RecordMember(i, result), wire' = None, UNCHANGED <<venueOrders, relayerTxs>>,
           result.kind = "accepted" => OrderAt(i), result.kind = "rejected" => ~OrderAt(i)
    PROVE  VenueInv'
<1>1. /\ DOMAIN executions' = DOMAIN executions
      /\ \A j \in DOMAIN executions \ {i} : executions'[j] = executions[j]
      /\ executions'[i].members = 1
      /\ executions'[i].receipt = FinishFamily(<<result>>)
  BY MemberRecorded
<1>2. /\ executions'[i].receipt # Submitting
      /\ executions'[i].receipt.outcome = "Succeeded" => result.kind = "accepted"
      /\ executions'[i].receipt.outcome = "FailedDefinitive" => result.kind = "rejected"
  BY <1>1, FinishOne
<1>3. \A j : OrderAt(j)' <=> OrderAt(j)
  BY DEF OrderAt
<1>4. \A j \in DOMAIN executions : ~UnderWay(j)'
  <2>1. \A j \in DOMAIN executions \ {i} : ~UnderWay(j)
    BY DEF VenueInv
  <2> QED BY <1>1, <1>2, <2>1 DEF UnderWay
<1>5. ClaimHolds(i)'
  BY <1>1, <1>2, <1>3 DEF ClaimHolds
<1>6. ASSUME NEW j \in DOMAIN executions, j # i PROVE ClaimHolds(j)'
  <2>1. ~UnderWay(j)
    BY <1>6 DEF VenueInv
  <2>2. ClaimHolds(j)
    BY <2>1 DEF VenueInv
  <2> QED BY <1>1, <1>3, <1>6, <2>2 DEF ClaimHolds
<1> QED BY <1>1, <1>3, <1>4, <1>5, <1>6 DEF VenueInv

LEMMA VenueInvNext ==
    ASSUME ExecutionInv, VenueInv, [ExecutionNext]_executionVars PROVE VenueInv'
<1>1. ASSUME NEW sink, NEW input, NEW signs, ExecuteWithAttempt(sink, input, signs) PROVE VenueInv'
  <2>0. PICK n : n = Len(executions) + 1
    OBVIOUS
  <2>1. /\ UNCHANGED <<wire, venueOrders>> /\ n \notin DOMAIN executions
        /\ DOMAIN executions' = DOMAIN executions \cup {n}
        /\ \A i \in DOMAIN executions : executions'[i] = executions[i]
        /\ NoClaim(executions'[n].receipt) \/ executions'[n].receipt = Submitting
    BY <1>1, <2>0, AttemptBegun
  <2>2. \A i \in DOMAIN executions : ~UnderWay(i)
    BY <1>1 DEF ExecuteWithAttempt
  <2>3. wire = None /\ ~OrderAt(n)
    BY <2>1, <2>2 DEF VenueInv
  <2>4. \A i : OrderAt(i)' <=> OrderAt(i)
    BY <2>1 DEF OrderAt
  <2>5. \A i \in DOMAIN executions : ~UnderWay(i)' /\ ClaimHolds(i)'
    <3>1. \A i \in DOMAIN executions : ClaimHolds(i)
      BY <2>2 DEF VenueInv
    <3> QED BY <2>1, <2>2, <2>4, <3>1 DEF ClaimHolds, UnderWay
  <2>6. ~UnderWay(n)' => ClaimHolds(n)'
    BY <2>1 DEF ClaimHolds, UnderWay, NoClaim
  <2>7. \A i : OrderAt(i)' => i \in DOMAIN executions'
    BY <2>1, <2>4 DEF VenueInv
  <2>8. wire' = None /\ ~OrderAt(n)'
    BY <2>1, <2>3, <2>4
  <2> QED BY <2>1, <2>5, <2>6, <2>7, <2>8 DEF VenueInv
<1>2. ASSUME NEW i \in DOMAIN executions, NEW response \in Responses, VenueAnswers(i, response)
      PROVE  VenueInv'
  <2>1. MemberUnderWay(i) = 1
    <3>1. executions[i].results = <<>>
      BY <1>2 DEF VenueAnswers, UnderWay, ExecutionInv, ExecutionOK, AttemptOK
    <3> QED BY <3>1 DEF MemberUnderWay
  <2>2. /\ UnderWay(i) /\ wire = None /\ wire' = response /\ UNCHANGED executions
        /\ DOMAIN venueOrders' = DOMAIN venueOrders \cup (IF response.success THEN {OrderRef(i, 1)} ELSE {})
    BY <1>2, <2>1 DEF VenueAnswers, WithEntry
  <2>3. response # None
    BY NoneIsNoResponse
  <2>4. \A j : OrderRef(j, 1) = OrderRef(i, 1) => j = i
    BY DEF OrderRef
  <2>5. /\ \A j : j # i => (OrderAt(j)' <=> OrderAt(j))
        /\ OrderAt(i)' <=> response.success
    <3>1. ~OrderAt(i)
      BY <2>2 DEF VenueInv
    <3> QED BY <2>2, <2>4, <3>1 DEF OrderAt
  <2>6. \A j \in DOMAIN executions : UnderWay(j)' <=> UnderWay(j)
    BY <2>2 DEF UnderWay
  <2>7. ASSUME NEW j \in DOMAIN executions, j # i PROVE ~UnderWay(j) /\ ClaimHolds(j)'
    <3>1. ~UnderWay(j)
      BY <2>2, <2>7 DEF VenueInv
    <3>2. ClaimHolds(j)
      BY <3>1 DEF VenueInv
    <3> QED BY <2>2, <2>5, <2>7, <3>1, <3>2 DEF ClaimHolds
  <2>8. \A j : OrderAt(j)' => j \in DOMAIN executions
    BY <2>5 DEF VenueInv
  <2> QED BY <2>2, <2>3, <2>5, <2>6, <2>7, <2>8 DEF VenueInv
<1>3. ASSUME NEW i \in DOMAIN executions, SubmitMember(i) PROVE VenueInv'
  <2> DEFINE result == SubmitOrderResponseToOutcome(wire, i, MemberUnderWay(i))
  <2>1. /\ UnderWay(i) /\ wire # None /\ RecordMember(i, result) /\ wire' = None
        /\ UNCHANGED <<venueOrders, relayerTxs>>
    BY <1>3 DEF SubmitMember
  <2>2. OrderAt(i) <=> wire.success
    BY <2>1 DEF VenueInv
  <2>3. (result.kind = "accepted" => OrderAt(i)) /\ (result.kind = "rejected" => ~OrderAt(i))
    BY <2>2, OutcomeKinds
  <2> HIDE DEF result
  <2> QED BY <2>1, <2>3, MemberClaims
<1>4. ASSUME NEW i \in DOMAIN executions, GatewayFails(i) PROVE VenueInv'
  <2>1. SubmitError.kind = "error"
    BY DEF SubmitError
  <2> QED BY <1>4, <2>1, MemberClaims DEF GatewayFails
<1>5. ASSUME UNCHANGED wire, DOMAIN venueOrders' = DOMAIN venueOrders,
             DOMAIN executions' = DOMAIN executions,
             \A i \in DOMAIN executions : executions'[i].receipt = executions[i].receipt
                                         /\ executions'[i].members = executions[i].members
      PROVE  VenueInv'
  <2>1. \A i : OrderAt(i)' <=> OrderAt(i)
    BY <1>5 DEF OrderAt
  <2>2. \A i \in DOMAIN executions : (UnderWay(i)' <=> UnderWay(i)) /\ (ClaimHolds(i)' <=> ClaimHolds(i))
    BY <1>5, <2>1 DEF UnderWay, ClaimHolds
  <2> QED BY <1>5, <2>1, <2>2 DEF VenueInv
<1>6. ASSUME NEW i \in DOMAIN executions, ReconcileWork(i) PROVE VenueInv'
  <2>1. PICK outcome : executions' = [executions EXCEPT ![i].reconciled = outcome]
    BY <1>6 DEF ReconcileWork
  <2>2. UNCHANGED <<wire, venueOrders>>
    BY <1>6 DEF ReconcileWork
  <2>3. executions = [j \in DOMAIN executions |-> executions[j]]
        /\ executions[i] = [x \in AttemptFields |-> executions[i][x]]
    BY DEF ExecutionInv, ExecutionOK, IsSequence, AttemptOK
  <2>4. /\ DOMAIN executions' = DOMAIN executions
        /\ \A j \in DOMAIN executions : executions'[j].receipt = executions[j].receipt
                                        /\ executions'[j].members = executions[j].members
    BY <2>1, <2>3 DEF AttemptFields
  <2> QED BY <1>5, <2>2, <2>4
<1>7. ASSUME NEW r \in DOMAIN venueOrders, VenueClosesOrder(r) PROVE VenueInv'
  BY <1>5, <1>7 DEF VenueClosesOrder
<1>8. ASSUME NEW r, (\E n : RelayerAdvances(r, n)) \/ RelayerReplaces(r) PROVE VenueInv'
  BY <1>5, <1>8 DEF RelayerAdvances, RelayerReplaces
<1>9. CASE UNCHANGED executionVars
  BY <1>5, <1>9 DEF executionVars
<1> QED BY <1>1, <1>2, <1>3, <1>4, <1>6, <1>7, <1>8, <1>9 DEF ExecutionNext

\* A receipt never contradicts the venue, whichever requests and answers are lost:
\* what failed definitively has no order there, what has a submission has all.
THEOREM ReceiptsAlwaysMatchVenue == ExecutionSpec => []ReceiptsMatchVenue
<1>1. ASSUME ExecutionInit PROVE VenueInv
  <2>1. DOMAIN executions = {} /\ wire = None /\ DOMAIN venueOrders = {}
    BY <1>1 DEF ExecutionInit
  <2> QED BY <2>1 DEF VenueInv, OrderAt
<1>2. ASSUME ExecutionInv, VenueInv PROVE ReceiptsMatchVenue
  <2>1. SUFFICES ASSUME NEW i \in DOMAIN executions
                 PROVE  LET e == executions[i]
                            taken == {k \in 1..e.members : OrderRef(i, k) \in DOMAIN venueOrders}
                        IN  /\ e.receipt.outcome = "FailedDefinitive" => taken = {}
                            /\ e.receipt.outcome = "Succeeded" /\ e.receipt.submission_ref # None =>
                                   taken = 1..e.members
    BY DEF ReceiptsMatchVenue
  <2>2. CASE UnderWay(i)
    <3>1. executions[i].receipt.outcome = "Submitting"
      BY <2>2 DEF UnderWay, Submitting
    <3> QED BY <3>1
  <2>3. CASE ~UnderWay(i)
    <3>1. ClaimHolds(i)
      BY <1>2, <2>3 DEF VenueInv
    <3>2. 1..1 = {1}
      OBVIOUS
    <3> QED BY <3>1, <3>2 DEF ClaimHolds, OrderAt
  <2> QED BY <2>2, <2>3
<1> QED BY <1>1, <1>2, VenueInvNext, ExecutionInvariant, PTL DEF ExecutionSpec

\* What is sent to recovery has failed for good and what is confirmed was done,
\* then and ever after, however the relayer replaces transactions.
THEOREM RecoveryIsAlwaysFinal == ExecutionSpec => []RecoveryIsFinal
<1>1. ASSUME ExecutionInv PROVE RecoveryIsFinal
  <2>1. \A r : MatchingStates(r) = StatesIn(relayerTxs, r)
    BY DEF MatchingStates, StatesIn
  <2>2. \A r : MatchingStates(r) = {"Terminal"} => r \in DOMAIN relayerTxs
    BY DEF MatchingStates
  <2> QED BY <1>1, <2>1, <2>2 DEF ExecutionInv, ExecutionOK, DecisionHolds, RecoveryIsFinal
<1> QED BY <1>1, ExecutionInvariant, PTL

---------------------------------------------------------------------------
(***************************************************************************)
(* Metadata: rows and pages                                                *)
(***************************************************************************)

\* The rows of an event.
EventRows(e) ==
    {CanonicalNegRiskRow(e, m) : m \in {x \in e.markets : IsNegRisk(e, x) /\ WellFormed(e, x)}}

\* An event as a backend delivers it.
AsDelivered(backend, e) == IF backend = "sdk" THEN MapSdkEvent(e) ELSE e

\* The rows of the first n events of a listing, and of all of them.
RowsUpTo(l, backend, n) ==
    UNION {EventRows(AsDelivered(backend, l[j])) : j \in {k \in DOMAIN l : k <= n}}
RowsOfListing(l, backend) == UNION {EventRows(AsDelivered(backend, l[j])) : j \in DOMAIN l}

PageOf(l, offset) == SubSeq(l, offset + 1, Min({offset + PageLimit, Len(l)}))

LEMMA PageRowsAre ==
    ASSUME NEW events
    PROVE  PageRows(events) = UNION {EventRows(events[i]) : i \in DOMAIN events}
<1>1. PageRows(events) = UNION {EventRows(e) : e \in ToSet(events)}
  BY DEF PageRows, EventRows
<1>2. {EventRows(e) : e \in ToSet(events)} = {EventRows(events[i]) : i \in DOMAIN events}
  BY DEF ToSet
<1> QED BY <1>1, <1>2

LEMMA OneEventRows ==
    ASSUME NEW e
    PROVE  PageRows(<<e>>) = EventRows(e)
<1>1. ToSet(<<e>>) = {e}
  BY DEF ToSet
<1>2. PageRows(<<e>>) = UNION {EventRows(x) : x \in ToSet(<<e>>)}
  BY DEF PageRows, EventRows
<1> QED BY <1>1, <1>2

LEMMA MinOfTwo ==
    ASSUME NEW a \in Int, NEW b \in Int
    PROVE  Min({a, b}) = IF a <= b THEN a ELSE b
BY DEF Min

\* The events of a page.
LEMMA PageEvents ==
    ASSUME NEW l, l \in Seq(ToSet(l)), NEW offset \in Nat
    PROVE  LET page == PageOf(l, offset)
           IN  /\ page = [i \in DOMAIN page |-> page[i]]
               /\ page = <<>> => Len(l) <= offset
               /\ \A i \in DOMAIN page : /\ i \in Nat \ {0} /\ i <= PageLimit /\ offset + i <= Len(l)
                                         /\ page[i] = l[offset + i]
               /\ \A i \in Nat \ {0} : i <= PageLimit /\ offset + i <= Len(l) => i \in DOMAIN page
<1> DEFINE n == Min({offset + PageLimit, Len(l)})
           page == PageOf(l, offset)
<1>1. PageLimit \in Nat \ {0} /\ Len(l) \in Nat
  BY MetadataAssumption
<1>2. n = IF offset + PageLimit <= Len(l) THEN offset + PageLimit ELSE Len(l)
  BY <1>1, MinOfTwo
<1> HIDE DEF n
<1>3. n \in Int /\ offset + 1 \in Int
  BY <1>1, <1>2
<1>4. \A i \in (offset + 1)..n : l[i] \in ToSet(l)
  <2>1. DOMAIN l = 1..Len(l)
    OBVIOUS
  <2>2. \A i \in (offset + 1)..n : i \in 1..Len(l)
    BY <1>1, <1>2
  <2> QED BY <2>1, <2>2 DEF ToSet
<1>5. page = SubSeq(l, offset + 1, n)
  BY DEF PageOf, n
<1> HIDE DEF page
<1>6. /\ page \in Seq(ToSet(l))
      /\ Len(page) = IF offset + 1 <= n THEN n - (offset + 1) + 1 ELSE 0
      /\ \A i \in 1..(n - (offset + 1) + 1) : page[i] = l[offset + 1 + i - 1]
  BY <1>3, <1>4, <1>5, SubSeqProperties
<1>7. DOMAIN page = 1..Len(page)
  BY <1>6
<1>8. page = <<>> => Len(l) <= offset
  <2>1. page = <<>> => Len(page) = 0
    OBVIOUS
  <2> QED BY <1>1, <1>2, <1>6, <2>1
<1>9. ASSUME NEW i \in DOMAIN page
      PROVE  i \in Nat \ {0} /\ i <= PageLimit /\ offset + i <= Len(l) /\ page[i] = l[offset + i]
  <2>1. i \in 1..Len(page) /\ Len(page) \in Nat
    BY <1>6, <1>7
  <2>2. i \in Nat \ {0} /\ i <= n - (offset + 1) + 1
    BY <1>3, <1>6, <2>1
  <2>3. i <= PageLimit /\ offset + i <= Len(l)
    BY <1>1, <1>2, <2>2
  <2>4. i \in 1..(n - (offset + 1) + 1) /\ offset + 1 + i - 1 = offset + i
    BY <1>3, <2>2
  <2> QED BY <1>6, <2>2, <2>3, <2>4
<1>10. ASSUME NEW i \in Nat \ {0}, i <= PageLimit, offset + i <= Len(l) PROVE i \in DOMAIN page
  BY <1>1, <1>2, <1>6, <1>7, <1>10
<1>11. page = [i \in DOMAIN page |-> page[i]]
  BY <1>6
<1> QED BY <1>8, <1>9, <1>10, <1>11 DEF page

\* A page that is empty is behind the last event.
LEMMA EndOfListing ==
    ASSUME NEW l, l \in Seq(ToSet(l)), NEW offset \in Nat, PageOf(l, offset) = <<>>, NEW backend
    PROVE  RowsUpTo(l, backend, offset) = RowsOfListing(l, backend)
<1>1. Len(l) <= offset
  BY PageEvents
<1>2. DOMAIN l = 1..Len(l) /\ Len(l) \in Nat
  OBVIOUS
<1>3. {k \in DOMAIN l : k <= offset} = DOMAIN l
  BY <1>1, <1>2
<1> QED BY <1>3 DEF RowsUpTo, RowsOfListing

\* The rows of a page join those of the events before it.
LEMMA NextPageRows ==
    ASSUME NEW l, l \in Seq(ToSet(l)), NEW offset \in Nat, NEW backend
    PROVE  LET page == PageOf(l, offset)
           IN  RowsUpTo(l, backend, offset)
                   \cup PageRows([i \in DOMAIN page |-> AsDelivered(backend, page[i])])
               = RowsUpTo(l, backend, offset + PageLimit)
<1> DEFINE page == PageOf(l, offset)
           events == [i \in DOMAIN page |-> AsDelivered(backend, page[i])]
           R(j) == EventRows(AsDelivered(backend, l[j]))
<1>1. PageLimit \in Nat \ {0} /\ DOMAIN l = 1..Len(l) /\ Len(l) \in Nat
  BY MetadataAssumption
<1>2. /\ \A i \in DOMAIN page : /\ i \in Nat \ {0} /\ i <= PageLimit /\ offset + i <= Len(l)
                                /\ page[i] = l[offset + i]
      /\ \A i \in Nat \ {0} : i <= PageLimit /\ offset + i <= Len(l) => i \in DOMAIN page
  BY PageEvents
<1> HIDE DEF page
<1>3. PageRows(events) = UNION {EventRows(events[i]) : i \in DOMAIN events}
  BY PageRowsAre
<1>4. DOMAIN events = DOMAIN page /\ \A i \in DOMAIN page : EventRows(events[i]) = R(offset + i)
  BY <1>2
<1> HIDE DEF events
<1>5. PageRows(events) = UNION {R(offset + i) : i \in DOMAIN page}
  BY <1>3, <1>4
<1>6. /\ RowsUpTo(l, backend, offset) = UNION {R(j) : j \in {k \in DOMAIN l : k <= offset}}
      /\ RowsUpTo(l, backend, offset + PageLimit)
             = UNION {R(j) : j \in {k \in DOMAIN l : k <= offset + PageLimit}}
  BY DEF RowsUpTo
<1> HIDE DEF R
<1>7. ASSUME NEW x, x \in PageRows(events) PROVE x \in RowsUpTo(l, backend, offset + PageLimit)
  <2>1. PICK i \in DOMAIN page : x \in R(offset + i)
    BY <1>5, <1>7
  <2>2. offset + i \in DOMAIN l /\ offset + i <= offset + PageLimit
    BY <1>1, <1>2
  <2> QED BY <1>6, <2>1, <2>2
<1>8. ASSUME NEW x, x \in RowsUpTo(l, backend, offset) PROVE x \in RowsUpTo(l, backend, offset + PageLimit)
  <2>1. PICK j \in DOMAIN l : j <= offset /\ x \in R(j)
    BY <1>6, <1>8
  <2>2. j <= offset + PageLimit
    BY <1>1, <2>1
  <2> QED BY <1>6, <2>1, <2>2
<1>9. ASSUME NEW x, x \in RowsUpTo(l, backend, offset + PageLimit), x \notin RowsUpTo(l, backend, offset)
      PROVE  x \in PageRows(events)
  <2>1. PICK j \in DOMAIN l : j <= offset + PageLimit /\ x \in R(j)
    BY <1>6, <1>9
  <2>2. ~(j <= offset)
    BY <1>6, <1>9, <2>1
  <2>3. /\ j - offset \in Nat \ {0} /\ j - offset <= PageLimit
        /\ offset + (j - offset) <= Len(l) /\ offset + (j - offset) = j
    BY <1>1, <2>1, <2>2
  <2>4. j - offset \in DOMAIN page
    BY <1>2, <2>3
  <2> QED BY <1>5, <2>1, <2>3, <2>4
<1>10. RowsUpTo(l, backend, offset) \cup PageRows(events) = RowsUpTo(l, backend, offset + PageLimit)
  BY <1>7, <1>8, <1>9
<1> QED BY <1>10 DEF events, page

---------------------------------------------------------------------------
(***************************************************************************)
(* Metadata: the inductive invariant                                       *)
(***************************************************************************)

RefreshFields == {"stage", "backend", "mode", "from", "read"}
ReadFields == {"offset", "attempt", "rows", "skipped"}

\* A snapshot that was read from one listing has the rows of it.
SnapshotOK(s, version) ==
    /\ s.from \in Nat /\ s.to \in Nat /\ s.to <= version
    /\ ~ConflictingDuplicateRow(s.rows)
    /\ s.from = s.to => s.rows = RowsOfListing(s.listed, s.backend)

CacheOK(cache, version) ==
    /\ IsSequence(cache)
    /\ \A i \in DOMAIN cache :
          /\ SnapshotOK(cache[i], version)
          /\ cache[i].revision = i
          /\ i > 1 => cache[i - 1].to <= cache[i].from

\* A refresh that reads started after the last snapshot was published, and has the
\* rows of the events before its offset if the listing is still the one it began with.
ReadOK(read, l, backend, still) ==
    /\ read = [x \in ReadFields |-> read[x]]
    /\ read.offset \in Nat
    /\ ~ConflictingDuplicateRow(read.rows)
    /\ still => read.rows = RowsUpTo(l, backend, read.offset)

RefreshOK(m, l, version, cache) ==
    /\ m.stage \in {"waiting", "reading"} => m = [x \in RefreshFields |-> m[x]]
    /\ m.stage = "waiting" => m.read = Unfetched
    /\ m.stage = "reading" =>
           /\ m.from \in Nat /\ m.from <= version
           /\ \A i \in DOMAIN cache : cache[i].to <= m.from
           /\ ReadOK(m.read, l, m.backend, m.from = version)

MetadataOK(l, version, cache, lock, refreshes) ==
    /\ version \in Nat
    /\ l \in Seq(ToSet(l))
    /\ CacheOK(cache, version)
    /\ refreshes = [c \in Caller |-> refreshes[c]]
    /\ \A c \in Caller : /\ RefreshOK(refreshes[c], l, version, cache)
                         /\ refreshes[c].stage = "reading" => lock = c

MetadataInv == MetadataOK(listing, listingVersion, metadataCache, refreshLock, refreshOf)

\* A caller moves on; another that reads holds the lock.
LEMMA CallerMoves ==
    ASSUME NEW l, NEW version, NEW cache, NEW lock, NEW refreshes,
           MetadataOK(l, version, cache, lock, refreshes),
           NEW c \in Caller, NEW m, RefreshOK(m, l, version, cache), NEW after,
           m.stage = "reading" => after = c,
           \A d \in Caller \ {c} : refreshes[d].stage = "reading" => after = d
    PROVE  MetadataOK(l, version, cache, after, [refreshes EXCEPT ![c] = m])
<1> DEFINE us == [refreshes EXCEPT ![c] = m]
<1>1. us = [d \in Caller |-> us[d]] /\ us[c] = m /\ \A d \in Caller \ {c} : us[d] = refreshes[d]
  BY DEF MetadataOK
<1> HIDE DEF us
<1>2. \A d \in Caller : RefreshOK(us[d], l, version, cache) /\ (us[d].stage = "reading" => after = d)
  BY <1>1 DEF MetadataOK
<1> QED BY <1>1, <1>2 DEF MetadataOK, us

LEMMA MetadataInitOK == MetadataInit => MetadataInv
<1> SUFFICES ASSUME MetadataInit PROVE MetadataInv
  OBVIOUS
<1>1. listing \in Seq(ToSet(listing)) /\ listingVersion \in Nat
  BY MetadataAssumption DEF MetadataInit
<1>2. metadataCache \in Seq({}) /\ DOMAIN metadataCache = {}
  BY DEF MetadataInit
<1>3. CacheOK(metadataCache, listingVersion)
  BY <1>2, SequenceOfRange DEF CacheOK
<1>4. \A c \in Caller : refreshOf[c].stage = "idle"
  BY DEF MetadataInit, NoRefresh
<1>5. \A c \in Caller : RefreshOK(refreshOf[c], listing, listingVersion, metadataCache)
  BY <1>4 DEF RefreshOK
<1>6. refreshOf = [c \in Caller |-> refreshOf[c]]
  BY DEF MetadataInit
<1> QED BY <1>1, <1>3, <1>4, <1>5, <1>6 DEF MetadataInv, MetadataOK

\* The refresh that holds the lock publishes: its snapshot is of no earlier
\* listing than the last one, and no other refresh is reading.
LEMMA Published ==
    ASSUME MetadataInv, NEW c \in Caller, refreshOf[c].stage = "reading", NEW rows,
           PublishSnapshot(c, rows), UNCHANGED <<listing, listingVersion>>,
           ~ConflictingDuplicateRow(rows),
           refreshOf[c].from = listingVersion => rows = RowsOfListing(listing, refreshOf[c].backend)
    PROVE  MetadataInv'
<1> DEFINE s == [revision |-> NextDiscoveryRevision, rows |-> rows,
                 from |-> refreshOf[c].from, to |-> listingVersion, listed |-> listing,
                 backend |-> refreshOf[c].backend]
           m == [stage |-> "answered", answer |-> s]
           k == Len(metadataCache) + 1
<1>1. /\ metadataCache' = Append(metadataCache, s)
      /\ refreshOf' = [refreshOf EXCEPT ![c] = m] /\ refreshLock' = None
  BY DEF PublishSnapshot
<1>2. /\ listingVersion \in Nat /\ listing \in Seq(ToSet(listing))
      /\ CacheOK(metadataCache, listingVersion) /\ IsSequence(metadataCache)
      /\ refreshOf = [d \in Caller |-> refreshOf[d]]
  BY DEF MetadataInv, MetadataOK, CacheOK
<1>3. /\ refreshOf[c].from \in Nat /\ refreshOf[c].from <= listingVersion
      /\ \A i \in DOMAIN metadataCache : metadataCache[i].to <= refreshOf[c].from
  BY DEF MetadataInv, MetadataOK, RefreshOK
<1>4. /\ DOMAIN metadataCache = 1..Len(metadataCache) /\ Len(metadataCache) \in Nat
  BY <1>2 DEF IsSequence
<1>5. s.revision = k
  <2>1. CASE metadataCache = <<>>
    <3>1. Len(metadataCache) = 0
      BY <2>1
    <3> QED BY <2>1, <3>1 DEF NextDiscoveryRevision
  <2>2. CASE metadataCache # <<>>
    <3>1. Len(metadataCache) \in DOMAIN metadataCache
      BY <1>2, <1>4, <2>2, EmptySeq DEF IsSequence
    <3>2. Last(metadataCache).revision = Len(metadataCache)
      BY <1>2, <3>1 DEF CacheOK, Last
    <3> QED BY <2>2, <3>2 DEF NextDiscoveryRevision
  <2> QED BY <2>1, <2>2
<1>6. /\ s.from = refreshOf[c].from /\ s.to = listingVersion /\ s.rows = rows
      /\ s.listed = listing /\ s.backend = refreshOf[c].backend
  OBVIOUS
<1>7. m.stage = "answered"
  OBVIOUS
<1> HIDE DEF s, m
<1>8. SnapshotOK(s, listingVersion)
  BY <1>2, <1>3, <1>6 DEF SnapshotOK
<1>9. /\ IsSequence(metadataCache')
      /\ DOMAIN metadataCache' = DOMAIN metadataCache \cup {k}
      /\ metadataCache'[k] = s
      /\ \A i \in DOMAIN metadataCache : i # k /\ metadataCache'[i] = metadataCache[i]
  BY <1>1, <1>2, SequenceAppend
<1>10. CacheOK(metadataCache', listingVersion)
  <2>1. ASSUME NEW i \in DOMAIN metadataCache
        PROVE  /\ SnapshotOK(metadataCache'[i], listingVersion) /\ metadataCache'[i].revision = i
               /\ i > 1 => metadataCache'[i - 1].to <= metadataCache'[i].from
    <3>1. i > 1 => i - 1 \in DOMAIN metadataCache
      BY <1>4
    <3> QED BY <1>2, <1>9, <3>1 DEF CacheOK
  <2>2. k > 1 => metadataCache'[k - 1].to <= metadataCache'[k].from
    <3>1. k > 1 => k - 1 \in DOMAIN metadataCache
      BY <1>4
    <3> QED BY <1>3, <1>6, <1>9, <3>1
  <2> QED BY <1>5, <1>8, <1>9, <2>1, <2>2 DEF CacheOK
<1>11. \A d \in Caller \ {c} : refreshOf[d].stage # "reading"
  BY DEF MetadataInv, MetadataOK
<1>12. /\ refreshOf' = [d \in Caller |-> refreshOf'[d]] /\ refreshOf'[c] = m
       /\ \A d \in Caller \ {c} : refreshOf'[d] = refreshOf[d]
  BY <1>1, <1>2
<1>13. ASSUME NEW d \in Caller
       PROVE  /\ RefreshOK(refreshOf'[d], listing, listingVersion, metadataCache')
              /\ refreshOf'[d].stage # "reading"
  <2>1. CASE d = c
    BY <1>7, <1>12, <2>1 DEF RefreshOK
  <2>2. CASE d # c
    <3>1. RefreshOK(refreshOf[d], listing, listingVersion, metadataCache)
      BY DEF MetadataInv, MetadataOK
    <3> QED BY <1>11, <1>12, <2>2, <3>1 DEF RefreshOK
  <2> QED BY <2>1, <2>2
<1> QED BY <1>2, <1>10, <1>12, <1>13 DEF MetadataInv, MetadataOK

\* A refresh that fails gives its lock back.
LEMMA RefreshFailed ==
    ASSUME MetadataInv, NEW c \in Caller, refreshOf[c].stage = "reading", FailRefresh(c),
           UNCHANGED <<listing, listingVersion>>
    PROVE  MetadataInv'
<1> DEFINE m == [stage |-> "answered", answer |-> FallbackAnswer(c)]
<1>1. refreshOf' = [refreshOf EXCEPT ![c] = m] /\ refreshLock' = None /\ UNCHANGED metadataCache
  BY DEF FailRefresh
<1>2. m.stage = "answered"
  OBVIOUS
<1> HIDE DEF m
<1>3. RefreshOK(m, listing, listingVersion, metadataCache)
  BY <1>2 DEF RefreshOK
<1>4. \A d \in Caller \ {c} : refreshOf[d].stage # "reading"
  BY DEF MetadataInv, MetadataOK
<1>5. MetadataOK(listing, listingVersion, metadataCache, None, [refreshOf EXCEPT ![c] = m])
  BY <1>2, <1>3, <1>4, CallerMoves DEF MetadataInv
<1> QED BY <1>1, <1>5 DEF MetadataInv

\* A turn of either loop.
LEMMA PageRead ==
    ASSUME MetadataInv, NEW c \in Caller, refreshOf[c].stage = "reading",
           NEW page, page = PageAt(refreshOf[c].read.offset),
           NEW events, events = [i \in DOMAIN page |-> AsDelivered(refreshOf[c].backend, page[i])],
           IF page = <<>> THEN FinishDiscovery(c) ELSE AbsorbPage(c, events),
           UNCHANGED <<listing, listingVersion>>
    PROVE  MetadataInv'
<1> DEFINE m == refreshOf[c]
           read == m.read
           rows == read.rows \cup PageRows(events)
<1>1. /\ listingVersion \in Nat /\ listing \in Seq(ToSet(listing))
      /\ refreshOf = [d \in Caller |-> refreshOf[d]]
      /\ RefreshOK(m, listing, listingVersion, metadataCache) /\ refreshLock = c
  BY DEF MetadataInv, MetadataOK
<1>2. /\ m = [x \in RefreshFields |-> m[x]]
      /\ ReadOK(read, listing, m.backend, m.from = listingVersion)
  BY <1>1 DEF RefreshOK
<1>3. page = PageOf(listing, read.offset) /\ read.offset \in Nat
  BY <1>2 DEF PageAt, PageOf, ReadOK
<1>4. CASE page = <<>>
  <2>1. CASE FailRefresh(c)
    BY <2>1, RefreshFailed
  <2>2. CASE PublishSnapshot(c, read.rows)
    <3>1. RowsUpTo(listing, m.backend, read.offset) = RowsOfListing(listing, m.backend)
      BY <1>1, <1>3, <1>4, EndOfListing
    <3>2. /\ ~ConflictingDuplicateRow(read.rows)
          /\ m.from = listingVersion => read.rows = RowsOfListing(listing, m.backend)
      BY <1>2, <3>1 DEF ReadOK
    <3> QED BY <2>2, <3>2, Published
  <2> QED BY <1>4, <2>1, <2>2 DEF FinishDiscovery
<1>5. CASE page # <<>> /\ ConflictingDuplicateRow(rows)
  BY <1>5, RefreshFailed DEF AbsorbPage
<1>6. CASE page # <<>> /\ ~ConflictingDuplicateRow(rows)
  <2> DEFINE next == [offset |-> read.offset + PageLimit, attempt |-> 1, rows |-> rows,
                      skipped |-> read.skipped \/ SkipsRows(events)]
             n == [m EXCEPT !.read = next]
  <2>1. refreshOf' = [refreshOf EXCEPT ![c].read = next] /\ UNCHANGED <<metadataCache, refreshLock>>
    BY <1>6 DEF AbsorbPage
  <2>2. refreshOf' = [refreshOf EXCEPT ![c] = n]
    BY <1>1, <2>1
  <2>3. RowsUpTo(listing, m.backend, read.offset) \cup PageRows(events)
            = RowsUpTo(listing, m.backend, read.offset + PageLimit)
    <3>1. listing \in Seq(ToSet(listing)) /\ read.offset \in Nat
      BY <1>1, <1>3
    <3>2. events = [i \in DOMAIN PageOf(listing, read.offset) |->
                        AsDelivered(m.backend, PageOf(listing, read.offset)[i])]
      BY <1>3
    <3> HIDE DEF m, read
    <3> QED BY <3>1, <3>2, NextPageRows
  <2>4. m.from = listingVersion => rows = RowsUpTo(listing, m.backend, read.offset + PageLimit)
    BY <1>2, <2>3 DEF ReadOK
  <2>5. PageLimit \in Nat
    BY MetadataAssumption
  <2> HIDE DEF rows
  <2>6. next = [x \in ReadFields |-> next[x]] /\ next.offset = read.offset + PageLimit /\ next.rows = rows
    BY DEF ReadFields
  <2> HIDE DEF next
  <2>7. ReadOK(next, listing, m.backend, m.from = listingVersion)
    BY <1>3, <1>6, <2>4, <2>5, <2>6 DEF ReadOK
  <2>8. /\ n = [x \in RefreshFields |-> n[x]] /\ n.stage = "reading" /\ n.read = next
        /\ n.backend = m.backend /\ n.from = m.from
    BY <1>2 DEF RefreshFields
  <2> HIDE DEF n
  <2>9. RefreshOK(n, listing, listingVersion, metadataCache)
    BY <1>1, <2>7, <2>8 DEF RefreshOK
  <2>10. \A d \in Caller \ {c} : refreshOf[d].stage # "reading"
    BY DEF MetadataInv, MetadataOK
  <2>11. MetadataOK(listing, listingVersion, metadataCache, refreshLock, [refreshOf EXCEPT ![c] = n])
    BY <1>1, <2>9, <2>10, CallerMoves DEF MetadataInv
  <2> QED BY <2>1, <2>2, <2>11 DEF MetadataInv
<1> QED BY <1>4, <1>5, <1>6

\* A page that does not arrive is asked for again, or ends the refresh.
LEMMA PageFailed ==
    ASSUME MetadataInv, NEW c \in Caller, refreshOf[c].stage = "reading", NEW retryable,
           PageFails(c, retryable)
    PROVE  MetadataInv'
<1>1. UNCHANGED <<listing, listingVersion>>
  BY DEF PageFails
<1>2. CASE FailRefresh(c)
  BY <1>1, <1>2, RefreshFailed
<1>3. CASE refreshOf' = [refreshOf EXCEPT ![c].read.attempt = @ + 1] /\ UNCHANGED <<metadataCache, refreshLock>>
  <2> DEFINE m == refreshOf[c]
             read == m.read
             next == [read EXCEPT !.attempt = @ + 1]
             n == [m EXCEPT !.read = next]
  <2>1. /\ refreshOf = [d \in Caller |-> refreshOf[d]] /\ refreshLock = c
        /\ RefreshOK(m, listing, listingVersion, metadataCache)
    BY DEF MetadataInv, MetadataOK
  <2>2. /\ m = [x \in RefreshFields |-> m[x]]
        /\ ReadOK(read, listing, m.backend, m.from = listingVersion)
    BY <2>1 DEF RefreshOK
  <2>3. refreshOf' = [refreshOf EXCEPT ![c] = n]
    BY <1>3, <2>1
  <2>4. next = [x \in ReadFields |-> next[x]] /\ next.offset = read.offset /\ next.rows = read.rows
    BY <2>2 DEF ReadOK, ReadFields
  <2> HIDE DEF next
  <2>5. ReadOK(next, listing, m.backend, m.from = listingVersion)
    BY <2>2, <2>4 DEF ReadOK
  <2>6. /\ n = [x \in RefreshFields |-> n[x]] /\ n.stage = "reading" /\ n.read = next
        /\ n.backend = m.backend /\ n.from = m.from
    BY <2>2 DEF RefreshFields
  <2> HIDE DEF n
  <2>7. RefreshOK(n, listing, listingVersion, metadataCache)
    BY <2>1, <2>5, <2>6 DEF RefreshOK
  <2>8. \A d \in Caller \ {c} : refreshOf[d].stage # "reading"
    BY DEF MetadataInv, MetadataOK
  <2>9. MetadataOK(listing, listingVersion, metadataCache, refreshLock, [refreshOf EXCEPT ![c] = n])
    BY <2>1, <2>7, <2>8, CallerMoves DEF MetadataInv
  <2> QED BY <1>1, <1>3, <2>3, <2>9 DEF MetadataInv
<1> QED BY <1>2, <1>3 DEF PageFails

LEMMA MetadataNextOK == MetadataInv /\ [MetadataNext]_metadataVars => MetadataInv'
<1> SUFFICES ASSUME MetadataInv, [MetadataNext]_metadataVars PROVE MetadataInv'
  OBVIOUS
<1>1. /\ listingVersion \in Nat /\ listing \in Seq(ToSet(listing))
      /\ CacheOK(metadataCache, listingVersion)
      /\ refreshOf = [c \in Caller |-> refreshOf[c]]
      /\ \A c \in Caller : /\ RefreshOK(refreshOf[c], listing, listingVersion, metadataCache)
                           /\ refreshOf[c].stage = "reading" => refreshLock = c
  BY DEF MetadataInv, MetadataOK
<1>2. CASE VenueListingChanges
  <2>1. /\ listingVersion' = listingVersion + 1 /\ listing' \in Listing
        /\ UNCHANGED <<metadataCache, refreshLock, refreshOf>>
    BY <1>2 DEF VenueListingChanges
  <2>2. listingVersion' \in Nat /\ listing' \in Seq(ToSet(listing'))
    BY <1>1, <2>1, MetadataAssumption
  <2>3. CacheOK(metadataCache, listingVersion')
    <3>1. ASSUME NEW s, SnapshotOK(s, listingVersion) PROVE SnapshotOK(s, listingVersion')
      BY <1>1, <2>1, <3>1 DEF SnapshotOK
    <3> QED BY <1>1, <3>1 DEF CacheOK
  <2>4. ASSUME NEW c \in Caller PROVE RefreshOK(refreshOf[c], listing', listingVersion', metadataCache)
    <3> DEFINE m == refreshOf[c]
    <3>1. RefreshOK(m, listing, listingVersion, metadataCache)
      BY <1>1
    <3> HIDE DEF m
    <3>2. ASSUME m.stage = "reading"
          PROVE  m.from <= listingVersion' /\ ReadOK(m.read, listing', m.backend, m.from = listingVersion')
      <4>1. m.from \in Nat /\ m.from <= listingVersion
        BY <3>1, <3>2 DEF RefreshOK
      <4>2. m.from <= listingVersion' /\ m.from # listingVersion'
        BY <1>1, <2>1, <4>1
      <4> QED BY <3>1, <3>2, <4>2 DEF RefreshOK, ReadOK
    <3>3. RefreshOK(m, listing', listingVersion', metadataCache)
      BY <3>1, <3>2 DEF RefreshOK
    <3> QED BY <3>3 DEF m
  <2> QED BY <1>1, <2>1, <2>2, <2>3, <2>4 DEF MetadataInv, MetadataOK
<1>3. ASSUME NEW c \in Caller, NEW backend, NEW mode, StartRefresh(c, backend, mode) PROVE MetadataInv'
  <2> DEFINE m == [stage |-> "waiting", backend |-> backend, mode |-> mode, from |-> 0, read |-> Unfetched]
  <2>1. /\ refreshOf' = [refreshOf EXCEPT ![c] = m]
        /\ UNCHANGED <<listing, listingVersion, metadataCache, refreshLock>>
    BY <1>3 DEF StartRefresh
  <2>2. m = [x \in RefreshFields |-> m[x]] /\ m.stage = "waiting" /\ m.read = Unfetched
    BY DEF RefreshFields
  <2> HIDE DEF m
  <2>3. RefreshOK(m, listing, listingVersion, metadataCache)
    BY <2>2 DEF RefreshOK
  <2>4. MetadataOK(listing, listingVersion, metadataCache, refreshLock, [refreshOf EXCEPT ![c] = m])
    BY <1>1, <2>2, <2>3, CallerMoves DEF MetadataInv
  <2> QED BY <2>1, <2>4 DEF MetadataInv
<1>4. ASSUME NEW c \in Caller, AcquireRefreshLock(c) PROVE MetadataInv'
  <2> DEFINE m == refreshOf[c]
             n == [m EXCEPT !.stage = "reading", !.from = listingVersion]
  <2>1. /\ m.stage = "waiting" /\ refreshLock = None /\ refreshLock' = c
        /\ refreshOf' = [refreshOf EXCEPT ![c].stage = "reading", ![c].from = listingVersion]
        /\ UNCHANGED <<listing, listingVersion, metadataCache>>
    BY <1>4 DEF AcquireRefreshLock
  <2>2. refreshOf' = [refreshOf EXCEPT ![c] = n]
    BY <1>1, <2>1
  <2>3. m = [x \in RefreshFields |-> m[x]] /\ m.read = Unfetched
    BY <1>1, <2>1 DEF RefreshOK
  <2>4. /\ n = [x \in RefreshFields |-> n[x]] /\ n.stage = "reading" /\ n.from = listingVersion
        /\ n.read = Unfetched /\ n.backend = m.backend
    BY <2>3 DEF RefreshFields
  <2> HIDE DEF n
  <2>5. ReadOK(Unfetched, listing, m.backend, n.from = listingVersion)
    <3>1. /\ Unfetched = [x \in ReadFields |-> Unfetched[x]]
          /\ Unfetched.offset = 0 /\ Unfetched.rows = {}
      BY DEF Unfetched, ReadFields
    <3>2. ~ConflictingDuplicateRow({})
      BY DEF ConflictingDuplicateRow
    <3>3. {k \in DOMAIN listing : k <= 0} = {}
      BY <1>1
    <3>4. RowsUpTo(listing, m.backend, 0) = {}
      BY <3>3 DEF RowsUpTo
    <3> QED BY <3>1, <3>2, <3>4 DEF ReadOK
  <2>6. \A i \in DOMAIN metadataCache : metadataCache[i].to <= listingVersion
    BY <1>1 DEF CacheOK, SnapshotOK
  <2>7. RefreshOK(n, listing, listingVersion, metadataCache)
    BY <1>1, <2>4, <2>5, <2>6 DEF RefreshOK
  <2>8. \A d \in Caller \ {c} : refreshOf[d].stage # "reading"
    BY <1>1, <2>1, MetadataAssumption
  <2>9. MetadataOK(listing, listingVersion, metadataCache, c, [refreshOf EXCEPT ![c] = n])
    BY <2>7, <2>8, CallerMoves DEF MetadataInv
  <2> QED BY <2>1, <2>2, <2>9 DEF MetadataInv
<1>5. ASSUME NEW c \in Caller, DiscoverFromApi(c) PROVE MetadataInv'
  <2> DEFINE page == PageAt(refreshOf[c].read.offset)
  <2>1. refreshOf[c].stage = "reading" /\ refreshOf[c].backend = "sdk"
    BY <1>5 DEF DiscoverFromApi, Reading
  <2>2. [i \in DOMAIN page |-> MapSdkEvent(page[i])]
            = [i \in DOMAIN page |-> AsDelivered(refreshOf[c].backend, page[i])]
    BY <2>1 DEF AsDelivered
  <2> QED BY <1>5, <2>1, <2>2, PageRead DEF DiscoverFromApi
<1>6. ASSUME NEW c \in Caller, DiscoverFromRest(c) PROVE MetadataInv'
  <2> DEFINE page == PageAt(refreshOf[c].read.offset)
  <2>1. refreshOf[c].stage = "reading" /\ refreshOf[c].backend = "rest"
    BY <1>6 DEF DiscoverFromRest, Reading
  <2>2. page = [i \in DOMAIN page |-> AsDelivered(refreshOf[c].backend, page[i])]
    <3>1. [i \in DOMAIN page |-> AsDelivered(refreshOf[c].backend, page[i])] = [i \in DOMAIN page |-> page[i]]
      BY <2>1 DEF AsDelivered
    <3>2. refreshOf[c].read.offset \in Nat
      BY <1>1, <2>1 DEF RefreshOK, ReadOK
    <3>3. page = [i \in DOMAIN page |-> page[i]]
      <4> DEFINE p == PageOf(listing, refreshOf[c].read.offset)
      <4>1. p = [i \in DOMAIN p |-> p[i]]
        BY <1>1, <3>2, PageEvents
      <4>2. page = p
        BY DEF PageAt, PageOf
      <4> HIDE DEF p, page
      <4> QED BY <4>1, <4>2
    <3> QED BY <3>1, <3>3
  <2> QED BY <1>6, <2>1, <2>2, PageRead DEF DiscoverFromRest
<1>7. ASSUME NEW c \in Caller, SdkPageFails(c) PROVE MetadataInv'
  BY <1>7, PageFailed DEF SdkPageFails, Reading
<1>8. ASSUME NEW c \in Caller, RestPageFails(c) PROVE MetadataInv'
  BY <1>8, PageFailed DEF RestPageFails, Reading
<1>9. ASSUME NEW c \in Caller, CallerReturns(c) PROVE MetadataInv'
  <2>1. /\ refreshOf' = [refreshOf EXCEPT ![c] = NoRefresh]
        /\ UNCHANGED <<listing, listingVersion, metadataCache, refreshLock>>
    BY <1>9 DEF CallerReturns
  <2>2. NoRefresh.stage = "idle"
    BY DEF NoRefresh
  <2>3. RefreshOK(NoRefresh, listing, listingVersion, metadataCache)
    BY <2>2 DEF RefreshOK
  <2>4. MetadataOK(listing, listingVersion, metadataCache, refreshLock, [refreshOf EXCEPT ![c] = NoRefresh])
    BY <1>1, <2>2, <2>3, CallerMoves DEF MetadataInv
  <2> QED BY <2>1, <2>4 DEF MetadataInv
<1>10. CASE UNCHANGED metadataVars
  BY <1>10 DEF metadataVars, MetadataInv
<1> QED BY <1>2, <1>3, <1>4, <1>5, <1>6, <1>7, <1>8, <1>9, <1>10 DEF MetadataNext

LEMMA MetadataInvariant == MetadataSpec => []MetadataInv
BY MetadataInitOK, MetadataNextOK, PTL DEF MetadataSpec

\* Revisions count the snapshots and follow the venue's listings, for every
\* number of callers: a refresh holds the lock from before its first page until
\* its snapshot is published.
THEOREM RevisionsAlwaysFollow == MetadataSpec => []RevisionsFollowListing
<1>1. MetadataInv => RevisionsFollowListing
  BY DEF MetadataInv, MetadataOK, CacheOK, RevisionsFollowListing
<1> QED BY <1>1, MetadataInvariant, PTL

\* A snapshot of a listing that stood still has the rows of all its events, for
\* every page size, listing and place of its malformed events.
THEOREM QuietSnapshotsAreWhole == MetadataSpec => []QuietSnapshotIsWhole
<1>1. ASSUME MetadataInv PROVE QuietSnapshotIsWhole
  <2>1. SUFFICES ASSUME NEW i \in DOMAIN metadataCache
                 PROVE  LET s == metadataCache[i]
                        IN  /\ ~ConflictingDuplicateRow(s.rows)
                            /\ s.from = s.to =>
                                  s.rows = UNION {PageRows(<<Delivered(s)[j]>>) : j \in DOMAIN s.listed}
    BY DEF QuietSnapshotIsWhole
  <2> DEFINE s == metadataCache[i]
  <2>2. SnapshotOK(s, listingVersion)
    BY <1>1 DEF MetadataInv, MetadataOK, CacheOK
  <2> HIDE DEF s
  <2>3. ASSUME NEW j \in DOMAIN s.listed
        PROVE  PageRows(<<Delivered(s)[j]>>) = EventRows(AsDelivered(s.backend, s.listed[j]))
    <3>1. Delivered(s)[j] = AsDelivered(s.backend, s.listed[j])
      BY DEF Delivered, AsDelivered
    <3> QED BY <3>1, OneEventRows
  <2>4. UNION {PageRows(<<Delivered(s)[j]>>) : j \in DOMAIN s.listed} = RowsOfListing(s.listed, s.backend)
    BY <2>3 DEF RowsOfListing
  <2> QED BY <2>2, <2>4 DEF SnapshotOK, s
<1> QED BY <1>1, MetadataInvariant, PTL

---------------------------------------------------------------------------
(***************************************************************************)
(* The events of the sessions: flattened sequences                         *)
(***************************************************************************)

\* A set of naturals that is not empty has a least element.
LEMMA LeastNumber ==
    ASSUME NEW S, S \subseteq Nat, S # {}
    PROVE  \E k \in S : \A j \in S : k <= j
<1>1. PICK k \in S : \A j \in S : ~(<<j, k>> \in OpToRel(<, Nat))
  BY NatLessThanWellFounded, WFMin
<1>2. ASSUME NEW j \in S PROVE k <= j
  <2>1. ~(j < k)
    BY <1>1 DEF OpToRel
  <2>2. k \in Nat /\ j \in Nat
    BY <1>1
  <2> QED BY <2>1, <2>2
<1> QED BY <1>1, <1>2

\* f[i] is the concatenation of the first i of the sequences, up to n.
Flattens(f, seqs, n) == f = [i \in 1..n |-> IF i = 1 THEN seqs[i] ELSE f[i - 1] \o seqs[i]]

LEMMA FlattensAt ==
    ASSUME NEW f, NEW seqs, NEW n \in Nat, Flattens(f, seqs, n), NEW i \in 1..n
    PROVE  f[i] = IF i = 1 THEN seqs[i] ELSE f[i - 1] \o seqs[i]
<1> DEFINE g == [j \in 1..n |-> IF j = 1 THEN seqs[j] ELSE f[j - 1] \o seqs[j]]
<1>1. f = g
  BY DEF Flattens
<1>2. g[i] = IF i = 1 THEN seqs[i] ELSE f[i - 1] \o seqs[i]
  OBVIOUS
<1> HIDE DEF g
<1> QED BY <1>1, <1>2

LEMMA FlattensUnique ==
    ASSUME NEW f, NEW g, NEW seqs, NEW n \in Nat, Flattens(f, seqs, n), Flattens(g, seqs, n)
    PROVE  f = g
<1>1. f = [i \in 1..n |-> f[i]] /\ g = [i \in 1..n |-> g[i]]
  BY DEF Flattens
<1>2. ASSUME NEW d \in 1..n, f[d] # g[d] PROVE FALSE
  <2> DEFINE S == {i \in 1..n : f[i] # g[i]}
  <2>1. PICK k \in S : \A j \in S : k <= j
    <3>1. S \subseteq Nat /\ S # {}
      BY <1>2
    <3> QED BY <3>1, LeastNumber
  <2>2. k \in 1..n /\ f[k] # g[k]
    BY <2>1
  <2>3. k # 1
    BY <2>2, FlattensAt
  <2>4. k - 1 \in 1..n /\ k - 1 < k
    BY <2>2, <2>3
  <2>5. f[k - 1] = g[k - 1]
    <3>1. k - 1 \notin S
      BY <2>1, <2>2, <2>4
    <3> QED BY <2>4, <3>1
  <2>6. f[k] = f[k - 1] \o seqs[k] /\ g[k] = g[k - 1] \o seqs[k]
    BY <2>2, <2>3, FlattensAt
  <2> QED BY <2>2, <2>5, <2>6
<1> QED BY <1>1, <1>2

\* One sequence more.
OneMore(f, n, e) == [i \in 1..(n + 1) |-> IF i <= n THEN f[i] ELSE IF n = 0 THEN e ELSE f[n] \o e]

LEMMA FlattensMore ==
    ASSUME NEW f, NEW seqs, NEW n \in Nat, Flattens(f, seqs, n), NEW t,
           \A i \in 1..n : t[i] = seqs[i]
    PROVE  Flattens(OneMore(f, n, t[n + 1]), t, n + 1)
<1> DEFINE g == OneMore(f, n, t[n + 1])
           h == [i \in 1..(n + 1) |-> IF i = 1 THEN t[i] ELSE g[i - 1] \o t[i]]
<1>1. \A i \in 1..(n + 1) : g[i] = IF i <= n THEN f[i] ELSE IF n = 0 THEN t[n + 1] ELSE f[n] \o t[n + 1]
  BY DEF OneMore
<1>2. g = [i \in 1..(n + 1) |-> g[i]]
  BY DEF OneMore
<1> HIDE DEF g
<1>kept. \A i \in 1..(n + 1) : i <= n => g[i] = f[i]
  BY <1>1
<1>3. ASSUME NEW i \in 1..(n + 1) PROVE g[i] = IF i = 1 THEN t[i] ELSE g[i - 1] \o t[i]
  <2>1. CASE i <= n /\ i = 1
    <3>1. i \in 1..n
      BY <2>1
    <3>2. g[i] = f[i] /\ f[i] = seqs[i] /\ seqs[i] = t[i]
      BY <1>1, <2>1, <3>1, FlattensAt
    <3> QED BY <2>1, <3>2
  <2>2. CASE i <= n /\ i # 1
    <3>1. i \in 1..n /\ i - 1 \in 1..(n + 1) /\ i - 1 <= n
      BY <2>2
    <3>2. g[i] = f[i]
      BY <1>kept, <2>2
    <3>3. g[i - 1] = f[i - 1]
      <4> DEFINE k == i - 1
      <4>1. k \in 1..(n + 1) /\ k <= n
        BY <3>1
      <4> HIDE DEF k
      <4>2. g[k] = f[k]
        BY <1>kept, <4>1
      <4> QED BY <4>2 DEF k
    <3>4. f[i] = f[i - 1] \o seqs[i]
      BY <2>2, <3>1, FlattensAt
    <3>5. seqs[i] = t[i]
      BY <3>1
    <3> QED BY <2>2, <3>2, <3>3, <3>4, <3>5
  <2>3. CASE ~(i <= n) /\ n = 0
    <3>1. i = 1 /\ n + 1 = 1
      BY <2>3
    <3> QED BY <1>1, <2>3, <3>1
  <2>4. CASE ~(i <= n) /\ n # 0
    <3>1. i = n + 1 /\ i # 1 /\ i - 1 = n /\ n \in 1..(n + 1) /\ n <= n
      BY <2>4
    <3>2. g[n] = f[n]
      BY <1>1, <3>1
    <3>3. g[i] = f[n] \o t[n + 1]
      BY <1>1, <2>4, <3>1
    <3> QED BY <3>1, <3>2, <3>3
  <2> QED BY <2>1, <2>2, <2>3, <2>4
<1>4. g = h
  BY <1>2, <1>3
<1> HIDE DEF h
<1>5. Flattens(g, t, n + 1)
  BY <1>4 DEF Flattens, h
<1> QED BY <1>5 DEF g

LEMMA FlattensExists ==
    ASSUME NEW seqs, NEW n \in Nat
    PROVE  \E f : Flattens(f, seqs, n)
<1> DEFINE S == {m \in Nat : ~\E f : Flattens(f, seqs, m)}
<1>1. ASSUME S # {} PROVE FALSE
  <2>1. PICK k \in S : \A j \in S : k <= j
    BY <1>1, LeastNumber
  <2>2. k \in Nat /\ ~\E f : Flattens(f, seqs, k)
    BY <2>1
  <2>3. k # 0
    <3>1. Flattens([i \in 1..0 |-> 0], seqs, 0)
      BY DEF Flattens
    <3> QED BY <2>2, <3>1
  <2>4. k - 1 \in Nat /\ k - 1 < k /\ (k - 1) + 1 = k
    BY <2>2, <2>3
  <2>5. k - 1 \notin S
    BY <2>1, <2>4
  <2>6. PICK f : Flattens(f, seqs, k - 1)
    BY <2>4, <2>5
  <2>7. Flattens(OneMore(f, k - 1, seqs[(k - 1) + 1]), seqs, (k - 1) + 1)
    BY <2>4, <2>6, FlattensMore
  <2> QED BY <2>2, <2>4, <2>7
<1> QED BY <1>1

\* What FlattenSeq computes.
LEMMA FlattenSeqIs ==
    ASSUME NEW seqs, NEW n \in Nat, n = Len(seqs), NEW f, Flattens(f, seqs, n)
    PROVE  FlattenSeq(seqs) = IF n = 0 THEN seqs ELSE f[n]
<1> DEFINE g == CHOOSE h : h = [i \in 1..Len(seqs) |-> IF i = 1 THEN seqs[i] ELSE h[i - 1] \o seqs[i]]
<1>1. Flattens(g, seqs, n)
  BY FlattensExists DEF Flattens
<1>2. f = g
  BY <1>1, FlattensUnique
<1>3. FlattenSeq(seqs) = IF n = 0 THEN seqs ELSE g[n]
  BY DEF FlattenSeq
<1> HIDE DEF g
<1> QED BY <1>2, <1>3

\* The last sequence comes last.
LEMMA FlattenAppend ==
    ASSUME NEW E, NEW seqs \in Seq(Seq(E)), NEW e \in Seq(E)
    PROVE  FlattenSeq(Append(seqs, e)) = FlattenSeq(seqs) \o e
<1> DEFINE n == Len(seqs)
           t == Append(seqs, e)
<1>1. n \in Nat /\ Len(t) = n + 1 /\ t[n + 1] = e /\ \A i \in 1..n : t[i] = seqs[i]
  OBVIOUS
<1>2. n = 0 => seqs = <<>>
  OBVIOUS
<1> HIDE DEF n, t
<1>3. PICK f : Flattens(f, seqs, n)
  BY <1>1, FlattensExists
<1>4. Flattens(OneMore(f, n, e), t, n + 1)
  BY <1>1, <1>3, FlattensMore
<1>5. FlattenSeq(t) = OneMore(f, n, e)[n + 1]
  <2>1. n + 1 \in Nat /\ n + 1 # 0
    BY <1>1
  <2> QED BY <1>1, <1>4, <2>1, FlattenSeqIs
<1>6. OneMore(f, n, e)[n + 1] = IF n = 0 THEN e ELSE f[n] \o e
  <2>1. n + 1 \in 1..(n + 1) /\ ~(n + 1 <= n)
    BY <1>1
  <2> QED BY <2>1 DEF OneMore
<1>7. FlattenSeq(seqs) = IF n = 0 THEN seqs ELSE f[n]
  BY <1>1, <1>3, FlattenSeqIs DEF n
<1>8. n = 0 => FlattenSeq(seqs) \o e = e
  BY <1>2, <1>7, ConcatEmptySeq
<1> QED BY <1>5, <1>6, <1>7, <1>8 DEF t

---------------------------------------------------------------------------
(***************************************************************************)
(* The events of the sessions: delivered once                              *)
(***************************************************************************)

Frame == [id : Nat, kind : FrameKinds]

Event == Nat \X (1..BatchSize)

\* EventsOf, with the gateway as a parameter.
EventsRead(gateway, ch, frame) ==
    IF gateway THEN FirstEvent(frame)
    ELSE IF ~TransportMessageToPayload(frame) THEN None
    ELSE IF ch = "market" THEN ParseMarketMessages(frame) ELSE ParseUserMessage(frame)

\* The events of a frame; an error has none.
EventsIn(gateway, ch, frame) ==
    IF EventsRead(gateway, ch, frame) = None THEN <<>> ELSE EventsRead(gateway, ch, frame)

EventsOfAll(gateway, ch, frames) == [i \in DOMAIN frames |-> EventsIn(gateway, ch, frames[i])]

\* The frames read and those that wait to be: a transport has all that were
\* sent, a gateway some of them, each of them once and in their order.
IdsOK(gateway, sent, frames) ==
    /\ ~gateway => Len(frames) = sent /\ \A i \in 1..Len(frames) : frames[i].id = i
    /\ \A i \in 1..Len(frames) : frames[i].id <= sent
    /\ \A i, j \in 1..Len(frames) : j < i => frames[j].id < frames[i].id

\* One channel: its types, the frames, and that what was read is what was
\* delivered and what waits.
DeliveryOK(gateway, ch, sent, unread, read, given, waiting) ==
    /\ IdsOK(gateway, sent, read \o unread)
    /\ sent \in Nat
    /\ unread \in Seq(Frame) /\ read \in Seq(Frame)
    /\ given \in Seq(Event) /\ waiting \in Seq(Event)
    /\ given \o waiting = FlattenSeq(EventsOfAll(gateway, ch, read))

\* A call is the gateway's, and nothing was pending.
CollectingOK == collecting \in Channels => wsGateway /\ pendingEvents[collecting] = <<>>

ClientInv ==
    /\ wsGateway \in BOOLEAN /\ CollectingOK
    /\ framesSent = [ch \in Channels |-> framesSent[ch]]
    /\ stream = [ch \in Channels |-> stream[ch]]
    /\ readFrames = [ch \in Channels |-> readFrames[ch]]
    /\ delivered = [ch \in Channels |-> delivered[ch]]
    /\ pendingEvents = [ch \in Channels |-> pendingEvents[ch]]
    /\ \A ch \in Channels :
          DeliveryOK(wsGateway, ch, framesSent[ch], stream[ch], readFrames[ch], delivered[ch],
                    pendingEvents[ch])

\* The parsers return sequences of events.
LEMMA EventsAreEvents ==
    ASSUME NEW gateway, NEW ch, NEW frame \in Frame
    PROVE  EventsIn(gateway, ch, frame) \in Seq(Event)
<1>1. frame.id \in Nat /\ frame.kind \in FrameKinds
  BY DEF Frame
<1>2. <<<<frame.id, 1>>>> \in Seq(Event)
  <2>1. <<frame.id, 1>> \in Event
    BY <1>1 DEF Event, BatchSize
  <2> QED BY <2>1
<1>3. [k \in 1..BatchSize |-> <<frame.id, k>>] \in Seq(Event)
  <2>1. \A k \in 1..BatchSize : <<frame.id, k>> \in Event
    BY <1>1 DEF Event, BatchSize
  <2>2. BatchSize \in Nat
    BY DEF BatchSize
  <2> QED BY <2>1, <2>2
<1>4. <<>> \in Seq(Event)
  OBVIOUS
<1>5. FirstEvent(frame) \in Seq(Event) \cup {None}
  BY <1>2 DEF FirstEvent
<1>6. ParseMarketMessages(frame) \in Seq(Event) \cup {None}
  BY <1>1, <1>2, <1>3, <1>4 DEF ParseMarketMessages, FrameKinds
<1>7. ParseUserMessage(frame) \in Seq(Event) \cup {None}
  BY <1>2 DEF ParseUserMessage
<1>8. EventsRead(gateway, ch, frame) \in Seq(Event) \cup {None}
  BY <1>5, <1>6, <1>7 DEF EventsRead
<1> QED BY <1>4, <1>8 DEF EventsIn

\* A frame more: its events come last.
LEMMA OneFrameMore ==
    ASSUME NEW gateway, NEW ch, NEW read \in Seq(Frame), NEW frame \in Frame
    PROVE  FlattenSeq(EventsOfAll(gateway, ch, Append(read, frame)))
               = FlattenSeq(EventsOfAll(gateway, ch, read)) \o EventsIn(gateway, ch, frame)
<1> DEFINE all == EventsOfAll(gateway, ch, read)
           more == EventsOfAll(gateway, ch, Append(read, frame))
           last == EventsIn(gateway, ch, frame)
           n == Len(read)
<1>1. n \in Nat /\ DOMAIN read = 1..n
  OBVIOUS
<1>2. \A i \in 1..n : read[i] \in Frame
  OBVIOUS
<1>3. DOMAIN Append(read, frame) = 1..(n + 1) /\ Append(read, frame)[n + 1] = frame
      /\ \A i \in 1..n : Append(read, frame)[i] = read[i]
  OBVIOUS
<1>4. last \in Seq(Event)
  BY EventsAreEvents
<1>5. all = [i \in 1..n |-> EventsIn(gateway, ch, read[i])]
  BY <1>1 DEF EventsOfAll
<1>6. all \in Seq(Seq(Event)) /\ Len(all) = n
  <2>1. \A i \in 1..n : EventsIn(gateway, ch, read[i]) \in Seq(Event)
    BY <1>2, EventsAreEvents
  <2> HIDE DEF all, n
  <2> QED BY <1>1, <1>5, <2>1
<1>7. more = [i \in 1..(n + 1) |-> EventsIn(gateway, ch, Append(read, frame)[i])]
  BY <1>3 DEF EventsOfAll
<1>8. more = Append(all, last)
  <2>1. /\ Append(all, last) \in Seq(Seq(Event)) /\ Len(Append(all, last)) = n + 1
        /\ Append(all, last)[n + 1] = last
        /\ \A i \in 1..n : Append(all, last)[i] = all[i]
    <3> HIDE DEF all, last, n
    <3> QED BY <1>4, <1>6, AppendProperties
  <2>2. ASSUME NEW i \in 1..(n + 1)
        PROVE  EventsIn(gateway, ch, Append(read, frame)[i]) = Append(all, last)[i]
    <3>1. CASE i = n + 1
      BY <1>3, <2>1, <3>1
    <3>2. CASE i # n + 1
      <4>1. i \in 1..n
        BY <1>1, <3>2
      <4>2. all[i] = EventsIn(gateway, ch, read[i])
        BY <1>5, <4>1
      <4>3. Append(read, frame)[i] = read[i]
        BY <1>3, <4>1
      <4>4. Append(all, last)[i] = all[i]
        BY <2>1, <4>1
      <4> HIDE DEF all, last, n
      <4> QED BY <4>2, <4>3, <4>4
    <3> QED BY <3>1, <3>2
  <2>3. \A i \in 1..(n + 1) : Append(all, last)[i] \in Seq(Event)
    <3> HIDE DEF all, last, n
    <3> QED BY <1>1, <2>1, ElementOfSeq
  <2> HIDE DEF all, last, n, more
  <2>4. more \in Seq(Seq(Event)) /\ Len(more) = n + 1
    <3> DEFINE m == n + 1
    <3>1. m \in Nat
      BY <1>1
    <3>2. \A i \in 1..m : more[i] \in Seq(Event)
      BY <1>7, <2>2, <2>3
    <3>3. more = [i \in 1..m |-> more[i]]
      BY <1>7
    <3> HIDE DEF m
    <3>4. more \in Seq(Seq(Event)) /\ Len(more) = m
      BY <3>1, <3>2, <3>3
    <3> QED BY <3>4 DEF m
  <2>5. \A i \in 1..(n + 1) : more[i] = Append(all, last)[i]
    BY <1>7, <2>2
  <2> QED BY <2>1, <2>4, <2>5, SeqEqual
<1> HIDE DEF all, last, more
<1>9. FlattenSeq(Append(all, last)) = FlattenSeq(all) \o last
  BY <1>4, <1>6, FlattenAppend
<1> QED BY <1>8, <1>9 DEF all, last, more

\* The next event that waits is given: what was given and what waits is the
\* same sequence.
LEMMA PoppedOK ==
    ASSUME NEW gateway, NEW ch, NEW sent, NEW unread, NEW read, NEW given, NEW waiting,
           DeliveryOK(gateway, ch, sent, unread, read, given, waiting), waiting # <<>>
    PROVE  DeliveryOK(gateway, ch, sent, unread, read, Append(given, Head(waiting)), Tail(waiting))
<1>1. given \in Seq(Event) /\ waiting \in Seq(Event)
  BY DEF DeliveryOK
<1>2. Head(waiting) \in Event /\ Tail(waiting) \in Seq(Event)
  BY <1>1, HeadTailProperties
<1>3. Append(given, Head(waiting)) = given \o <<Head(waiting)>>
  BY <1>1, <1>2, AppendIsConcat
<1>4. <<Head(waiting)>> \in Seq(Event) /\ <<Head(waiting)>> \o Tail(waiting) = waiting
  BY <1>1, <1>2
<1>5. (given \o <<Head(waiting)>>) \o Tail(waiting) = given \o (<<Head(waiting)>> \o Tail(waiting))
  BY <1>1, <1>2, <1>4, ConcatAssociative
<1>6. Append(given, Head(waiting)) \in Seq(Event)
  BY <1>1, <1>2, AppendProperties
<1> QED BY <1>2, <1>3, <1>4, <1>5, <1>6 DEF DeliveryOK

\* The frames but for the last ones, which a gateway drops.
LEMMA FewerIds ==
    ASSUME NEW sent, NEW frames \in Seq(Frame), NEW dropped \in Seq(Frame),
           IdsOK(TRUE, sent, frames \o dropped)
    PROVE  IdsOK(TRUE, sent, frames)
<1> DEFINE all == frames \o dropped
<1>1. Len(frames) \in Nat /\ Len(dropped) \in Nat
  BY LenProperties
<1>2. Len(all) = Len(frames) + Len(dropped) /\ \A i \in 1..Len(frames) : all[i] = frames[i]
  BY ConcatProperties
<1>3. \A i \in 1..Len(frames) : i \in 1..Len(all)
  BY <1>1, <1>2
<1> QED BY <1>2, <1>3 DEF IdsOK

\* The frames read: all of them in their order, or some of them in their order.
IdsRead(gateway, read) ==
    \A i \in DOMAIN read : IF gateway THEN \A j \in 1..(i - 1) : read[j].id < read[i].id
                                      ELSE read[i].id = i

LEMMA IdsAreRead ==
    ASSUME NEW gateway, NEW sent, NEW read \in Seq(Frame), NEW unread \in Seq(Frame),
           IdsOK(gateway, sent, read \o unread)
    PROVE  IdsRead(gateway, read)
<1>1. PICK n \in Nat : n = Len(read) /\ DOMAIN read = 1..n
  BY LenProperties
<1>2. PICK m \in Nat : m = Len(unread)
  BY LenProperties
<1>3. PICK all : all = read \o unread
  OBVIOUS
<1>4. Len(all) = n + m /\ \A i \in 1..n : all[i] = read[i]
  BY <1>1, <1>2, <1>3, ConcatProperties
<1>5. IdsOK(gateway, sent, all)
  BY <1>3
<1>6. ASSUME NEW i \in 1..n, ~gateway PROVE read[i].id = i
  <2>1. i \in 1..Len(all) /\ all[i] = read[i]
    BY <1>4
  <2> QED BY <1>5, <1>6, <2>1 DEF IdsOK
<1>7. ASSUME NEW i \in 1..n, NEW j \in 1..(i - 1) PROVE read[j].id < read[i].id
  <2>1. i \in 1..Len(all) /\ j \in 1..Len(all) /\ j \in 1..n /\ j < i
    BY <1>4
  <2>2. all[i] = read[i] /\ all[j] = read[j]
    BY <1>4, <2>1
  <2>3. all[j].id < all[i].id
    BY <1>5, <2>1 DEF IdsOK
  <2> QED BY <2>2, <2>3
<1> QED BY <1>1, <1>6, <1>7 DEF IdsRead

\* A frame the venue sends.
LEMMA OneIdMore ==
    ASSUME NEW gateway, NEW sent \in Nat, NEW frames \in Seq(Frame), IdsOK(gateway, sent, frames),
           NEW frame \in Frame, frame.id = sent + 1
    PROVE  IdsOK(gateway, sent + 1, Append(frames, frame))
<1> DEFINE all == Append(frames, frame)
           n == Len(frames)
<1>1. n \in Nat /\ Len(all) = n + 1 /\ all[n + 1] = frame /\ \A i \in 1..n : all[i] = frames[i]
  BY AppendProperties, LenProperties
<1>2. \A i \in 1..n : frames[i].id \in Nat /\ frames[i].id <= sent
  <2>1. \A i \in 1..Len(frames) : frames[i] \in Frame
    BY ElementOfSeq
  <2> QED BY <2>1 DEF IdsOK, Frame
<1> HIDE DEF all, n
<1>3. ASSUME NEW i \in 1..(n + 1)
      PROVE  i = n + 1 \/ i \in 1..n
  BY <1>1
<1>4. ASSUME NEW i \in 1..(n + 1) PROVE all[i].id <= sent + 1
  BY <1>1, <1>2, <1>3
<1>5. ASSUME NEW i \in 1..(n + 1), NEW j \in 1..(n + 1), j < i
      PROVE  all[j].id < all[i].id
  <2>1. j \in 1..n
    BY <1>1, <1>5
  <2>2. CASE i = n + 1
    BY <1>1, <1>2, <2>1, <2>2
  <2>3. CASE i \in 1..n
    BY <1>1, <1>5, <2>1, <2>3 DEF IdsOK, n
  <2> QED BY <1>3, <2>2, <2>3
<1>6. ASSUME ~gateway PROVE n + 1 = sent + 1 /\ \A i \in 1..(n + 1) : all[i].id = i
  BY <1>1, <1>3, <1>6 DEF IdsOK, n
<1> QED BY <1>1, <1>4, <1>5, <1>6 DEF IdsOK, all

\* A gateway drops what it has not read.
LEMMA DroppedOK ==
    ASSUME NEW ch, NEW sent, NEW unread, NEW read, NEW given, NEW waiting,
           DeliveryOK(TRUE, ch, sent, unread, read, given, waiting)
    PROVE  DeliveryOK(TRUE, ch, sent, <<>>, read, given, waiting)
<1>1. unread \in Seq(Frame) /\ read \in Seq(Frame) /\ IdsOK(TRUE, sent, read \o unread)
  BY DEF DeliveryOK
<1>2. IdsOK(TRUE, sent, read)
  BY <1>1, FewerIds
<1>3. read \o <<>> = read /\ <<>> \in Seq(Frame)
  BY <1>1, ConcatEmptySeq
<1> QED BY <1>2, <1>3 DEF DeliveryOK

\* A frame is read and its first event given.
LEMMA FrameReadOK ==
    ASSUME NEW gateway, NEW ch, NEW sent, NEW unread, NEW read, NEW given,
           DeliveryOK(gateway, ch, sent, unread, read, given, <<>>), unread # <<>>,
           NEW events, events = EventsRead(gateway, ch, Head(unread))
    PROVE  /\ events \in {None, <<>>} =>
                 DeliveryOK(gateway, ch, sent, Tail(unread), Append(read, Head(unread)), given, <<>>)
           /\ events \notin {None, <<>>} =>
                 DeliveryOK(gateway, ch, sent, Tail(unread), Append(read, Head(unread)),
                           Append(given, Head(events)), Tail(events))
<1> DEFINE frame == Head(unread)
           rest == Tail(unread)
           more == Append(read, frame)
           last == EventsIn(gateway, ch, frame)
<1>1. sent \in Nat /\ unread \in Seq(Frame) /\ read \in Seq(Frame) /\ given \in Seq(Event)
  BY DEF DeliveryOK
<1>2. given \o <<>> = FlattenSeq(EventsOfAll(gateway, ch, read))
  BY DEF DeliveryOK
<1>3. frame \in Frame /\ rest \in Seq(Frame)
  BY <1>1, HeadTailProperties
<1>4. more \in Seq(Frame)
  BY <1>1, <1>3, AppendProperties
<1>5. last \in Seq(Event)
  BY <1>3, EventsAreEvents
<1>6. given \o <<>> = given
  BY <1>1, ConcatEmptySeq
<1>7. FlattenSeq(EventsOfAll(gateway, ch, more)) = given \o last
  BY <1>1, <1>2, <1>3, <1>6, OneFrameMore
<1>8. events = EventsRead(gateway, ch, frame)
  OBVIOUS
<1>12. IdsOK(gateway, sent, more \o rest)
  <2>1. more = read \o <<frame>>
    BY <1>1, <1>3, AppendIsConcat
  <2>2. <<frame>> \in Seq(Frame) /\ <<frame>> \o rest = unread
    BY <1>1, <1>3
  <2>3. (read \o <<frame>>) \o rest = read \o (<<frame>> \o rest)
    BY <1>1, <1>3, <2>2, ConcatAssociative
  <2> QED BY <2>1, <2>2, <2>3 DEF DeliveryOK
<1> HIDE DEF frame, rest, more, last
<1>9. DeliveryOK(gateway, ch, sent, rest, more, given, last)
  BY <1>1, <1>3, <1>4, <1>5, <1>7, <1>12 DEF DeliveryOK
<1>10. CASE events \in {None, <<>>}
  <2>1. last = <<>>
    BY <1>8, <1>10 DEF EventsIn, last
  <2> QED BY <1>9, <1>10, <2>1 DEF frame, rest, more
<1>11. CASE events \notin {None, <<>>}
  <2>1. last = events
    BY <1>8, <1>11 DEF EventsIn, last
  <2>2. events # <<>>
    BY <1>11
  <2>3. DeliveryOK(gateway, ch, sent, rest, more, Append(given, Head(events)), Tail(events))
    BY <1>9, <2>1, <2>2, PoppedOK
  <2> QED BY <1>11, <2>3 DEF frame, rest, more
<1> QED BY <1>10, <1>11

LEMMA ClientInitOK == VenueSessionsInit => ClientInv
<1> SUFFICES ASSUME VenueSessionsInit PROVE ClientInv
  OBVIOUS
<1> USE DEF VenueSessionsInit, ClientInit
<1>1. <<>> \in Seq(Frame) /\ <<>> \in Seq(Event)
  OBVIOUS
<1>2. ASSUME NEW ch \in Channels PROVE <<>> \o <<>> = FlattenSeq(EventsOfAll(wsGateway, ch, <<>>))
  <2>1. EventsOfAll(wsGateway, ch, <<>>) = <<>>
    BY DEF EventsOfAll
  <2>2. FlattenSeq(<<>>) = <<>>
    BY DEF FlattenSeq
  <2> QED BY <2>1, <2>2
<1>3. IdsOK(wsGateway, 0, <<>> \o <<>>)
  <2>1. <<>> \o <<>> = <<>> /\ Len(<<>>) = 0
    OBVIOUS
  <2> QED BY <2>1 DEF IdsOK
<1>4. ASSUME NEW ch \in Channels
      PROVE  DeliveryOK(wsGateway, ch, framesSent[ch], stream[ch], readFrames[ch], delivered[ch],
                       pendingEvents[ch])
  BY <1>1, <1>2, <1>3, <1>4 DEF DeliveryOK
<1>5. collecting \notin Channels
  BY DEF Channels
<1> QED BY <1>4, <1>5 DEF ClientInv, CollectingOK

\* A channel moves and the other does not.
LEMMA ChannelMoves ==
    ASSUME ClientInv, NEW ch \in Channels, NEW sent, NEW unread, NEW read, NEW given, NEW waiting,
           DeliveryOK(wsGateway, ch, sent, unread, read, given, waiting),
           framesSent' = [framesSent EXCEPT ![ch] = sent],
           stream' = [stream EXCEPT ![ch] = unread],
           readFrames' = [readFrames EXCEPT ![ch] = read],
           delivered' = [delivered EXCEPT ![ch] = given],
           pendingEvents' = [pendingEvents EXCEPT ![ch] = waiting],
           wsGateway' = wsGateway, CollectingOK'
    PROVE  ClientInv'
<1>1. ASSUME NEW c \in Channels
      PROVE  DeliveryOK(wsGateway', c, framesSent'[c], stream'[c], readFrames'[c], delivered'[c],
                       pendingEvents'[c])
  <2>1. CASE c = ch
    <3>1. framesSent'[c] = sent /\ stream'[c] = unread /\ readFrames'[c] = read
          /\ delivered'[c] = given /\ pendingEvents'[c] = waiting
      BY <2>1 DEF ClientInv
    <3> QED BY <2>1, <3>1
  <2>2. CASE c # ch
    <3>1. framesSent'[c] = framesSent[c] /\ stream'[c] = stream[c] /\ readFrames'[c] = readFrames[c]
          /\ delivered'[c] = delivered[c] /\ pendingEvents'[c] = pendingEvents[c]
      BY <2>2 DEF ClientInv
    <3> QED BY <3>1 DEF ClientInv
  <2> QED BY <2>1, <2>2
<1>2. /\ framesSent' = [c \in Channels |-> framesSent'[c]]
      /\ stream' = [c \in Channels |-> stream'[c]]
      /\ readFrames' = [c \in Channels |-> readFrames'[c]]
      /\ delivered' = [c \in Channels |-> delivered'[c]]
      /\ pendingEvents' = [c \in Channels |-> pendingEvents'[c]]
  BY DEF ClientInv
<1> QED BY <1>1, <1>2 DEF ClientInv

\* Nothing the invariant is about moves.
LEMMA ClientStill ==
    ASSUME ClientInv,
           UNCHANGED <<wsGateway, framesSent, stream, readFrames, delivered, pendingEvents>>,
           UNCHANGED collecting
    PROVE  ClientInv'
BY DEF ClientInv, CollectingOK

\* A channel as it is.
LEMMA ChannelAsItIs ==
    ASSUME ClientInv, NEW ch \in Channels
    PROVE  /\ DeliveryOK(wsGateway, ch, framesSent[ch], stream[ch], readFrames[ch], delivered[ch],
                        pendingEvents[ch])
           /\ framesSent = [framesSent EXCEPT ![ch] = framesSent[ch]]
           /\ stream = [stream EXCEPT ![ch] = stream[ch]]
           /\ readFrames = [readFrames EXCEPT ![ch] = readFrames[ch]]
           /\ delivered = [delivered EXCEPT ![ch] = delivered[ch]]
           /\ pendingEvents = [pendingEvents EXCEPT ![ch] = pendingEvents[ch]]
BY DEF ClientInv

\* next_market_event and next_user_event, after their conditions.
LEMMA PopPendingOK ==
    ASSUME ClientInv, NEW ch \in Channels, PopPending(ch)
    PROVE  ClientInv'
<1>1. DeliveryOK(wsGateway, ch, framesSent[ch], stream[ch], readFrames[ch],
                Append(delivered[ch], Head(pendingEvents[ch])), Tail(pendingEvents[ch]))
  BY ChannelAsItIs, PoppedOK DEF PopPending
<1>2. /\ delivered' = [delivered EXCEPT ![ch] = Append(delivered[ch], Head(pendingEvents[ch]))]
      /\ pendingEvents' = [pendingEvents EXCEPT ![ch] = Tail(pendingEvents[ch])]
      /\ UNCHANGED <<wsGateway, collecting, stream, framesSent, readFrames>>
      /\ collecting \notin Channels
  BY DEF PopPending, Free, Channels
<1>3. /\ framesSent' = [framesSent EXCEPT ![ch] = framesSent[ch]]
      /\ stream' = [stream EXCEPT ![ch] = stream[ch]]
      /\ readFrames' = [readFrames EXCEPT ![ch] = readFrames[ch]]
  BY <1>2, ChannelAsItIs
<1>4. /\ delivered' = [delivered EXCEPT ![ch] = Append(delivered[ch], Head(pendingEvents[ch]))]
      /\ pendingEvents' = [pendingEvents EXCEPT ![ch] = Tail(pendingEvents[ch])]
      /\ wsGateway' = wsGateway /\ CollectingOK'
  BY <1>2 DEF CollectingOK
<1> QED BY <1>1, <1>3, <1>4, ChannelMoves

\* The first frame is read and unread is what is left: the rest of it, or with
\* a gateway nothing.
LEMMA FirstFrameOK ==
    ASSUME ClientInv, NEW ch \in Channels, pendingEvents[ch] = <<>>, stream[ch] # <<>>,
           NEW unread, unread = Tail(stream[ch]) \/ (wsGateway = TRUE /\ unread = <<>>),
           stream' = [stream EXCEPT ![ch] = unread],
           readFrames' = [readFrames EXCEPT ![ch] = Append(readFrames[ch], Head(stream[ch]))],
           UNCHANGED <<wsGateway, framesSent>>, CollectingOK',
           DeliverEvents(ch, EventsOf(ch, Head(stream[ch])))
    PROVE  ClientInv'
<1> DEFINE events == EventsOf(ch, Head(stream[ch]))
           read == Append(readFrames[ch], Head(stream[ch]))
<1>1. events = EventsRead(wsGateway, ch, Head(stream[ch]))
  BY DEF EventsOf, EventsRead
<1>2. DeliverEvents(ch, events)
  OBVIOUS
<1>3. readFrames' = [readFrames EXCEPT ![ch] = read]
  OBVIOUS
<1>4. DeliveryOK(wsGateway, ch, framesSent[ch], stream[ch], readFrames[ch], delivered[ch], <<>>)
  BY ChannelAsItIs
<1>5. framesSent' = [framesSent EXCEPT ![ch] = framesSent[ch]]
  BY ChannelAsItIs
<1>6. /\ events \in {None, <<>>} =>
            DeliveryOK(wsGateway, ch, framesSent[ch], Tail(stream[ch]), read, delivered[ch], <<>>)
      /\ events \notin {None, <<>>} =>
            DeliveryOK(wsGateway, ch, framesSent[ch], Tail(stream[ch]), read,
                      Append(delivered[ch], Head(events)), Tail(events))
  BY <1>1, <1>4, FrameReadOK
<1> HIDE DEF events, read
<1>7. ASSUME NEW given, NEW waiting,
             DeliveryOK(wsGateway, ch, framesSent[ch], Tail(stream[ch]), read, given, waiting)
      PROVE  DeliveryOK(wsGateway, ch, framesSent[ch], unread, read, given, waiting)
  BY <1>7, DroppedOK
<1>8. CASE events \in {None, <<>>}
  <2>1. delivered' = delivered /\ pendingEvents' = pendingEvents
    BY <1>2, <1>8 DEF DeliverEvents
  <2>2. /\ delivered' = [delivered EXCEPT ![ch] = delivered[ch]]
        /\ pendingEvents' = [pendingEvents EXCEPT ![ch] = <<>>]
    BY <2>1, ChannelAsItIs
  <2>3. DeliveryOK(wsGateway, ch, framesSent[ch], unread, read, delivered[ch], <<>>)
    BY <1>6, <1>7, <1>8
  <2> QED BY <1>3, <1>5, <2>2, <2>3, ChannelMoves
<1>9. CASE events \notin {None, <<>>}
  <2>1. /\ delivered' = [delivered EXCEPT ![ch] = Append(delivered[ch], Head(events))]
        /\ pendingEvents' = [pendingEvents EXCEPT ![ch] = Tail(events)]
    BY <1>2, <1>9 DEF DeliverEvents
  <2>2. DeliveryOK(wsGateway, ch, framesSent[ch], unread, read, Append(delivered[ch], Head(events)),
                  Tail(events))
    BY <1>6, <1>7, <1>9
  <2> QED BY <1>3, <1>5, <2>1, <2>2, ChannelMoves
<1> QED BY <1>8, <1>9

LEMMA TakeFrameOK ==
    ASSUME ClientInv, NEW ch \in Channels, TakeFrame(ch) PROVE ClientInv'
<1>1. /\ pendingEvents[ch] = <<>> /\ stream[ch] # <<>>
      /\ readFrames' = [readFrames EXCEPT ![ch] = Append(readFrames[ch], Head(stream[ch]))]
      /\ UNCHANGED <<wsGateway, framesSent>>
      /\ DeliverEvents(ch, EventsOf(ch, Head(stream[ch])))
  BY DEF TakeFrame
<1>2. CollectingOK'
  <2>1. collecting' \notin Channels
    BY DEF TakeFrame, Free, Channels
  <2> QED BY <2>1 DEF CollectingOK
<1>3. PICK unread : unread = Tail(stream[ch])
  OBVIOUS
<1>4. stream' = [stream EXCEPT ![ch] = unread]
  <2>1. stream' = [stream EXCEPT ![ch] = Tail(stream[ch])]
    BY DEF TakeFrame
  <2> QED BY <1>3, <2>1
<1>5. unread = Tail(stream[ch]) \/ (wsGateway = TRUE /\ unread = <<>>)
  BY <1>3
<1> QED BY <1>1, <1>2, <1>4, <1>5, FirstFrameOK

\* A call of the gateway ends.
LEMMA CollectFirstOK ==
    ASSUME ClientInv, NEW ch \in Channels, CollectFirst(ch) PROVE ClientInv'
<1>1. /\ stream[ch] # <<>>
      /\ stream' = [stream EXCEPT ![ch] = <<>>]
      /\ readFrames' = [readFrames EXCEPT ![ch] = Append(readFrames[ch], Head(stream[ch]))]
      /\ UNCHANGED <<wsGateway, framesSent>>
      /\ DeliverEvents(ch, EventsOf(ch, Head(stream[ch])))
  BY DEF CollectFirst
<1>2. wsGateway = TRUE /\ pendingEvents[ch] = <<>>
  <2>1. collecting = ch
    BY DEF CollectFirst
  <2>2. wsGateway \in BOOLEAN
    BY DEF ClientInv
  <2> QED BY <2>1, <2>2 DEF ClientInv, CollectingOK
<1>3. CollectingOK'
  <2>1. collecting' \notin Channels
    BY DEF CollectFirst, Channels
  <2> QED BY <2>1 DEF CollectingOK
<1> QED BY <1>1, <1>2, <1>3, FirstFrameOK

LEMMA CollectFailsOK ==
    ASSUME ClientInv, NEW ch \in Channels, CollectFails(ch) PROVE ClientInv'
<1>1. /\ stream' = [stream EXCEPT ![ch] = <<>>]
      /\ UNCHANGED <<wsGateway, framesSent, readFrames, delivered, pendingEvents>>
  BY DEF CollectFails
<1>2. wsGateway = TRUE /\ CollectingOK'
  <2>1. collecting = ch /\ collecting' \notin Channels
    BY DEF CollectFails, Channels
  <2>2. wsGateway \in BOOLEAN
    BY DEF ClientInv
  <2> QED BY <2>1, <2>2 DEF ClientInv, CollectingOK
<1>3. DeliveryOK(wsGateway, ch, framesSent[ch], stream[ch], readFrames[ch], delivered[ch],
                pendingEvents[ch])
  BY ChannelAsItIs
<1>4. DeliveryOK(wsGateway, ch, framesSent[ch], <<>>, readFrames[ch], delivered[ch],
                pendingEvents[ch])
  BY <1>2, <1>3, DroppedOK
<1>5. /\ framesSent' = [framesSent EXCEPT ![ch] = framesSent[ch]]
      /\ readFrames' = [readFrames EXCEPT ![ch] = readFrames[ch]]
      /\ delivered' = [delivered EXCEPT ![ch] = delivered[ch]]
      /\ pendingEvents' = [pendingEvents EXCEPT ![ch] = pendingEvents[ch]]
  BY <1>1, ChannelAsItIs
<1>6. wsGateway' = wsGateway /\ CollectingOK'
  BY <1>1, <1>2
<1>7. stream' = [stream EXCEPT ![ch] = <<>>]
  BY <1>1
<1> QED BY <1>4, <1>5, <1>6, <1>7, ChannelMoves

LEMMA StartCollectingOK ==
    ASSUME ClientInv, NEW ch \in Channels, StartCollecting(ch) PROVE ClientInv'
<1>1. /\ wsGateway /\ pendingEvents[ch] = <<>> /\ collecting' = ch
      /\ UNCHANGED <<wsGateway, framesSent, stream, readFrames, delivered, pendingEvents>>
  BY DEF StartCollecting
<1> QED BY <1>1 DEF ClientInv, CollectingOK

\* A frame of the venue, that waits to be read.
LEMMA FrameSentOK ==
    ASSUME NEW gateway, NEW ch, NEW sent, NEW unread, NEW read, NEW given, NEW waiting,
           DeliveryOK(gateway, ch, sent, unread, read, given, waiting),
           NEW kind \in FrameKinds, NEW frame, frame = [id |-> sent + 1, kind |-> kind]
    PROVE  DeliveryOK(gateway, ch, sent + 1, Append(unread, frame), read, given, waiting)
<1>1. sent \in Nat /\ unread \in Seq(Frame) /\ read \in Seq(Frame) /\ IdsOK(gateway, sent, read \o unread)
  BY DEF DeliveryOK
<1>2. frame \in Frame /\ frame.id = sent + 1
  BY <1>1 DEF Frame
<1>3. Append(unread, frame) \in Seq(Frame) /\ sent + 1 \in Nat
  BY <1>1, <1>2, AppendProperties
<1>4. read \o unread \in Seq(Frame)
  BY <1>1, ConcatProperties
<1>5. IdsOK(gateway, sent + 1, Append(read \o unread, frame))
  BY <1>1, <1>2, <1>4, OneIdMore
<1>6. <<frame>> \in Seq(Frame)
  BY <1>2
<1>7. Append(unread, frame) = unread \o <<frame>>
      /\ Append(read \o unread, frame) = (read \o unread) \o <<frame>>
  BY <1>1, <1>2, <1>4, AppendIsConcat
<1>8. (read \o unread) \o <<frame>> = read \o (unread \o <<frame>>)
  BY <1>1, <1>6, ConcatAssociative
<1>9. IdsOK(gateway, sent + 1, read \o Append(unread, frame))
  BY <1>5, <1>7, <1>8
<1> QED BY <1>3, <1>9 DEF DeliveryOK

\* One that is lost: the gateway has no subscription for it.
LEMMA FrameLostOK ==
    ASSUME NEW ch, NEW sent, NEW unread, NEW read, NEW given, NEW waiting,
           DeliveryOK(TRUE, ch, sent, unread, read, given, waiting)
    PROVE  DeliveryOK(TRUE, ch, sent + 1, unread, read, given, waiting)
<1>1. sent \in Nat /\ unread \in Seq(Frame) /\ read \in Seq(Frame)
  BY DEF DeliveryOK
<1>2. PICK all : all = read \o unread
  OBVIOUS
<1>3. all \in Seq(Frame) /\ IdsOK(TRUE, sent, all)
  BY <1>1, <1>2, ConcatProperties DEF DeliveryOK
<1>4. \A i \in 1..Len(all) : all[i] \in Frame
  BY <1>3, ElementOfSeq
<1>5. IdsOK(TRUE, sent + 1, all)
  BY <1>1, <1>3, <1>4 DEF IdsOK, Frame
<1>6. sent + 1 \in Nat
  BY <1>1
<1> QED BY <1>2, <1>5, <1>6 DEF DeliveryOK

LEMMA VenueSendsFrameOK ==
    ASSUME ClientInv, NEW ch \in Channels, VenueSendsFrame(ch) PROVE ClientInv'
<1>1. /\ framesSent' = [framesSent EXCEPT ![ch] = framesSent[ch] + 1]
      /\ UNCHANGED <<wsGateway, collecting, readFrames, delivered, pendingEvents>>
  BY DEF VenueSendsFrame
<1>2. DeliveryOK(wsGateway, ch, framesSent[ch], stream[ch], readFrames[ch], delivered[ch],
                pendingEvents[ch])
  BY ChannelAsItIs
<1>3. /\ readFrames' = [readFrames EXCEPT ![ch] = readFrames[ch]]
      /\ delivered' = [delivered EXCEPT ![ch] = delivered[ch]]
      /\ pendingEvents' = [pendingEvents EXCEPT ![ch] = pendingEvents[ch]]
  BY <1>1, ChannelAsItIs
<1>4. wsGateway' = wsGateway /\ CollectingOK'
  BY <1>1 DEF ClientInv, CollectingOK
<1>5. framesSent' = [framesSent EXCEPT ![ch] = framesSent[ch] + 1]
  BY <1>1
<1>6. CASE wsGateway /\ UNCHANGED stream
  <2>1. wsGateway = TRUE
    BY <1>6 DEF ClientInv
  <2>2. DeliveryOK(wsGateway, ch, framesSent[ch] + 1, stream[ch], readFrames[ch], delivered[ch],
                  pendingEvents[ch])
    BY <1>2, <2>1, FrameLostOK
  <2>3. stream' = [stream EXCEPT ![ch] = stream[ch]]
    BY <1>6, ChannelAsItIs
  <2> QED BY <1>3, <1>4, <1>5, <2>2, <2>3, ChannelMoves
<1>7. CASE \E kind \in FrameKinds :
             stream' = [stream EXCEPT ![ch] =
                            Append(stream[ch], [id |-> framesSent[ch] + 1, kind |-> kind])]
  <2>1. PICK kind \in FrameKinds :
             stream' = [stream EXCEPT ![ch] =
                            Append(stream[ch], [id |-> framesSent[ch] + 1, kind |-> kind])]
    BY <1>7
  <2>2. PICK frame : frame = [id |-> framesSent[ch] + 1, kind |-> kind]
    OBVIOUS
  <2>3. DeliveryOK(wsGateway, ch, framesSent[ch] + 1, Append(stream[ch], frame), readFrames[ch],
                  delivered[ch], pendingEvents[ch])
    BY <1>2, <2>2, FrameSentOK
  <2>4. stream' = [stream EXCEPT ![ch] = Append(stream[ch], frame)]
    BY <2>1, <2>2
  <2> QED BY <1>3, <1>4, <1>5, <2>3, <2>4, ChannelMoves
<1> QED BY <1>6, <1>7 DEF VenueSendsFrame

LEMMA ClientNextOK ==
    ASSUME ClientInv, [VenueSessionsNext]_<<clientVars, monitorVars>>
    PROVE  ClientInv'
<1>1. "market" \in Channels /\ "user" \in Channels
  BY DEF Channels
<1>2. CASE ConnectClient
  BY <1>2, ClientStill DEF ConnectClient
<1>3. CASE NextMarketEvent
  BY <1>1, <1>3, PopPendingOK, TakeFrameOK, StartCollectingOK, CollectFirstOK, CollectFailsOK
     DEF NextMarketEvent
<1>4. CASE NextUserEvent
  BY <1>1, <1>4, PopPendingOK, TakeFrameOK, StartCollectingOK, CollectFirstOK, CollectFailsOK
     DEF NextUserEvent
<1>5. ASSUME NEW a \in Asset, SubscribeMarketAssets(<<a>>) PROVE ClientInv'
  BY <1>5, ClientStill DEF SubscribeMarketAssets
<1>6. ASSUME NEW a \in Asset, SubscribeUserMarkets(<<a>>) PROVE ClientInv'
  BY <1>6, ClientStill DEF SubscribeUserMarkets
<1>7. ASSUME NEW a \in Asset, NEW ch \in Channels, NEW op, UpdateSubscription(ch, op, <<a>>)
      PROVE  ClientInv'
  BY <1>7, ClientStill DEF UpdateSubscription
<1>8. ASSUME NEW ch \in Channels, SendPing(ch) PROVE ClientInv'
  BY <1>8, ClientStill DEF SendPing
<1>9. ASSUME NEW ch \in Channels, VenueSendsFrame(ch) PROVE ClientInv'
  BY <1>9, VenueSendsFrameOK
<1>10. CASE UNCHANGED clientVars
  BY <1>10, ClientStill DEF clientVars
<1> QED
  BY <1>2, <1>3, <1>4, <1>5, <1>6, <1>7, <1>8, <1>9, <1>10 DEF VenueSessionsNext, ClientNext

\* The events given and those that wait are all the events of the frames read,
\* for every number of frames and whatever their kinds; a transport reads every
\* frame in its order, and the calls of a gateway read no frame twice and none
\* after a later one.
THEOREM EventsAlwaysDeliveredOnce == VenueSessionsSpec => []EventsDeliveredOnce
<1>1. ASSUME ClientInv PROVE EventsDeliveredOnce
  <2>1. SUFFICES ASSUME NEW ch \in Channels
                 PROVE  /\ delivered[ch] \o pendingEvents[ch] =
                               FlattenSeq([i \in DOMAIN readFrames[ch] |->
                                   LET events == EventsOf(ch, readFrames[ch][i])
                                   IN  IF events = None THEN <<>> ELSE events])
                        /\ \A i \in DOMAIN readFrames[ch] :
                               IF wsGateway
                               THEN \A j \in 1..(i - 1) : readFrames[ch][j].id < readFrames[ch][i].id
                               ELSE readFrames[ch][i].id = i
    BY DEF EventsDeliveredOnce
  <2>2. [i \in DOMAIN readFrames[ch] |->
            LET events == EventsOf(ch, readFrames[ch][i])
            IN  IF events = None THEN <<>> ELSE events]
        = EventsOfAll(wsGateway, ch, readFrames[ch])
    BY DEF EventsOfAll, EventsIn, EventsOf, EventsRead
  <2>3. delivered[ch] \o pendingEvents[ch] = FlattenSeq(EventsOfAll(wsGateway, ch, readFrames[ch]))
    BY <1>1 DEF ClientInv, DeliveryOK
  <2>4. readFrames[ch] \in Seq(Frame) /\ stream[ch] \in Seq(Frame)
        /\ IdsOK(wsGateway, framesSent[ch], readFrames[ch] \o stream[ch])
    BY <1>1 DEF ClientInv, DeliveryOK
  <2>5. IdsRead(wsGateway, readFrames[ch])
    BY <2>4, IdsAreRead
  <2> QED BY <2>2, <2>3, <2>5 DEF IdsRead
<1>2. VenueSessionsSpec => []ClientInv
  BY ClientInitOK, ClientNextOK, PTL DEF VenueSessionsSpec
<1> QED BY <1>1, <1>2, PTL

---------------------------------------------------------------------------
(***************************************************************************)
(* The reports of the venue and the account                                *)
(***************************************************************************)

\* The overlays of a set of reports.
OverlaysOf(first, reports) ==
    ({EffectiveOverlay(first)} \cup {ExternalOverlay(r[1], r[2]) : r \in reports}) \ {NoOverlay}

\* Meet without counting.
LEMMA MeetCases ==
    ASSUME NEW overlays, overlays \subseteq RuntimeOverlay
    PROVE  /\ overlays = {} => Meet(overlays) = NoOverlay
           /\ \A o : overlays = {o} => Meet(overlays) = o
           /\ \A a, b \in overlays : a # b => Meet(overlays) = "CancelOnly"
<1>1. IsFiniteSet(overlays)
  <2>1. IsFiniteSet(RuntimeOverlay)
    <3>1. IsFiniteSet({} \cup {"ReduceOnly"})
      BY FS_EmptySet, FS_AddElement
    <3>2. IsFiniteSet(({} \cup {"ReduceOnly"}) \cup {"InventoryOnly"})
      BY <3>1, FS_AddElement
    <3>3. IsFiniteSet((({} \cup {"ReduceOnly"}) \cup {"InventoryOnly"}) \cup {"CancelOnly"})
      BY <3>2, FS_AddElement
    <3>4. RuntimeOverlay = (({} \cup {"ReduceOnly"}) \cup {"InventoryOnly"}) \cup {"CancelOnly"}
      BY DEF RuntimeOverlay
    <3> QED BY <3>3, <3>4
  <2> QED BY <2>1, FS_Subset
<1>2. overlays = {} => Meet(overlays) = NoOverlay
  BY DEF Meet
<1>3. ASSUME NEW o, overlays = {o} PROVE Meet(overlays) = o
  <2>1. Cardinality(overlays) = 1
    BY <1>3, FS_Singleton
  <2> QED BY <1>3, <2>1 DEF Meet
<1>4. ASSUME NEW a \in overlays, NEW b \in overlays, a # b PROVE Meet(overlays) = "CancelOnly"
  <2>1. Cardinality(overlays) # 1
    <3>1. SUFFICES ASSUME Cardinality(overlays) = 1 PROVE FALSE
      OBVIOUS
    <3>2. PICK o : overlays = {o}
      BY <1>1, <3>1, FS_Singleton
    <3> QED BY <1>4, <3>2
  <2> QED BY <1>4, <2>1 DEF Meet
<1> QED BY <1>2, <1>3, <1>4

\* One overlay more: merge_overlay of it and the meet of the others.
LEMMA MeetMerges ==
    ASSUME NEW overlays, overlays \subseteq RuntimeOverlay, NEW o \in Overlay
    PROVE  Meet((overlays \cup {o}) \ {NoOverlay}) = MergeOverlay(Meet(overlays), o)
<1> DEFINE more == (overlays \cup {o}) \ {NoOverlay}
<1>1. more \subseteq RuntimeOverlay /\ NoOverlay \notin RuntimeOverlay
  BY DEF Overlay, RuntimeOverlay, NoOverlay
<1>2. CASE o = NoOverlay
  <2>1. more = overlays
    BY <1>1, <1>2
  <2>2. MergeOverlay(Meet(overlays), o) = Meet(overlays)
    BY <1>2 DEF MergeOverlay
  <2> QED BY <2>1, <2>2
<1>3. CASE o # NoOverlay /\ overlays = {}
  <2>1. more = {o} /\ Meet(overlays) = NoOverlay
    BY <1>3, MeetCases
  <2>2. Meet(more) = o
    BY <1>1, <2>1, MeetCases
  <2> QED BY <1>3, <2>1, <2>2 DEF MergeOverlay
<1>4. ASSUME o # NoOverlay, NEW x \in overlays, overlays = {x} PROVE Meet(more) = MergeOverlay(Meet(overlays), o)
  <2>1. Meet(overlays) = x /\ x # NoOverlay
    BY <1>1, <1>4, MeetCases
  <2>2. CASE x = o
    <3>1. more = {o}
      BY <1>4, <2>2
    <3>2. Meet(more) = o
      BY <1>1, <3>1, MeetCases
    <3> QED BY <2>1, <2>2, <3>2 DEF MergeOverlay
  <2>3. CASE x # o
    <3>1. x \in more /\ o \in more
      BY <1>4, <2>1
    <3>2. Meet(more) = "CancelOnly"
      BY <1>1, <2>3, <3>1, MeetCases
    <3> QED BY <1>4, <2>1, <2>3, <3>2 DEF MergeOverlay
  <2> QED BY <2>2, <2>3
<1>5. ASSUME o # NoOverlay, NEW a \in overlays, NEW b \in overlays, a # b
      PROVE  Meet(more) = MergeOverlay(Meet(overlays), o)
  <2>1. a \in more /\ b \in more
    BY <1>1, <1>5
  <2>2. Meet(more) = "CancelOnly" /\ Meet(overlays) = "CancelOnly"
    BY <1>1, <1>5, <2>1, MeetCases
  <2>3. MergeOverlay("CancelOnly", o) = "CancelOnly"
    BY <1>5 DEF MergeOverlay, NoOverlay
  <2> QED BY <2>2, <2>3
<1> QED BY <1>2, <1>3, <1>4, <1>5

\* The meet of no overlay is none, and of some is one.
LEMMA MeetIsOverlay ==
    ASSUME NEW overlays, overlays \subseteq RuntimeOverlay
    PROVE  /\ Meet(overlays) \in Overlay
           /\ Meet(overlays) = NoOverlay <=> overlays = {}
<1>1. NoOverlay \notin RuntimeOverlay /\ "CancelOnly" \in RuntimeOverlay
  BY DEF RuntimeOverlay, NoOverlay
<1>2. CASE overlays = {}
  BY <1>2, MeetCases DEF Overlay
<1>3. ASSUME NEW a \in overlays PROVE Meet(overlays) \in RuntimeOverlay /\ overlays # {}
  <2>1. CASE overlays = {a}
    BY <2>1, MeetCases
  <2>2. CASE overlays # {a}
    <3>1. PICK b \in overlays : b # a
      BY <2>2
    <3> QED BY <1>1, <3>1, MeetCases
  <2> QED BY <2>1, <2>2
<1> QED BY <1>1, <1>2, <1>3 DEF Overlay

LEMMA OverlaysType ==
    ASSUME NEW first \in Policy, NEW reports \in SUBSET Report
    PROVE  /\ OverlaysOf(first, reports) \subseteq RuntimeOverlay
           /\ \A r \in Report : ExternalOverlay(r[1], r[2]) \in Overlay
           /\ EffectiveOverlay(first) \in Overlay
<1>1. \A r \in Report : ExternalOverlay(r[1], r[2]) \in Overlay
  BY DEF ExternalOverlay, Overlay, RuntimeOverlay
<1>2. EffectiveOverlay(first) \in Overlay
  BY DEF EffectiveOverlay, DefaultOverlay, Policy, Overlay, RuntimeOverlay
<1> QED BY <1>1, <1>2 DEF OverlaysOf, Overlay

\* What a set of reports makes of a policy.
ExpectedOf(first, reports) ==
    IF reports = {} \/ first.mode = "GlobalHalt" THEN first
    ELSE IF \E r \in reports : Halting(r) THEN [mode |-> "GlobalHalt", overlay |-> NoOverlay]
    ELSE [mode    |-> IF first.mode = "Healthy" /\ \E r \in reports : Constraining(r)
                      THEN "NoNewRisk" ELSE first.mode,
          overlay |-> Meet(OverlaysOf(first, reports))]

LEMMA ExpectedIs == Expected = ExpectedOf(start, seen)
<1>1. Overlays = OverlaysOf(start, seen)
  BY DEF Overlays, OverlaysOf
<1> QED BY <1>1 DEF Expected, ExpectedOf

LEMMA ExpectedIsNext == Expected' = ExpectedOf(start', seen')
<1>1. Overlays' = OverlaysOf(start', seen')
  BY DEF Overlays, OverlaysOf
<1> QED BY <1>1 DEF Expected, ExpectedOf

\* constrained_by of one report more.
LEMMA OneReportMore ==
    ASSUME NEW first \in Policy, NEW reports \in SUBSET Report, NEW report \in Report
    PROVE  ConstrainedBy(ExpectedOf(first, reports), report[1], report[2])
               = ExpectedOf(first, reports \cup {report})
<1> DEFINE p == ExpectedOf(first, reports)
           more == reports \cup {report}
           meet == Meet(OverlaysOf(first, reports))
           ext == ExternalOverlay(report[1], report[2])
<1>1. more # {}
  OBVIOUS
<1>2. first.mode \in RuntimeMode /\ first.overlay \in Overlay
  BY DEF Policy
<1>3. CASE first.mode = "GlobalHalt"
  <2>1. p = first /\ ExpectedOf(first, more) = first
    BY <1>3 DEF ExpectedOf
  <2> QED BY <1>3, <2>1 DEF ConstrainedBy
<1>4. CASE first.mode # "GlobalHalt" /\ \E r \in reports : Halting(r)
  <2>1. p = [mode |-> "GlobalHalt", overlay |-> NoOverlay]
    BY <1>4 DEF ExpectedOf
  <2>2. ExpectedOf(first, more) = [mode |-> "GlobalHalt", overlay |-> NoOverlay]
    BY <1>4 DEF ExpectedOf
  <2>3. p.mode = "GlobalHalt"
    BY <2>1
  <2> HIDE DEF p
  <2>4. ConstrainedBy(p, report[1], report[2]) = p
    BY <2>3 DEF ConstrainedBy
  <2> QED BY <2>1, <2>2, <2>4 DEF p
<1>5. CASE first.mode # "GlobalHalt" /\ ~\E r \in reports : Halting(r)
  <2>1. p.mode # "GlobalHalt"
    BY <1>5 DEF ExpectedOf
  <2>2. p.mode = IF first.mode = "Healthy" /\ \E r \in reports : Constraining(r)
                 THEN "NoNewRisk" ELSE first.mode
    BY <1>5 DEF ExpectedOf
  <2>3. EffectiveOverlay(p) = meet
    <3>1. CASE reports = {}
      <4>1. p = first
        BY <3>1 DEF ExpectedOf
      <4>2. OverlaysOf(first, reports) = {EffectiveOverlay(first)} \ {NoOverlay}
        BY <3>1 DEF OverlaysOf
      <4>3. OverlaysOf(first, reports) \subseteq RuntimeOverlay
        BY OverlaysType
      <4>4. CASE EffectiveOverlay(first) = NoOverlay
        <5>1. OverlaysOf(first, reports) = {}
          BY <4>2, <4>4
        <5> QED BY <4>1, <4>3, <4>4, <5>1, MeetCases
      <4>5. CASE EffectiveOverlay(first) # NoOverlay
        <5>1. OverlaysOf(first, reports) = {EffectiveOverlay(first)}
          BY <4>2, <4>5
        <5> QED BY <4>1, <4>3, <5>1, MeetCases
      <4> QED BY <4>4, <4>5
    <3>2. CASE reports # {}
      <4>1. p.overlay = meet
        BY <1>5, <3>2 DEF ExpectedOf
      <4>2. CASE meet # NoOverlay
        BY <4>1, <4>2 DEF EffectiveOverlay
      <4>3. CASE meet = NoOverlay
        <5>1. OverlaysOf(first, reports) = {}
          BY <4>3, OverlaysType, MeetIsOverlay
        <5>2. EffectiveOverlay(first) = NoOverlay
          BY <5>1 DEF OverlaysOf
        <5>3. first.mode # "Bootstrapping"
          BY <5>2 DEF EffectiveOverlay, DefaultOverlay, NoOverlay
        <5>4. p.mode # "Bootstrapping"
          BY <2>2, <5>3
        <5> HIDE DEF p, meet
        <5> QED BY <4>1, <4>3, <5>4 DEF EffectiveOverlay, DefaultOverlay
      <4> QED BY <4>2, <4>3
    <3> QED BY <3>1, <3>2
  <2> HIDE DEF p
  <2>4. CASE Halting(report)
    <3>1. ConstrainedBy(p, report[1], report[2]) = [mode |-> "GlobalHalt", overlay |-> NoOverlay]
      BY <2>1, <2>4 DEF ConstrainedBy, Halting
    <3>2. \E r \in more : Halting(r)
      BY <2>4
    <3>3. ExpectedOf(first, more) = [mode |-> "GlobalHalt", overlay |-> NoOverlay]
      BY <1>1, <1>5, <3>2 DEF ExpectedOf
    <3> QED BY <3>1, <3>3 DEF p
  <2>5. CASE ~Halting(report)
    <3>1. ConstrainedBy(p, report[1], report[2]) =
            [mode |-> ConstrainMode(p.mode, report[1], report[2]), overlay |-> MergeOverlay(meet, ext)]
      BY <2>1, <2>3, <2>5 DEF ConstrainedBy, Halting
    <3>2. ~\E r \in more : Halting(r)
      BY <1>5, <2>5
    <3>3. ConstrainMode(p.mode, report[1], report[2]) =
            IF first.mode = "Healthy" /\ \E r \in more : Constraining(r) THEN "NoNewRisk" ELSE first.mode
      BY <2>2 DEF ConstrainMode, Constraining
    <3>4. MergeOverlay(meet, ext) = Meet(OverlaysOf(first, more))
      <4>1. OverlaysOf(first, more) = (OverlaysOf(first, reports) \cup {ext}) \ {NoOverlay}
        BY DEF OverlaysOf
      <4>2. OverlaysOf(first, reports) \subseteq RuntimeOverlay /\ ext \in Overlay
        BY OverlaysType
      <4> HIDE DEF ext, more
      <4> QED BY <4>1, <4>2, MeetMerges
    <3>5. ExpectedOf(first, more) =
            [mode |-> IF first.mode = "Healthy" /\ \E r \in more : Constraining(r)
                      THEN "NoNewRisk" ELSE first.mode,
             overlay |-> Meet(OverlaysOf(first, more))]
      BY <1>1, <1>5, <3>2 DEF ExpectedOf
    <3> HIDE DEF meet, ext, more
    <3> QED BY <3>1, <3>3, <3>4, <3>5 DEF p, more
  <2> QED BY <2>4, <2>5
<1> QED BY <1>3, <1>4, <1>5

PolicyInv ==
    /\ start \in Policy /\ seen \in SUBSET Report
    /\ OrderIndependent

\* The policy is that of the set of reports, however many there are and in
\* whatever order and how often they come.
THEOREM ReportsInAnyOrder == PolicySpec => []OrderIndependent
<1>1. PolicyInit => PolicyInv
  BY ExpectedIs DEF PolicyInit, PolicyInv, OrderIndependent, ExpectedOf
<1>2. ASSUME PolicyInv, [PolicyNext]_policyVars PROVE PolicyInv'
  <2>1. ASSUME NEW report \in Report, Constrain(report) PROVE PolicyInv'
    <3>1. /\ policy' = ConstrainedBy(policy, report[1], report[2])
          /\ seen' = seen \cup {report}
          /\ start' = start
      BY <2>1 DEF Constrain
    <3>2. policy = ExpectedOf(start, seen) /\ start \in Policy /\ seen \in SUBSET Report
      BY <1>2, ExpectedIs DEF PolicyInv, OrderIndependent
    <3>3. policy' = ExpectedOf(start, seen \cup {report})
      BY <3>1, <3>2, OneReportMore
    <3>4. policy' = ExpectedOf(start', seen')
      BY <3>1, <3>3
    <3>5. Expected' = ExpectedOf(start', seen')
      BY ExpectedIsNext
    <3>6. OrderIndependent'
      BY <3>4, <3>5 DEF OrderIndependent
    <3>7. start' \in Policy /\ seen' \in SUBSET Report
      BY <3>1, <3>2
    <3> QED BY <3>6, <3>7 DEF PolicyInv
  <2>2. CASE UNCHANGED policyVars
    <3>1. Expected' = ExpectedOf(start', seen')
      BY ExpectedIsNext
    <3>2. policy = ExpectedOf(start, seen)
      BY <1>2, ExpectedIs DEF PolicyInv, OrderIndependent
    <3> QED BY <1>2, <2>2, <3>1, <3>2 DEF policyVars, PolicyInv, OrderIndependent
  <2> QED BY <1>2, <2>1, <2>2 DEF PolicyNext
<1>3. PolicyInv => OrderIndependent
  BY DEF PolicyInv
<1> QED BY <1>1, <1>2, <1>3, PTL DEF PolicySpec
=============================================================================
