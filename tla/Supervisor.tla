----------------------------- MODULE Supervisor -----------------------------
(***************************************************************************)
(* The supervisor: it composes the runtime and its store, the dispatcher,  *)
(* the queue of inputs, the committed log and the live submit              *)
(* (crates/app-live/src/{supervisor,queues,daemon}.rs).                    *)
(*                                                                         *)
(* Ticks follow each other.  A tick bootstraps when needed, publishes,     *)
(* submits live orders if it may, and drains the queue; an input that is   *)
(* refused aborts the drain.  A crash loses everything but the journal:    *)
(* the committed log, the inputs not applied yet, and the summary of where *)
(* the run stood, from which resume_once rebuilds the supervisor or        *)
(* refuses to.                                                             *)
(***************************************************************************)
EXTENDS RuntimeOps, Dispatch

CONSTANTS
    BootstrapSnapshots, \* the remote snapshot a supervisor may be built with
    LiveFamily,         \* the family approved and ready for live submit, or None
    LiveFact,           \* the fact of its submit at a snapshot version; bound: the versions
    InputFact,          \* the facts that arrive as inputs
    MaxQueue,           \* bound: inputs waiting at a time
    MaxInputs,          \* bound: inputs that arrive
    MaxCrashes          \* bound: crashes

ASSUME SupervisorAssumption ==
    /\ BootstrapSnapshots \subseteq RemoteSnapshot
    /\ LiveFamily \in OptionOf(Family)
    /\ InputFact \subseteq Fact
    /\ DOMAIN LiveFact \subseteq Nat
    /\ \A v \in DOMAIN LiveFact :
           /\ LiveFact[v] \in Fact \ InputFact
           /\ Kind[LiveFact[v]] = "Pending"
           /\ FamilyOf[LiveFact[v]] = LiveFamily
           /\ \A f \in Fact : RefOf[f] = RefOf[LiveFact[v]] => f = LiveFact[v]
    /\ \A v, w \in DOMAIN LiveFact : LiveFact[v] = LiveFact[w] => v = w
    /\ {MaxQueue, MaxInputs, MaxCrashes} \subseteq Nat

VARIABLES
    sup,        \* the supervisor, see NewSupervisor
    snapshot,   \* the remote snapshot it bootstraps from
    seed,       \* RuntimeSeed: what a resumed supervisor was told, or None
    pc,         \* between ticks, draining, or waiting to be resumed
    anchor,     \* the journal position a drain starts from
    arrived,    \* history: number of inputs that have arrived
    inputs,     \* history: those inputs
    crashes     \* history: number of crashes

vars == <<sup, snapshot, seed, pc, anchor, arrived, inputs, crashes>>

\* st and published are the runtime's; live holds the snapshot versions of the
\* live execution records; evidence is the rollout gate's.
NewSupervisor ==
    [st |-> NewStore, published |-> None, dispatch |-> NewDispatch,
     queue |-> <<>>, log |-> <<>>, live |-> {}, evidence |-> None]

\* The dirty set of an applied fact.
DirtySetOf(f) ==
    CASE Kind[f] \in {"Discovery", "Backfill", "BackfillComplete"} -> {"Candidates"}
      [] Kind[f] = "Attention" -> {"Runtime", "NegRiskFamilies"}
      [] OTHER -> AllDomains

---------------------------------------------------------------------------
(***************************************************************************)
(* Queue and log                                                           *)
(***************************************************************************)

\* A push and a stable sort by sequence number: sorted entries as they are, the
\* new one behind those that are not greater.
InsertBySeq(entries, input) ==
    LET before == Cardinality({i \in DOMAIN entries : entries[i].seq <= input.seq})
    IN  [i \in 1..(Len(entries) + 1) |->
            IF i <= before THEN entries[i]
            ELSE IF i = before + 1 THEN input ELSE entries[i - 1]]

\* record_committed_input: an entry that is there already is not added.
RecordCommittedInput(log, input) ==
    IF \E i \in DOMAIN log : log[i] = input THEN log ELSE InsertBySeq(log, input)

\* IngressQueue::next_after: the positions of the entries behind the anchor.
AfterAnchor(queue, position) ==
    {i \in DOMAIN queue : position = None \/ queue[i].seq > position}

NextAfter(queue, position) ==
    CHOOSE i \in AfterAnchor(queue, position) :
        \A j \in AfterAnchor(queue, position) : i <= j

\* IngressQueue::remove takes the first entry equal to the given one.
RemoveFirst(queue, input) ==
    LET at == CHOOSE i \in DOMAIN queue :
                  queue[i] = input /\ \A j \in DOMAIN queue : queue[j] = input => i <= j
    IN  SubSeq(queue, 1, at - 1) \o SubSeq(queue, at + 1, Len(queue))

---------------------------------------------------------------------------
(***************************************************************************)
(* Publishing and the live submit                                          *)
(***************************************************************************)

\* Mutant: live records outlive the snapshot they were made for.
RetainCurrentAnyway(s) == s

\* Live records of another snapshot than the published one are dropped.
RetainCurrent(s) ==
    [s EXCEPT !.live = IF s.published = None THEN {}
                       ELSE {v \in s.live : v = s.published.version}]

\* rollout_evidence_for_snapshot; the neg-risk view is never there.
RolloutEvidence(version, known, allow) ==
    CASE allow -> [version |-> version, ready |-> LiveFamily # None]
      [] /\ ~allow
         /\ known # None /\ known.evidence # None
         /\ known.evidence.version = version -> known.evidence
      [] OTHER -> [version |-> version, ready |-> FALSE]

\* Mutant: the dispatcher is not told of the snapshot.
PublishUnobserved(s, known, allow) ==
    IF s.st.last_applied = None THEN RetainCurrent([s EXCEPT !.evidence = None])
    ELSE RetainCurrent([s EXCEPT
             !.published = Published(s.st),
             !.evidence = RolloutEvidence(s.st.version, known, allow)])

\* publish_current_snapshot: the runtime's snapshot, the rollout evidence for
\* it, the live records that survive it, and the dispatcher.
PublishCurrentSnapshot(s, known, allow) ==
    IF s.st.last_applied = None THEN RetainCurrent([s EXCEPT !.evidence = None])
    ELSE LET new == Published(s.st)
         IN  RetainCurrent([s EXCEPT
                 !.published = new,
                 !.evidence = RolloutEvidence(new.version, known, allow),
                 !.dispatch = ObserveSnapshot(s.dispatch, new.version,
                                  IF new.fullset # None THEN {"fullset"} ELSE {})])

\* Mutant: any supervisor without live records may submit.
AllowSynthesisUnlessRecorded(s) == s.live = {}

\* allow_operator_rollout_evidence_synthesis: a pristine bootstrap, or a
\* seeded start without unresolved work.
AllowOperatorSynthesis(s) ==
    \/ /\ seed = None
       /\ s.log = <<>> /\ s.st.last_consumed = 0 /\ s.st.version = 0
    \/ /\ seed # None /\ seed.evidence = None
       /\ s.st.pending = {} /\ s.live = {}

SubmitsLive(s, allow) ==
    /\ allow
    /\ s.live = {}
    /\ s.published # None
    /\ s.evidence # None /\ s.evidence.ready

\* apply_live_submit_facts: the submit becomes a fact behind the last one
\* consumed, and a committed one.
ApplyLiveSubmitFact(s) ==
    LET input == [seq |-> s.st.last_consumed + 1, fact |-> LiveFact[s.published.version]]
    IN  [s EXCEPT !.st = ApplyInputStore(s.st, input.seq, input.fact),
                  !.log = RecordCommittedInput(s.log, input),
                  !.live = {s.published.version}]

---------------------------------------------------------------------------
(***************************************************************************)
(* Actions                                                                 *)
(***************************************************************************)

SupervisorInit ==
    /\ sup = NewSupervisor
    /\ snapshot \in BootstrapSnapshots
    /\ seed = None
    /\ pc = "idle"
    /\ anchor = None
    /\ arrived = 0 /\ inputs = {} /\ crashes = 0

\* seed_unapplied_journal_entry.
Enqueue(input) ==
    /\ pc = "idle"
    /\ arrived < MaxInputs /\ Len(sup.queue) < MaxQueue
    /\ sup' = [sup EXCEPT !.queue = InsertBySeq(sup.queue, input)]
    /\ arrived' = arrived + 1 /\ inputs' = inputs \cup {input}
    /\ UNCHANGED <<snapshot, seed, pc, anchor, crashes>>

\* The first half of run_once: bootstrap, publish, submit.
RunOnce ==
    /\ pc = "idle"
    /\ LET booted == [sup EXCEPT !.st = IF sup.st.first_reconcile THEN sup.st
                                        ELSE BootstrapStore(sup.st, snapshot)]
           allow  == AllowOperatorSynthesis(booted)
           shown  == PublishCurrentSnapshot(booted, seed, allow)
       IN  \/ /\ SubmitsLive(shown, allow)
              /\ shown.st.last_consumed + 1 \in JournalSeq
              /\ shown.published.version \in DOMAIN LiveFact
              /\ sup' = ApplyLiveSubmitFact(shown)
           \/ /\ ~SubmitsLive(shown, allow)
              /\ sup' = shown
    /\ pc' = "drain"
    /\ anchor' = sup'.st.last_consumed
    /\ UNCHANGED <<snapshot, seed, arrived, inputs, crashes>>

\* Mutant: a fact that asks for a reconcile is not logged.
LoggedIfApplied(s, input) ==
    LET applied == ApplyOutcome(s.st, input.seq, input.fact) = "Applied"
        taken   == [s EXCEPT !.st = ApplyInputStore(s.st, input.seq, input.fact),
                             !.log = IF applied THEN RecordCommittedInput(s.log, input) ELSE s.log,
                             !.queue = RemoveFirst(s.queue, input)]
    IN  IF applied
        THEN PublishCurrentSnapshot(
                 [taken EXCEPT !.published = None,
                               !.dispatch = RecordApply(s.dispatch, taken.st.version,
                                                        DirtySetOf(input.fact))],
                 seed, FALSE)
        ELSE taken

\* An input the applier accepts: it is committed, and a change is published.
Accept(s, input) ==
    LET taken == [s EXCEPT !.st = ApplyInputStore(s.st, input.seq, input.fact),
                           !.log = RecordCommittedInput(s.log, input),
                           !.queue = RemoveFirst(s.queue, input)]
    IN  IF ApplyOutcome(s.st, input.seq, input.fact) = "Applied"
        THEN PublishCurrentSnapshot(
                 [taken EXCEPT !.published = None,
                               !.dispatch = RecordApply(s.dispatch, taken.st.version,
                                                        DirtySetOf(input.fact))],
                 seed, FALSE)
        ELSE taken

Draining == pc \in {"drain", "resumed"}

\* Mutant: an input is taken off the queue before it is applied.
DrainInputTaken ==
    /\ Draining /\ AfterAnchor(sup.queue, anchor) # {}
    /\ LET input == sup.queue[NextAfter(sup.queue, anchor)]
       IN  IF ApplyOutcome(sup.st, input.seq, input.fact) = "Error"
           THEN pc' = "idle" /\ sup' = [sup EXCEPT !.queue = RemoveFirst(sup.queue, input)]
           ELSE UNCHANGED pc /\ sup' = Accept(sup, input)
    /\ UNCHANGED <<snapshot, seed, anchor, arrived, inputs, crashes>>

\* drain_input_tasks: an input that is refused stays where it is, and those
\* behind it wait.
DrainInput ==
    /\ Draining /\ AfterAnchor(sup.queue, anchor) # {}
    /\ LET input == sup.queue[NextAfter(sup.queue, anchor)]
       IN  IF ApplyOutcome(sup.st, input.seq, input.fact) = "Error"
           THEN pc' = "idle" /\ UNCHANGED sup
           ELSE UNCHANGED pc /\ sup' = Accept(sup, input)
    /\ UNCHANGED <<snapshot, seed, anchor, arrived, inputs, crashes>>

\* validate_neg_risk_live_execution_anchor refuses: the flush is left out.
LiveAnchorMissing(s) ==
    /\ s.evidence # None /\ s.evidence.ready
    /\ s.live = {} \/ s.published = None \/ s.live # {s.published.version}

\* The end of a tick, or of a resume, which publishes if nothing has yet.
FinishTick ==
    /\ Draining /\ AfterAnchor(sup.queue, anchor) = {}
    /\ LET end == IF pc = "resumed" /\ sup.published = None /\ sup.st.version > 0
                  THEN PublishCurrentSnapshot(sup, seed, FALSE) ELSE sup
       IN  sup' = IF LiveAnchorMissing(end) THEN end
                  ELSE [end EXCEPT !.dispatch = Flush(end.dispatch)]
    /\ pc' = "idle"
    /\ UNCHANGED <<snapshot, seed, anchor, arrived, inputs, crashes>>

\* What a restart is told: the summary of the run that ended, if it had
\* consumed anything.  The mode is not part of it.
Summary(s) ==
    IF s.st.last_consumed = None THEN None
    ELSE [seq |-> s.st.last_consumed, version |-> s.st.version,
          pending |-> Cardinality(s.st.pending), published |-> s.published # None,
          evidence |-> s.evidence, live |-> s.live]

Crash ==
    /\ pc \in {"idle", "drain", "resumed"}
    /\ crashes < MaxCrashes
    /\ crashes' = crashes + 1
    /\ seed' = Summary(sup)
    /\ sup' = [NewSupervisor EXCEPT !.log = sup.log, !.queue = sup.queue]
    /\ pc' = "resume" /\ anchor' = None
    /\ UNCHANGED <<snapshot, arrived, inputs>>

\* The store resume_once rebuilds: the replayed one, its pending work cleared
\* if the seed knows of none.
Rebuilt(log) ==
    IF seed # None /\ seed.pending = 0 THEN ClearPendingReconcileAfterRestore(Replay(log))
                                       ELSE Replay(log)

\* The checks of resume_once on journal position, version and pending work.
Diverges(log) ==
    LET st == Rebuilt(log)
    IN  \/ ~ReplayAccepted(log)
        \/ seed = None /\ (log # <<>> \/ st.pending # {} \/ st.version # 0 \/ st.last_consumed # 0)
        \/ seed # None /\ \/ Cardinality(st.pending) # seed.pending
                          \/ st.version # seed.version
                          \/ st.last_consumed # seed.seq

\* validate_rollout_evidence_anchor.
EvidenceDiverges(s) ==
    /\ seed # None
    /\ seed.evidence # s.evidence
    /\ ~(s.st.version = 0 /\ ~seed.published /\ s.evidence = None)

ResumeOnce ==
    /\ pc = "resume"
    /\ LET rebuilt  == [sup EXCEPT !.st = Rebuilt(sup.log)]
           shown    == PublishCurrentSnapshot(rebuilt, seed, FALSE)
           restored == RetainCurrent([shown EXCEPT !.live = IF seed = None THEN {}
                                                            ELSE seed.live])
       IN  IF Diverges(sup.log) \/ EvidenceDiverges(restored)
           THEN pc' = "refused" /\ UNCHANGED <<sup, anchor>>
           ELSE pc' = "resumed" /\ sup' = restored /\ anchor' = restored.st.last_consumed
    /\ UNCHANGED <<snapshot, seed, arrived, inputs, crashes>>

Tick == RunOnce \/ DrainInput \/ FinishTick \/ ResumeOnce

SupervisorNext ==
    \/ \E input \in Input : input.fact \in InputFact /\ Enqueue(input)
    \/ Tick
    \/ Crash

Stage == {"idle", "drain", "resume", "resumed", "refused"}

\* The supervisor moves on from the stage it is in.  A drain is finite, so this
\* is weak fairness of Tick, with an ENABLED that is cheap to evaluate.
MovesOn == pc \in Stage \ {"refused"} /\ pc' \in Stage \ {pc}

\* The supervisor keeps ticking.  run_until_idle_for_tests does so while a tick
\* changes something and none fails, run_startup ticks once: a behaviour with
\* this fairness ticks at least as often as either, so that what it does not
\* bring about is brought about by neither.  Only the run stuck relies on it.
SupervisorSpec == SupervisorInit /\ [][SupervisorNext]_vars /\ WF_pc(MovesOn)

---------------------------------------------------------------------------
(***************************************************************************)
(* Properties                                                              *)
(***************************************************************************)

Up == pc \in {"idle", "drain", "resumed"}

\* The committed log is enough to rebuild the authoritative state: at every
\* step, replayed into a fresh store, it is accepted and gives the version, the
\* journal, the discovery records and the pending work of the store in use,
\* whatever duplicates, collisions, submits, aborts and crashes came before
\* (record_committed_input beside every apply_input, replay_committed_history).
LogRebuildsStore ==
    Up => LET replayed == ReplayPrefix(sup.log)
          IN  /\ replayed.ok
              /\ replayed.st.version = sup.st.version
              /\ replayed.st.bound = sup.st.bound
              /\ replayed.st.fact_seq = sup.st.fact_seq
              /\ replayed.st.families = sup.st.families
              /\ replayed.st.backfills = sup.st.backfills
              /\ replayed.st.pending = sup.st.pending

\* Nothing of the full-set route is left dirty between two steps: each applied
\* fact is followed by a snapshot that is ready for it, before the next input
\* (drain_input_tasks, publish_current_snapshot, observe_snapshot).
FullSetNeverLags ==
    Up => \A r \in sup.dispatch.dirty : ~Touches(r, "fullset")

\* A supervisor that still shows a live execution record has its submit among
\* the pending reconciles, after a crash and a resume as well: what settles the
\* submit also moves the version and so drops the record
\* (retain_current_neg_risk_live_execution_records, apply_live_submit_facts).
LiveRecordIsPending == \A v \in sup.live : RefOf[LiveFact[v]] \in sup.st.pending

LiveSubmits == {s \in JournalSeq : \E v \in DOMAIN LiveFact : sup.st.bound[s] = LiveFact[v]}

\* The submit at one journal position was settled by a report applied at another.
SettledAt(submit, report) ==
    \E f \in Fact :
        /\ Kind[f] = "ReconcileTerminal"
        /\ TargetRef[f] = RefOf[sup.st.bound[submit]]
        /\ sup.st.fact_seq[f] = report

\* However often it ticks, crashes and is resumed, the supervisor submits again
\* only what has been settled: between any two submits of the journal there is
\* the report that closed the first
\* (allow_operator_rollout_evidence_synthesis and the seeds of resume_once).
SettledBetweenSubmits ==
    Up => \A a, b \in LiveSubmits :
              a < b => \E c \in JournalSeq : a < c /\ c < b /\ SettledAt(a, c)

Held(s) == {s.queue[i] : i \in DOMAIN s.queue}
               \cup {s.log[i] : i \in {j \in DOMAIN s.log : s.log[j].fact \in InputFact}}

\* No input is lost and none is made up: every one that has arrived waits in
\* the queue or is in the committed log, under its own number, whatever
\* duplicates and collisions came with it, drains it aborted, and crashes and
\* resumes, refused ones too, that followed
\* (drain_input_tasks, IngressQueue::remove, record_committed_input, resume_once).
InputsAreKept == Held(sup) = inputs

Waiting(input) == \E i \in DOMAIN sup.queue : sup.queue[i] = input

\* "journal append succeeded, apply not yet completed must be recoverable by
\* replaying unapplied journal entries": an input that waits is consumed at last.
WaitingIsConsumed ==
    \A input \in [seq : JournalSeq, fact : InputFact] : Waiting(input) ~> ~Waiting(input)

\* "state apply succeeded, snapshot publish not yet completed must be
\* recoverable by re-deriving and publishing missing projections": a supervisor
\* is resumed from its own summary, log and queue.
ResumeIsAccepted == pc # "refused"

=============================================================================
