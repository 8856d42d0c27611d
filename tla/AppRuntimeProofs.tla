------------------------- MODULE AppRuntimeProofs -------------------------
(***************************************************************************)
(* Proofs that what the runtime publishes describes its store, and that    *)
(* only an empty account reconciles, for every set of facts, journal       *)
(* sequence numbers, snapshots and durable anchors.                        *)
(***************************************************************************)
EXTENDS AppRuntime, StateStoreProofs

\* Nothing the venue could miss has been recorded.
EmptyAccount(st) ==
    /\ st.orders = {}
    /\ st.tables["approvals"] = {}
    /\ st.tables["relayer_txs"] = {}

\* A fact that changes state was applied when it was consumed.  (The bounds of
\* the store's own journal invariant do not survive a restart or a baseline:
\* both set the anchors without the journal behind them.)
ConsumedWasApplied(st) ==
    \A s \in JournalSeq :
        st.bound[s] # None /\ Kind[st.bound[s]] \in AppliedKind => st.fact_seq[st.bound[s]] # None

\* A store with an applied position is anchored at it.
AnchoredThere(st) ==
    st.last_applied # None =>
        /\ st.last_consumed # None /\ st.last_applied <= st.last_consumed
        /\ st.anchor # None /\ st.anchor = AnchorAt(st, st.last_applied)

\* The inductive invariant of the runtime's store.
RuntimeOK(st) ==
    /\ st \in StoreType /\ PostureOK(st)
    /\ EmptyAccount(st)
    /\ ConsumedWasApplied(st)
    /\ AnchoredThere(st)

\* The inductive invariant of the published snapshot.
PublishedOK(p, st) ==
    p # None =>
        /\ st.last_applied # None
        /\ p.version = st.version
        /\ p.seq = st.last_applied
        /\ p.fullset = OrderIds(st.orders)

\* What a published snapshot shows.
SameShown(r, st) ==
    r.version = st.version /\ r.last_applied = st.last_applied /\ r.orders = st.orders

---------------------------------------------------------------------------
(***************************************************************************)
(* The store under the operations of the runtime                           *)
(***************************************************************************)

\* The invariant reads the journal, the anchor and the account alone.
LEMMA SameStandingKeepsOK ==
    ASSUME NEW st, RuntimeOK(st), NEW r \in StoreType, PostureOK(r),
           SameJournal(r, st), r.anchor = st.anchor, r.orders = st.orders, r.tables = st.tables
    PROVE  RuntimeOK(r) /\ SameShown(r, st)
<1>1. EmptyAccount(r)
  BY DEF RuntimeOK, EmptyAccount
<1>2. ConsumedWasApplied(r)
  BY DEF RuntimeOK, ConsumedWasApplied, SameJournal
<1>3. AnchoredThere(r)
  BY DEF RuntimeOK, AnchoredThere, SameJournal, AnchorAt
<1> QED BY <1>1, <1>2, <1>3 DEF RuntimeOK, SameShown, SameJournal

\* Consuming a sequence number for a fact that is applied already, or never is.
LEMMA ConsumeKeepsRuntimeOK ==
    ASSUME NEW st, RuntimeOK(st), NEW seq \in JournalSeq, NEW f \in Fact,
           st.fact_seq[f] # None \/ Kind[f] \notin AppliedKind,
           NEW r, r = ConsumeJournalSeq(st, seq, f)
    PROVE  RuntimeOK(r) /\ SameShown(r, st)
<1>0. st \in StoreType /\ PostureOK(st)
  BY DEF RuntimeOK
<1>1. CASE JournalConsumption(st, seq, f) # "Consumed"
  BY <1>1 DEF ConsumeJournalSeq, SameShown
<1>2. CASE JournalConsumption(st, seq, f) = "Consumed"
  <2>1. /\ r \in StoreType
        /\ r.version = st.version /\ r.last_applied = st.last_applied
        /\ r.fact_seq = st.fact_seq /\ r.pending = st.pending
        /\ r.anchor = st.anchor /\ r.orders = st.orders /\ r.tables = st.tables
        /\ r.mode = st.mode /\ r.overlay = st.overlay
        /\ r.last_consumed = seq /\ r.bound = [st.bound EXCEPT ![seq] = f]
    BY <1>0, <1>2, ConsumeFields
  <2>2. seq \in Nat /\ seq # None
    BY ConstantsAssumption, NoneIsNoNumber
  <2>3. st.last_consumed # None => st.last_consumed < seq
    BY <1>0, <1>2, <2>2, NoneIsNoNumber DEF JournalConsumption, StoreType, OptionOf
  <2>4. PostureOK(r) /\ EmptyAccount(r)
    BY <1>0, <2>1 DEF PostureOK, EmptyAccount, RuntimeOK
  <2>5. ConsumedWasApplied(r)
    BY <1>0, <2>1, NoneAssumption DEF ConsumedWasApplied, RuntimeOK, StoreType, OptionOf
  <2>6. AnchoredThere(r)
    <3>1. ASSUME st.last_applied # None PROVE st.last_applied <= seq
      <4>1. st.last_applied \in Nat /\ st.last_consumed \in Nat
            /\ st.last_applied <= st.last_consumed
        BY <1>0, <3>1 DEF RuntimeOK, AnchoredThere, StoreType, OptionOf
      <4> QED BY <2>2, <2>3, <4>1, NoneIsNoNumber
    <3> QED BY <2>1, <2>2, <3>1 DEF AnchoredThere, RuntimeOK, AnchorAt
  <2> QED BY <2>1, <2>4, <2>5, <2>6 DEF RuntimeOK, SameShown
<1> QED BY <1>1, <1>2

\* A fact of a kind that changes state is only applied under a sequence number
\* that was consumed for it.
LEMMA AppliedIsConsumed ==
    ASSUME NEW st, RuntimeOK(st), NEW seq \in JournalSeq, NEW f \in Fact,
           ApplyOutcome(st, seq, f) = "Applied"
    PROVE  JournalConsumption(st, seq, f) = "Consumed" /\ Kind[f] \in AppliedKind
<1>1. /\ JournalConsumption(st, seq, f) \notin {"AlreadyBoundToDifferentFact", "OutOfOrder"}
      /\ ~(JournalConsumption(st, seq, f) = "AlreadyBoundToSameFact" /\ st.fact_seq[f] # None)
      /\ Kind[f] \in AppliedKind
  BY DEF ApplyOutcome
<1>2. JournalConsumption(st, seq, f) \in
          {"Consumed", "AlreadyBoundToSameFact", "AlreadyBoundToDifferentFact", "OutOfOrder"}
  BY DEF JournalConsumption
<1>3. JournalConsumption(st, seq, f) # "AlreadyBoundToSameFact"
  <2>1. SUFFICES ASSUME JournalConsumption(st, seq, f) = "AlreadyBoundToSameFact"
                 PROVE  st.fact_seq[f] # None
    BY <1>1
  <2>2. st.bound[seq] = f /\ st.bound[seq] # None
    BY <2>1 DEF JournalConsumption
  <2> QED BY <1>1, <2>2 DEF RuntimeOK, ConsumedWasApplied
<1> QED BY <1>1, <1>2, <1>3

\* AppRuntime::apply_input: an applied fact anchors the store at its sequence
\* number, every other outcome leaves what a snapshot shows alone.
LEMMA ApplyInputKeepsOK ==
    ASSUME NEW st, RuntimeOK(st), NEW seq \in JournalSeq, NEW f \in Fact,
           NEW r, r = ApplyInputStore(st, seq, f)
    PROVE  /\ RuntimeOK(r)
           /\ ApplyOutcome(st, seq, f) # "Applied" => SameShown(r, st)
<1> DEFINE outcome  == ApplyOutcome(st, seq, f)
           consumed == ConsumeJournalSeq(st, seq, f)
<1>0. st \in StoreType /\ PostureOK(st)
  BY DEF RuntimeOK
<1>1. \/ outcome = "Error" \/ outcome = "Applied"
      \/ outcome = "Duplicate" /\ st.fact_seq[f] # None
      \/ outcome = "ReconcileRequired" /\ Kind[f] \notin AppliedKind
  BY DEF ApplyOutcome
<1>2. CASE outcome = "Error"
  BY <1>2 DEF ApplyInputStore, Apply, SameShown
<1>3. CASE outcome = "Duplicate" /\ st.fact_seq[f] # None
  <2>1. r = consumed
    BY <1>3 DEF ApplyInputStore, Apply
  <2> QED BY <1>3, <2>1, ConsumeKeepsRuntimeOK
<1>4. CASE outcome = "ReconcileRequired" /\ Kind[f] \notin AppliedKind
  <2> DEFINE opened == IF Kind[f] = "Pending"
                       THEN [consumed EXCEPT !.pending = consumed.pending \cup {RefOf[f]}]
                       ELSE consumed
             marked == [opened EXCEPT !.first_reconcile = TRUE]
             once   == EnterReconciling(marked)
             again  == [once EXCEPT !.first_reconcile = TRUE]
  <2>1. r = EnterReconciling(again)
    BY <1>4 DEF ApplyInputStore, Apply, MarkReconcileRequired
  <2>2. RuntimeOK(consumed) /\ SameShown(consumed, st)
    BY <1>4, ConsumeKeepsRuntimeOK
  <2> HIDE DEF consumed
  <2>3. /\ opened \in StoreType /\ SameJournal(opened, consumed) /\ opened.anchor = consumed.anchor
        /\ opened.orders = consumed.orders /\ opened.tables = consumed.tables
    BY <2>2, ConstantsAssumption DEF RuntimeOK, StoreType, SameJournal
  <2> HIDE DEF opened
  <2>4. /\ marked \in StoreType /\ SameJournal(marked, opened) /\ marked.anchor = opened.anchor
        /\ marked.orders = opened.orders /\ marked.tables = opened.tables
    BY <2>3 DEF StoreType, SameJournal
  <2> HIDE DEF marked
  <2>5. /\ once \in StoreType /\ SameJournal(once, marked) /\ once.anchor = marked.anchor
        /\ once.orders = marked.orders /\ once.tables = marked.tables
    BY <2>4, ReconcilingFields
  <2> HIDE DEF once
  <2>6. /\ again \in StoreType /\ SameJournal(again, once) /\ again.anchor = once.anchor
        /\ again.orders = once.orders /\ again.tables = once.tables
    BY <2>5 DEF StoreType, SameJournal
  <2> HIDE DEF again
  <2>7. /\ r \in StoreType /\ SameJournal(r, again) /\ r.anchor = again.anchor
        /\ r.orders = again.orders /\ r.tables = again.tables /\ PostureOK(r)
    BY <2>1, <2>6, ReconcilingFields
  <2>8. /\ SameJournal(r, consumed) /\ r.anchor = consumed.anchor
        /\ r.orders = consumed.orders /\ r.tables = consumed.tables
    BY <2>3, <2>4, <2>5, <2>6, <2>7 DEF SameJournal
  <2>9. RuntimeOK(r) /\ SameShown(r, consumed)
    BY <2>2, <2>7, <2>8, SameStandingKeepsOK
  <2> QED BY <2>2, <2>9 DEF SameShown
<1>5. CASE outcome = "Applied"
  <2> DEFINE hinted == ApplyHint(consumed, f)
  <2>1. JournalConsumption(st, seq, f) = "Consumed"
    BY <1>5, AppliedIsConsumed
  <2>2. r = RecordAppliedFact(hinted, seq, f)
    BY <1>5 DEF ApplyInputStore, Apply
  <2>3. /\ consumed \in StoreType
        /\ consumed.version = st.version /\ consumed.last_applied = st.last_applied
        /\ consumed.fact_seq = st.fact_seq /\ consumed.pending = st.pending
        /\ consumed.orders = st.orders /\ consumed.tables = st.tables
        /\ consumed.mode = st.mode /\ consumed.overlay = st.overlay
        /\ consumed.last_consumed = seq /\ consumed.bound = [st.bound EXCEPT ![seq] = f]
    BY <1>0, <2>1, ConsumeFields
  <2> HIDE DEF consumed
  <2>4. PostureOK(consumed)
    BY <1>0, <2>3 DEF PostureOK
  <2>5. /\ hinted \in StoreType /\ SameJournal(hinted, consumed) /\ PostureOK(hinted)
        /\ hinted.orders = consumed.orders /\ hinted.tables = consumed.tables
    BY <2>3, <2>4, HintFields
  <2> HIDE DEF hinted
  <2>6. /\ r \in StoreType /\ r.last_consumed = hinted.last_consumed /\ r.last_applied = seq
        /\ r.fact_seq = [hinted.fact_seq EXCEPT ![f] = seq] /\ r.bound = hinted.bound
        /\ r.orders = hinted.orders /\ r.tables = hinted.tables /\ PostureOK(r)
        /\ r.anchor = AnchorAt(r, seq) /\ r.anchor \in FullSetAnchor
    BY <2>2, <2>5, AppliedFields
  <2>7. seq \in Nat /\ seq # None
    BY ConstantsAssumption, NoneIsNoNumber
  <2>8. EmptyAccount(r)
    BY <2>3, <2>5, <2>6 DEF RuntimeOK, EmptyAccount
  <2>9. ConsumedWasApplied(r)
    <3>1. r.fact_seq = [st.fact_seq EXCEPT ![f] = seq] /\ r.bound = [st.bound EXCEPT ![seq] = f]
      BY <2>3, <2>5, <2>6 DEF SameJournal
    <3>2. ASSUME NEW s \in JournalSeq, r.bound[s] # None, Kind[r.bound[s]] \in AppliedKind
          PROVE  r.fact_seq[r.bound[s]] # None
      <4>1. CASE s = seq
        BY <1>0, <2>7, <3>1, <4>1 DEF StoreType
      <4>2. CASE s # seq
        <5>1. r.bound[s] = st.bound[s] /\ st.bound[s] \in Fact
          BY <1>0, <3>1, <3>2, <4>2 DEF StoreType, OptionOf
        <5>2. st.fact_seq[st.bound[s]] # None
          BY <3>2, <5>1 DEF RuntimeOK, ConsumedWasApplied
        <5> QED BY <1>0, <2>7, <3>1, <5>1, <5>2 DEF StoreType
      <4> QED BY <4>1, <4>2
    <3> QED BY <3>2 DEF ConsumedWasApplied
  <2>10. AnchoredThere(r)
    BY <2>3, <2>5, <2>6, <2>7, NoneIsNoRecord DEF AnchoredThere, SameJournal
  <2> QED BY <1>5, <2>6, <2>8, <2>9, <2>10 DEF RuntimeOK
<1> QED BY <1>1, <1>2, <1>3, <1>4, <1>5

\* A reconcile that is not refused leaves the account empty and the store
\* anchored where it was.
LEMMA CompleteKeepsRuntimeOK ==
    ASSUME NEW st, RuntimeOK(st), NEW report \in RemoteSnapshot, ~NeedsAttention(st, report),
           NEW r, r = CompleteReconcile(st, report)
    PROVE  RuntimeOK(r) /\ SameShown(r, st)
<1> DEFINE replaced == [st EXCEPT !.anchor = None, !.orders = LastById(report.orders),
                                  !.tables = report.tables]
           anchored == IF st.last_applied # None
                       THEN RebuildFullSetAnchor(replaced, st.last_applied)
                       ELSE replaced
           done     == [anchored EXCEPT !.first_reconcile = TRUE]
<1>0. st \in StoreType /\ PostureOK(st) /\ EmptyAccount(st)
  BY DEF RuntimeOK
<1>1. r = ApplyRestorePosture(done)
  BY DEF CompleteReconcile
<1>2. LastById(report.orders) = {}
  <2>1. OrderIds(st.orders) = OrderIds(LastById(report.orders))
    BY DEF NeedsAttention, OrderMismatches
  <2>2. OrderIds(st.orders) = {}
    BY <1>0 DEF EmptyAccount, OrderIds
  <2> QED BY <2>1, <2>2 DEF OrderIds
<1>3. /\ report.tables \in [Table -> SUBSET Row]
      /\ report.tables["approvals"] = {} /\ report.tables["relayer_txs"] = {}
  BY <1>0, SnapshotAssumption DEF NeedsAttention, TableMismatches, EmptyAccount
<1>4. /\ replaced \in StoreType /\ SameJournal(replaced, st) /\ EmptyAccount(replaced)
      /\ replaced.pending = st.pending /\ replaced.mode = st.mode /\ replaced.overlay = st.overlay
      /\ replaced.orders = st.orders
  BY <1>0, <1>2, <1>3 DEF StoreType, SameJournal, EmptyAccount, OptionOf
<1> HIDE DEF replaced
<1>5. /\ anchored \in StoreType /\ SameJournal(anchored, st) /\ EmptyAccount(anchored)
      /\ anchored.pending = st.pending /\ anchored.mode = st.mode /\ anchored.overlay = st.overlay
      /\ anchored.orders = st.orders
      /\ st.last_applied # None =>
             anchored.anchor = AnchorAt(st, st.last_applied) /\ anchored.anchor # None
  <2>1. CASE st.last_applied # None
    <3>1. st.last_applied \in Nat
      BY <1>0, <2>1 DEF StoreType, OptionOf
    <3>2. anchored = RebuildFullSetAnchor(replaced, st.last_applied)
      BY <2>1
    <3> HIDE DEF anchored
    <3>3. /\ anchored \in StoreType /\ SameJournal(anchored, replaced)
          /\ anchored.pending = replaced.pending /\ anchored.orders = replaced.orders
          /\ anchored.tables = replaced.tables
          /\ anchored.mode = replaced.mode /\ anchored.overlay = replaced.overlay
          /\ anchored.anchor = AnchorAt(replaced, st.last_applied)
          /\ anchored.anchor \in FullSetAnchor
      BY <1>4, <3>1, <3>2, RebuildFields
    <3>4. AnchorAt(replaced, st.last_applied) = AnchorAt(st, st.last_applied)
      BY <1>4 DEF AnchorAt, SameJournal
    <3> QED BY <1>4, <3>3, <3>4, NoneIsNoRecord DEF SameJournal, EmptyAccount
  <2>2. CASE st.last_applied = None
    BY <1>4, <2>2
  <2> QED BY <2>1, <2>2
<1> HIDE DEF anchored
<1>6. /\ done \in StoreType /\ SameJournal(done, anchored) /\ done.anchor = anchored.anchor
      /\ done.orders = anchored.orders /\ done.tables = anchored.tables
      /\ done.pending = anchored.pending /\ done.mode = anchored.mode
      /\ done.overlay = anchored.overlay
  BY <1>5 DEF StoreType, SameJournal
<1> HIDE DEF done
<1>7. PostureOK(done)
  BY <1>0, <1>5, <1>6 DEF PostureOK
<1>8. /\ r \in StoreType /\ SameJournal(r, done) /\ r.anchor = done.anchor
      /\ r.orders = done.orders /\ r.tables = done.tables /\ PostureOK(r)
  BY <1>1, <1>6, <1>7, PostureFields
<1>9. /\ SameJournal(r, st) /\ EmptyAccount(r) /\ r.orders = st.orders
      /\ r.anchor = anchored.anchor
  BY <1>5, <1>6, <1>8 DEF SameJournal, EmptyAccount
<1>10. ConsumedWasApplied(r)
  BY <1>9 DEF RuntimeOK, ConsumedWasApplied, SameJournal
<1>11. AnchoredThere(r)
  BY <1>5, <1>9 DEF RuntimeOK, AnchoredThere, SameJournal, AnchorAt
<1> QED BY <1>8, <1>9, <1>10, <1>11 DEF RuntimeOK, SameShown, SameJournal

\* StateStore::reconcile, refused or completed.
LEMMA ReconcileKeepsRuntimeOK ==
    ASSUME NEW st, RuntimeOK(st), NEW report \in RemoteSnapshot,
           NEW r, r = ReconcileStore(st, report)
    PROVE  RuntimeOK(r) /\ SameShown(r, st)
<1>1. CASE NeedsAttention(st, report)
  <2>1. r = EnterReconciling(st)
    BY <1>1 DEF ReconcileStore
  <2>2. /\ r \in StoreType /\ SameJournal(r, st) /\ PostureOK(r)
        /\ r.anchor = st.anchor /\ r.orders = st.orders /\ r.tables = st.tables
    BY <2>1, ReconcilingFields DEF RuntimeOK
  <2> QED BY <2>2, SameStandingKeepsOK
<1>2. CASE ~NeedsAttention(st, report)
  BY <1>2, CompleteKeepsRuntimeOK DEF ReconcileStore
<1> QED BY <1>1, <1>2

\* clear_pending_reconcile_after_restore drops the pending work alone.
LEMMA ClearPendingKeepsOK ==
    ASSUME NEW st, RuntimeOK(st), NEW r, r = ClearPendingReconcileAfterRestore(st)
    PROVE  RuntimeOK(r) /\ SameShown(r, st)
<1> DEFINE cleared == [st EXCEPT !.pending = {}]
<1>1. r = ApplyRestorePosture(cleared)
  BY DEF ClearPendingReconcileAfterRestore
<1>2. /\ cleared \in StoreType /\ SameJournal(cleared, st) /\ PostureOK(cleared)
      /\ cleared.anchor = st.anchor /\ cleared.orders = st.orders /\ cleared.tables = st.tables
  BY DEF RuntimeOK, StoreType, SameJournal, PostureOK
<1> HIDE DEF cleared
<1>3. /\ r \in StoreType /\ SameJournal(r, cleared) /\ PostureOK(r) /\ r.anchor = cleared.anchor
      /\ r.orders = cleared.orders /\ r.tables = cleared.tables
  BY <1>1, <1>2, PostureFields
<1>4. /\ SameJournal(r, st) /\ r.anchor = st.anchor /\ r.orders = st.orders /\ r.tables = st.tables
  BY <1>2, <1>3 DEF SameJournal
<1> QED BY <1>3, <1>4, SameStandingKeepsOK

\* restore_pending_reconcile_anchor adds pending work alone.
LEMMA RestorePendingKeepsOK ==
    ASSUME NEW st, RuntimeOK(st), NEW ref \in PendingRef,
           NEW r, r = RestorePendingReconcileAnchor(st, ref)
    PROVE  RuntimeOK(r) /\ SameShown(r, st)
<1>1. /\ SameJournal(r, st) /\ r.anchor = st.anchor /\ r.orders = st.orders /\ r.tables = st.tables
      /\ r \in StoreType /\ PostureOK(r)
  <2>1. r = [st EXCEPT !.pending = st.pending \cup {ref}, !.first_reconcile = TRUE,
                       !.mode = "Reconciling", !.overlay = "CancelOnly"]
    BY DEF RestorePendingReconcileAnchor, ApplyRestorePosture, ApplyPolicy,
           ReconcileAttentionPolicy, RuntimeOK, StoreType
  <2>2. st \in StoreType /\ st.pending \cup {ref} \in SUBSET PendingRef
    BY DEF RuntimeOK, StoreType
  <2>3. "Reconciling" \in RuntimeMode /\ "CancelOnly" \in Overlay
    BY DEF RuntimeMode, Overlay, RuntimeOverlay
  <2>4. /\ SameJournal(r, st) /\ r.anchor = st.anchor /\ r.orders = st.orders
        /\ r.tables = st.tables /\ r.mode = "Reconciling" /\ r.overlay = "CancelOnly"
    BY <2>1, <2>2 DEF StoreType, SameJournal
  <2>5. r \in StoreType
    BY <2>1, <2>2, <2>3 DEF StoreType
  <2> QED BY <2>4, <2>5 DEF PostureOK
<1> QED BY <1>1, SameStandingKeepsOK

\* Without an applied position, a reconcile anchors the store at the baseline;
\* nothing was published before.
LEMMA AnchorBaselineKeepsOK ==
    ASSUME NEW st, RuntimeOK(st), NEW r, r = AnchorBaseline(st)
    PROVE  RuntimeOK(r) /\ (st.last_applied # None => SameShown(r, st))
<1>1. CASE st.last_applied # None
  BY <1>1 DEF AnchorBaseline, SameShown
<1>2. CASE st.last_applied = None
  <2> DEFINE placed   == [st EXCEPT !.last_consumed = 0, !.last_applied = 0]
             anchored == RebuildFullSetAnchor(placed, 0)
             cleared  == [anchored EXCEPT !.pending = {}, !.first_reconcile = TRUE]
  <2>1. r = [cleared EXCEPT !.mode = "Healthy", !.overlay = NoOverlay]
    BY <1>2 DEF AnchorBaseline, MarkReconciledAfterRestore, BaselineSeq, ApplyPolicy,
                ReconciledPolicy
  <2>2. /\ placed \in StoreType /\ placed.last_consumed = 0 /\ placed.last_applied = 0
        /\ placed.bound = st.bound /\ placed.fact_seq = st.fact_seq
        /\ placed.orders = st.orders /\ placed.tables = st.tables
    BY DEF RuntimeOK, StoreType, OptionOf
  <2> HIDE DEF placed
  <2>3. /\ anchored \in StoreType /\ SameJournal(anchored, placed)
        /\ anchored.orders = placed.orders /\ anchored.tables = placed.tables
        /\ anchored.anchor = AnchorAt(placed, 0) /\ anchored.anchor \in FullSetAnchor
    BY <2>2, RebuildFields
  <2> HIDE DEF anchored
  <2>4. /\ cleared \in StoreType /\ SameJournal(cleared, anchored) /\ cleared.pending = {}
        /\ cleared.orders = anchored.orders /\ cleared.tables = anchored.tables
        /\ cleared.anchor = anchored.anchor
    BY <2>3 DEF StoreType, SameJournal
  <2> HIDE DEF cleared
  <2>5. /\ r \in StoreType /\ SameJournal(r, cleared) /\ r.pending = {}
        /\ r.orders = cleared.orders /\ r.tables = cleared.tables
        /\ r.anchor = cleared.anchor
    BY <2>1, <2>4 DEF StoreType, SameJournal, RuntimeMode, Overlay
  <2>6. /\ r.last_consumed = 0 /\ r.last_applied = 0 /\ r.version = placed.version
        /\ r.bound = st.bound /\ r.fact_seq = st.fact_seq
        /\ r.orders = st.orders /\ r.tables = st.tables
        /\ r.anchor = AnchorAt(placed, 0) /\ r.anchor # None
    BY <2>2, <2>3, <2>4, <2>5, NoneIsNoRecord DEF SameJournal
  <2>7. PostureOK(r) /\ EmptyAccount(r) /\ ConsumedWasApplied(r)
    BY <2>5, <2>6 DEF PostureOK, RuntimeOK, EmptyAccount, ConsumedWasApplied
  <2>8. AnchoredThere(r)
    BY <2>2, <2>6, NoneIsNoNumber DEF AnchoredThere, AnchorAt
  <2> QED BY <1>2, <2>5, <2>7, <2>8 DEF RuntimeOK
<1> QED BY <1>1, <1>2

\* restore_committed_anchor places a new store at the durable position.
LEMMA RestoreCommittedKeepsOK ==
    ASSUME NEW version \in Nat, NEW seq \in JournalSeq,
           NEW r, r = RestoreCommittedAnchor(NewStore, version, seq)
    PROVE  RuntimeOK(r)
<1> DEFINE counted  == [NewStore EXCEPT !.version = version, !.last_consumed = seq,
                                        !.last_applied = seq]
           anchored == RebuildFullSetAnchor(counted, seq)
           done     == [anchored EXCEPT !.first_reconcile = TRUE]
<1>0. seq \in Nat /\ seq # None
  BY ConstantsAssumption, NoneIsNoNumber
<1>1. r = ApplyRestorePosture(done)
  BY DEF RestoreCommittedAnchor
<1>2. NewStore \in StoreType
  BY NewStoreOK DEF StoreOK
<1>3. /\ NewStore.orders = {} /\ NewStore.tables = [t \in Table |-> {}] /\ NewStore.pending = {}
      /\ NewStore.bound = [s \in JournalSeq |-> None]
  BY DEF NewStore
<1>4. /\ counted \in StoreType /\ counted.version = version
      /\ counted.last_consumed = seq /\ counted.last_applied = seq
      /\ counted.bound = NewStore.bound /\ counted.orders = NewStore.orders
      /\ counted.tables = NewStore.tables /\ counted.pending = NewStore.pending
  BY <1>0, <1>2 DEF StoreType, OptionOf
<1> HIDE DEF counted
<1>5. /\ anchored \in StoreType /\ SameJournal(anchored, counted)
      /\ anchored.pending = counted.pending /\ anchored.orders = counted.orders
      /\ anchored.tables = counted.tables
      /\ anchored.anchor = AnchorAt(counted, seq) /\ anchored.anchor \in FullSetAnchor
  BY <1>0, <1>4, RebuildFields
<1> HIDE DEF anchored
<1>6. /\ done \in StoreType /\ SameJournal(done, anchored) /\ done.pending = anchored.pending
      /\ done.orders = anchored.orders /\ done.tables = anchored.tables
      /\ done.anchor = anchored.anchor
  BY <1>5 DEF StoreType, SameJournal
<1> HIDE DEF done
<1>7. PostureOK(done)
  BY <1>3, <1>4, <1>5, <1>6 DEF PostureOK
<1>8. /\ r \in StoreType /\ SameJournal(r, done) /\ PostureOK(r) /\ r.anchor = done.anchor
      /\ r.orders = done.orders /\ r.tables = done.tables
  BY <1>1, <1>6, <1>7, PostureFields
<1>9. /\ r.last_consumed = seq /\ r.last_applied = seq /\ r.version = counted.version
      /\ r.bound = [s \in JournalSeq |-> None] /\ r.orders = {} /\ r.orders = counted.orders
      /\ r.tables = [t \in Table |-> {}]
      /\ r.anchor = AnchorAt(counted, seq) /\ r.anchor # None
  BY <1>3, <1>4, <1>5, <1>6, <1>8, NoneIsNoRecord DEF SameJournal
<1>10. EmptyAccount(r) /\ ConsumedWasApplied(r)
  BY <1>9 DEF EmptyAccount, ConsumedWasApplied, Table
<1>11. AnchoredThere(r)
  BY <1>0, <1>9 DEF AnchoredThere, AnchorAt
<1> QED BY <1>8, <1>10, <1>11 DEF RuntimeOK

---------------------------------------------------------------------------
(***************************************************************************)
(* The theorems                                                            *)
(***************************************************************************)

\* A snapshot that is published stays a true one while nothing it shows moves.
LEMMA SameShownKeepsPublished ==
    ASSUME NEW p, NEW st, NEW r, PublishedOK(p, st), SameShown(r, st)
    PROVE  PublishedOK(p, r)
BY DEF PublishedOK, SameShown

\* A published snapshot survives a reconcile: one that anchors the baseline
\* finds nothing published.
LEMMA ReconciledKeepsPublished ==
    ASSUME NEW st, RuntimeOK(st), NEW p, PublishedOK(p, st), NEW mid, RuntimeOK(mid),
           SameShown(mid, st), NEW r, r = AnchorBaseline(mid)
    PROVE  RuntimeOK(r) /\ PublishedOK(p, r)
<1>1. RuntimeOK(r) /\ (mid.last_applied # None => SameShown(r, mid))
  BY AnchorBaselineKeepsOK
<1>2. PublishedOK(p, mid)
  BY SameShownKeepsPublished
<1>3. CASE mid.last_applied = None
  BY <1>1, <1>2, <1>3 DEF PublishedOK
<1>4. CASE mid.last_applied # None
  BY <1>1, <1>2, <1>4, SameShownKeepsPublished
<1> QED BY <1>3, <1>4

\* One step of the runtime keeps both invariants.
LEMMA RuntimeNextKeepsOK ==
    ASSUME RuntimeOK(store), PublishedOK(published, store), [RuntimeNext]_runtimeVars
    PROVE  RuntimeOK(store') /\ PublishedOK(published', store')
<1> DEFINE OK == RuntimeOK(store') /\ PublishedOK(published', store')
<1>1. ASSUME NEW version \in 0..MaxVersion, NEW seq \in JournalSeq, RestoreCommitted(version, seq)
      PROVE  OK
  <2>1. version \in Nat
    BY RestoreAssumption
  <2>2. store = NewStore /\ store' = RestoreCommittedAnchor(NewStore, version, seq)
        /\ published' = published
    BY <1>1 DEF RestoreCommitted
  <2>3. published = None
    BY <2>2 DEF PublishedOK, NewStore
  <2> QED BY <2>1, <2>2, <2>3, RestoreCommittedKeepsOK DEF PublishedOK
<1>2. ASSUME NEW ref \in PendingRef, RestorePending(ref)
      PROVE  OK
  <2>1. RuntimeOK(store') /\ SameShown(store', store)
    BY <1>2, RestorePendingKeepsOK DEF RestorePending
  <2> QED BY <1>2, <2>1, SameShownKeepsPublished DEF RestorePending
<1>3. ASSUME NEW report \in RemoteSnapshot, BootstrapOnce(report)
      PROVE  OK
  <2> DEFINE mid == ReconcileStore(store, report)
  <2>1. RuntimeOK(mid) /\ SameShown(mid, store)
    BY ReconcileKeepsRuntimeOK
  <2>2. published' = published /\ (store' = mid \/ store' = AnchorBaseline(mid))
    BY <1>3 DEF BootstrapOnce, BootstrapStore
  <2> HIDE DEF mid
  <2>3. CASE store' = mid
    BY <2>1, <2>2, <2>3, SameShownKeepsPublished
  <2>4. CASE store' = AnchorBaseline(mid)
    BY <2>1, <2>2, <2>4, ReconciledKeepsPublished
  <2> QED BY <2>2, <2>3, <2>4
<1>4. ASSUME NEW report \in RemoteSnapshot, RuntimeReconcile(report)
      PROVE  OK
  <2> DEFINE mid     == ReconcileStore(store, report)
             cleared == ClearPendingReconcileAfterRestore(mid)
  <2>1. RuntimeOK(mid) /\ SameShown(mid, store)
    BY ReconcileKeepsRuntimeOK
  <2>2. published' = published /\ (store' = mid \/ store' = AnchorBaseline(cleared))
    BY <1>4 DEF RuntimeReconcile, RuntimeReconcileStore
  <2> HIDE DEF mid
  <2>3. RuntimeOK(cleared) /\ SameShown(cleared, mid)
    BY <2>1, ClearPendingKeepsOK
  <2> HIDE DEF cleared
  <2>4. SameShown(cleared, store)
    BY <2>1, <2>3 DEF SameShown
  <2>5. CASE store' = mid
    BY <2>1, <2>2, <2>5, SameShownKeepsPublished
  <2>6. CASE store' = AnchorBaseline(cleared)
    BY <2>2, <2>3, <2>4, <2>6, ReconciledKeepsPublished
  <2> QED BY <2>2, <2>5, <2>6
<1>5. ASSUME NEW seq \in JournalSeq, NEW f \in Fact, ApplyInput(seq, f)
      PROVE  OK
  <2>1. /\ RuntimeOK(store')
        /\ ApplyOutcome(store, seq, f) # "Applied" => SameShown(store', store)
    BY <1>5, ApplyInputKeepsOK DEF ApplyInput
  <2>2. CASE ApplyOutcome(store, seq, f) = "Applied"
    BY <1>5, <2>1, <2>2 DEF ApplyInput, PublishedOK
  <2>3. CASE ApplyOutcome(store, seq, f) # "Applied"
    BY <1>5, <2>1, <2>3, SameShownKeepsPublished DEF ApplyInput
  <2> QED BY <2>2, <2>3
<1>6. CASE PublishSnapshot
  <2>1. store' = store
    BY <1>6 DEF PublishSnapshot
  <2>2. CASE store.last_applied = None
    BY <1>6, <2>1, <2>2 DEF PublishSnapshot
  <2>3. CASE store.last_applied # None
    <3>1. published' = Published(store)
      BY <1>6, <2>3 DEF PublishSnapshot
    <3>2. AnchoredFullSet(store) /\ store.anchor.orders = OrderIds(store.orders)
      BY <2>3 DEF RuntimeOK, AnchoredThere, AnchoredFullSet, AnchorAt
    <3> QED BY <2>1, <2>3, <3>1, <3>2 DEF Published, PublishedOK
  <2> QED BY <2>2, <2>3
<1>7. CASE UNCHANGED runtimeVars
  BY <1>7 DEF runtimeVars
<1> QED BY <1>1, <1>2, <1>3, <1>4, <1>5, <1>6, <1>7 DEF RuntimeNext

\* The inductive invariants hold of every reachable runtime.
LEMMA RuntimeInvariant == RuntimeSpec => [](RuntimeOK(store) /\ PublishedOK(published, store))
<1>1. RuntimeInit => RuntimeOK(store) /\ PublishedOK(published, store)
  <2>1. NewStore \in StoreType /\ PostureOK(NewStore)
    BY NewStoreOK DEF StoreOK
  <2>2. EmptyAccount(NewStore) /\ ConsumedWasApplied(NewStore) /\ AnchoredThere(NewStore)
    BY DEF NewStore, EmptyAccount, ConsumedWasApplied, AnchoredThere, Table
  <2> QED BY <2>1, <2>2 DEF RuntimeInit, RuntimeOK, PublishedOK
<1>2. RuntimeOK(store) /\ PublishedOK(published, store) /\ [RuntimeNext]_runtimeVars
        => (RuntimeOK(store) /\ PublishedOK(published, store))'
  BY RuntimeNextKeepsOK
<1> QED BY <1>1, <1>2, PTL DEF RuntimeSpec

\* Whatever the runtime has published describes the store as it is, through
\* restores, reconciles, applied and refused facts (apply_input,
\* publish_snapshot, anchored_fullset, anchor_baseline).
THEOREM SnapshotStaysCurrent == RuntimeSpec => []PublishedIsCurrent
<1>1. RuntimeOK(store) /\ PublishedOK(published, store) => PublishedIsCurrent
  BY DEF RuntimeOK, AnchoredThere, PublishedOK, PublishedIsCurrent
<1> QED BY <1>1, RuntimeInvariant, PTL

\* The runtime takes nothing over from the venue: with no local records to
\* compare with, only the report of an empty account is accepted
\* (compare_orders, compare_approvals, compare_relayer_txs).
THEOREM OnlyEmptyAccounts == RuntimeSpec => []OnlyEmptyAccountsReconcile
<1>1. RuntimeOK(store) => OnlyEmptyAccountsReconcile
  BY DEF RuntimeOK, EmptyAccount, OnlyEmptyAccountsReconcile
<1> QED BY <1>1, RuntimeInvariant, PTL
=============================================================================
