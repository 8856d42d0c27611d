------------------------- MODULE StateStoreProofs -------------------------
(***************************************************************************)
(* Proofs that the store keeps its journal, its posture and its full-set   *)
(* anchor consistent, for every set of facts, journal sequence numbers,    *)
(* orders and snapshots.                                                   *)
(***************************************************************************)
EXTENDS StateStore, FiniteSetTheorems, TLAPS

\* A set of naturals that is not empty has a least element.
LEMMA LeastNat ==
    ASSUME NEW S, S \subseteq Nat, S # {}
    PROVE  \E k \in S : \A j \in S : k <= j
<1>1. PICK k \in S : \A j \in S : ~(<<j, k>> \in OpToRel(<, Nat))
  BY NatLessThanWellFounded, WFMin
<1>2. \A j \in S : ~(j < k)
  BY <1>1 DEF OpToRel
<1>3. \A j \in S : k \in Nat /\ j \in Nat
  BY <1>1
<1>4. \A j \in S : k <= j
  BY <1>2, <1>3
<1> QED BY <1>1, <1>4

---------------------------------------------------------------------------
(***************************************************************************)
(* What the helpers on stores leave alone                                  *)
(***************************************************************************)

\* The fields the journal invariant reads.
SameJournal(a, b) ==
    /\ a.version = b.version
    /\ a.last_consumed = b.last_consumed
    /\ a.last_applied = b.last_applied
    /\ a.fact_seq = b.fact_seq
    /\ a.bound = b.bound

\* The tables of discovered families and of backfills that came before their
\* family's discovery.
SameDiscovery(a, b) == a.families = b.families /\ a.backfills = b.backfills

\* A store that does not claim to be healthy while something is pending.
PostureOK(st) ==
    st.pending # {} => st.mode # "Healthy" /\ st.overlay = "CancelOnly"

\* An anchor lists the current open orders.
AnchorOK(st) == st.anchor # None => st.anchor.orders = OrderIds(st.orders)

\* apply_restore_posture changes mode and overlay alone, and leaves a posture
\* that fits the pending reconciles.
LEMMA PostureFields ==
    ASSUME NEW st \in StoreType, PostureOK(st), NEW r, r = ApplyRestorePosture(st)
    PROVE  /\ r \in StoreType
           /\ SameJournal(r, st)
           /\ r.pending = st.pending
           /\ r.anchor = st.anchor
           /\ r.orders = st.orders /\ r.tables = st.tables
           /\ r.first_reconcile = st.first_reconcile
           /\ PostureOK(r)
           /\ SameDiscovery(r, st)
<1>1. CASE ~st.first_reconcile
  BY <1>1 DEF ApplyRestorePosture, SameJournal, SameDiscovery
<1>2. CASE st.first_reconcile /\ st.pending # {}
  <2>1. r = [st EXCEPT !.mode = "Reconciling", !.overlay = "CancelOnly"]
    BY <1>2 DEF ApplyRestorePosture, ApplyPolicy, ReconcileAttentionPolicy
  <2> QED BY <2>1, <1>2 DEF StoreType, SameJournal, SameDiscovery, PostureOK,
                            RuntimeMode, Overlay, RuntimeOverlay
<1>3. CASE st.first_reconcile /\ st.pending = {}
  <2>1. r = [st EXCEPT !.mode = "Healthy", !.overlay = NoOverlay]
    BY <1>3 DEF ApplyRestorePosture, ApplyPolicy, ReconciledPolicy
  <2> QED BY <2>1, <1>3 DEF StoreType, SameJournal, SameDiscovery, PostureOK,
                            RuntimeMode, Overlay
<1> QED BY <1>1, <1>2, <1>3 DEF StoreType

\* enter_reconciling changes mode and overlay alone.
LEMMA ReconcilingFields ==
    ASSUME NEW st \in StoreType, NEW r, r = EnterReconciling(st)
    PROVE  /\ r \in StoreType
           /\ SameJournal(r, st)
           /\ r.pending = st.pending
           /\ r.anchor = st.anchor
           /\ r.orders = st.orders /\ r.tables = st.tables
           /\ PostureOK(r)
           /\ SameDiscovery(r, st)
<1>1. r = [st EXCEPT !.mode = "Reconciling", !.overlay = "CancelOnly"]
  BY DEF EnterReconciling, ApplyPolicy, ReconcileAttentionPolicy
<1> QED BY <1>1 DEF StoreType, SameJournal, SameDiscovery, PostureOK, RuntimeMode, Overlay,
                    RuntimeOverlay

\* Parked and recorded backfills stay well formed.
LEMMA RecordBackfillType ==
    ASSUME NEW b \in Backfill, NEW f \in OptionOf(Fact), NEW t \in OptionOf(Nat)
    PROVE  RecordBackfill(b, f, t) \in Backfill
BY NoneAssumption, NoneIsNoNumber DEF RecordBackfill, MergeCompletion, Backfill, OptionOf

\* record_family_discovery stays within the discovery tables.
LEMMA DiscoveryFields ==
    ASSUME NEW st \in StoreType, PostureOK(st), NEW m \in Family,
           NEW r, r = RecordFamilyDiscovery(st, m)
    PROVE  /\ r \in StoreType /\ SameJournal(r, st) /\ r.pending = st.pending
           /\ r.anchor = st.anchor /\ r.orders = st.orders /\ r.tables = st.tables /\ PostureOK(r)
<1> DEFINE kept   == IF st.families[m] = None THEN EmptyBackfill ELSE st.families[m]
           early  == st.backfills[m]
           record == IF early = None THEN kept
                     ELSE RecordBackfill(kept, early.cursor, early.completed_at)
<1>1. kept \in Backfill
  BY DEF EmptyBackfill, Backfill, OptionOf, StoreType
<1>2. record \in Backfill
  BY <1>1, RecordBackfillType DEF Backfill, OptionOf, StoreType
<1> HIDE DEF kept, record
<1>3. r = [st EXCEPT !.families = [st.families EXCEPT ![m] = record],
                     !.backfills = [st.backfills EXCEPT ![m] = None]]
  BY DEF RecordFamilyDiscovery, record, kept, early
<1>4. /\ [st.families EXCEPT ![m] = record] \in [Family -> OptionOf(Backfill)]
      /\ [st.backfills EXCEPT ![m] = None] \in [Family -> OptionOf(Backfill)]
  BY <1>2 DEF StoreType, OptionOf
<1> QED BY <1>3, <1>4 DEF StoreType, SameJournal, PostureOK

\* record_family_backfill stays within the discovery tables.
LEMMA BackfillFields ==
    ASSUME NEW st \in StoreType, PostureOK(st), NEW m \in Family, NEW f \in Fact,
           NEW t \in OptionOf(Nat), NEW r, r = RecordFamilyBackfill(st, m, f, t)
    PROVE  /\ r \in StoreType /\ SameJournal(r, st) /\ r.pending = st.pending
           /\ r.anchor = st.anchor /\ r.orders = st.orders /\ r.tables = st.tables /\ PostureOK(r)
<1>0. f \in OptionOf(Fact)
  BY DEF OptionOf
<1>1. CASE st.families[m] # None
  <2> DEFINE record == RecordBackfill(st.families[m], f, t)
  <2>1. record \in Backfill
    BY <1>0, <1>1, RecordBackfillType DEF OptionOf, StoreType
  <2> HIDE DEF record
  <2>2. [st.families EXCEPT ![m] = record] \in [Family -> OptionOf(Backfill)]
    BY <2>1 DEF StoreType, OptionOf
  <2>3. r = [st EXCEPT !.families = [st.families EXCEPT ![m] = record]]
    BY <1>1 DEF RecordFamilyBackfill, record
  <2> QED BY <2>2, <2>3 DEF StoreType, SameJournal, PostureOK
<1>2. CASE st.families[m] = None
  <2> DEFINE early  == IF st.backfills[m] = None THEN EmptyBackfill ELSE st.backfills[m]
             record == RecordBackfill(early, f, t)
  <2>1. early \in Backfill
    BY DEF EmptyBackfill, Backfill, OptionOf, StoreType
  <2>2. record \in Backfill
    BY <1>0, <2>1, RecordBackfillType
  <2> HIDE DEF early, record
  <2>3. [st.backfills EXCEPT ![m] = record] \in [Family -> OptionOf(Backfill)]
    BY <2>2 DEF StoreType, OptionOf
  <2>4. r = [st EXCEPT !.backfills = [st.backfills EXCEPT ![m] = record]]
    BY <1>2 DEF RecordFamilyBackfill, record, early
  <2> QED BY <2>3, <2>4 DEF StoreType, SameJournal, PostureOK
<1> QED BY <1>1, <1>2

\* A hint touches neither the journal nor the orders, and can only close
\* pending reconciles.
LEMMA HintFields ==
    ASSUME NEW st \in StoreType, PostureOK(st), NEW f \in Fact, NEW r, r = ApplyHint(st, f)
    PROVE  /\ r \in StoreType /\ SameJournal(r, st)
           /\ r.anchor = st.anchor /\ r.orders = st.orders /\ r.tables = st.tables /\ PostureOK(r)
<1>1. CASE Kind[f] = "Discovery"
  BY <1>1, DiscoveryFields, ConstantsAssumption DEF ApplyHint
<1>2. CASE Kind[f] = "Backfill"
  BY <1>2, BackfillFields, ConstantsAssumption DEF ApplyHint, OptionOf
<1>3. CASE Kind[f] = "BackfillComplete"
  BY <1>3, BackfillFields, ConstantsAssumption DEF ApplyHint, OptionOf
<1>4. CASE Kind[f] = "Attention"
  <2>1. r = [st EXCEPT !.attention = st.attention \cup {f}]
    BY <1>4 DEF ApplyHint
  <2> QED BY <2>1 DEF StoreType, SameJournal, PostureOK
<1>5. CASE Kind[f] = "ReconcileTerminal"
  <2> DEFINE cleared == [st EXCEPT !.pending = st.pending \ {TargetRef[f]}]
  <2>1. /\ cleared \in StoreType /\ SameJournal(cleared, st)
        /\ cleared.anchor = st.anchor /\ cleared.orders = st.orders
        /\ cleared.tables = st.tables /\ PostureOK(cleared)
    BY DEF StoreType, SameJournal, PostureOK
  <2>2. r = ApplyRestorePosture(cleared)
    BY <1>5 DEF ApplyHint, ClearPendingReconcile
  <2> HIDE DEF cleared
  <2> QED BY <2>1, <2>2, PostureFields DEF SameJournal
<1>6. CASE Kind[f] \notin {"Discovery", "Backfill", "BackfillComplete", "Attention",
                           "ReconcileTerminal"}
  BY <1>6 DEF ApplyHint, SameJournal
<1> QED BY <1>1, <1>2, <1>3, <1>4, <1>5, <1>6

\* The anchor of the open orders of a store at a journal position.
AnchorAt(st, seq) == [version |-> st.version, seq |-> seq, orders |-> OrderIds(st.orders)]

\* rebuild_fullset_anchor changes the anchor alone, to the current open orders.
LEMMA RebuildFields ==
    ASSUME NEW st \in StoreType, NEW seq \in Nat, NEW r, r = RebuildFullSetAnchor(st, seq)
    PROVE  /\ r \in StoreType /\ SameJournal(r, st) /\ r.pending = st.pending
           /\ r.orders = st.orders /\ r.tables = st.tables /\ AnchorOK(r)
           /\ r.mode = st.mode /\ r.overlay = st.overlay
           /\ SameDiscovery(r, st)
           /\ r.anchor = AnchorAt(st, seq) /\ r.anchor \in FullSetAnchor
<1> DEFINE anchor == AnchorAt(st, seq)
<1>1. anchor \in FullSetAnchor
  BY DEF FullSetAnchor, AnchorAt, OrderIds, StoreType
<1>2. r = [st EXCEPT !.anchor = anchor]
  BY DEF RebuildFullSetAnchor, AnchorAt
<1>3. anchor.orders = OrderIds(st.orders)
  BY DEF AnchorAt
<1> HIDE DEF anchor
<1>4. r.anchor = AnchorAt(st, seq)
  BY <1>2 DEF StoreType, anchor
<1> QED BY <1>1, <1>2, <1>3, <1>4 DEF StoreType, SameJournal, SameDiscovery, AnchorOK, OptionOf

\* What record_applied_fact does to each field.
LEMMA AppliedFields ==
    ASSUME NEW st \in StoreType, PostureOK(st), NEW seq \in JournalSeq, NEW f \in Fact,
           NEW r, r = RecordAppliedFact(st, seq, f)
    PROVE  /\ r \in StoreType
           /\ r.version = st.version + 1
           /\ r.last_consumed = st.last_consumed
           /\ r.last_applied = seq
           /\ r.fact_seq = [st.fact_seq EXCEPT ![f] = seq]
           /\ r.bound = st.bound
           /\ r.orders = st.orders /\ r.tables = st.tables
           /\ AnchorOK(r) /\ PostureOK(r)
           /\ SameDiscovery(r, st)
           /\ r.anchor = AnchorAt(r, seq) /\ r.anchor \in FullSetAnchor
<1> DEFINE counted  == [st EXCEPT !.version = st.version + 1,
                                  !.last_applied = seq,
                                  !.fact_seq = [st.fact_seq EXCEPT ![f] = seq]]
           anchored == RebuildFullSetAnchor(counted, seq)
<1>0. seq \in Nat
  BY ConstantsAssumption
<1>1. [st.fact_seq EXCEPT ![f] = seq] \in [Fact -> OptionOf(JournalSeq)]
  BY DEF StoreType, OptionOf
<1>a. seq \in OptionOf(Nat) /\ st.version + 1 \in Nat
  BY <1>0 DEF StoreType, OptionOf
<1>2. /\ counted \in StoreType
      /\ counted.version = st.version + 1
      /\ counted.last_consumed = st.last_consumed
      /\ counted.last_applied = seq
      /\ counted.fact_seq = [st.fact_seq EXCEPT ![f] = seq]
      /\ counted.bound = st.bound
      /\ counted.orders = st.orders /\ counted.tables = st.tables
      /\ counted.pending = st.pending
      /\ counted.mode = st.mode /\ counted.overlay = st.overlay
      /\ SameDiscovery(counted, st)
  BY <1>a, <1>1 DEF StoreType, SameDiscovery
<1>3. r = ApplyRestorePosture(anchored)
  BY DEF RecordAppliedFact
<1> HIDE DEF counted
<1>4. /\ anchored \in StoreType /\ SameJournal(anchored, counted)
      /\ anchored.pending = counted.pending /\ anchored.orders = counted.orders
      /\ anchored.tables = counted.tables
      /\ AnchorOK(anchored)
      /\ anchored.mode = counted.mode /\ anchored.overlay = counted.overlay
      /\ SameDiscovery(anchored, counted)
      /\ anchored.anchor = AnchorAt(counted, seq) /\ anchored.anchor \in FullSetAnchor
  BY <1>0, <1>2, RebuildFields
<1> HIDE DEF anchored
<1>5. PostureOK(anchored)
  BY <1>2, <1>4 DEF PostureOK
<1>6. /\ r \in StoreType /\ SameJournal(r, anchored) /\ r.pending = anchored.pending
      /\ r.anchor = anchored.anchor /\ r.orders = anchored.orders /\ r.tables = anchored.tables
      /\ PostureOK(r)
      /\ SameDiscovery(r, anchored)
  BY <1>3, <1>4, <1>5, PostureFields
<1>7. r.anchor = AnchorAt(r, seq)
  BY <1>4, <1>6 DEF SameJournal, AnchorAt
<1> QED BY <1>2, <1>4, <1>6, <1>7 DEF SameJournal, SameDiscovery, AnchorOK

\* What consume_journal_seq does to each field.
LEMMA ConsumeFields ==
    ASSUME NEW st \in StoreType, NEW seq \in JournalSeq, NEW f \in Fact,
           NEW r, r = ConsumeJournalSeq(st, seq, f)
    PROVE  /\ r \in StoreType
           /\ r.version = st.version /\ r.last_applied = st.last_applied
           /\ r.fact_seq = st.fact_seq /\ r.pending = st.pending
           /\ r.anchor = st.anchor /\ r.orders = st.orders /\ r.tables = st.tables
           /\ r.mode = st.mode /\ r.overlay = st.overlay
           /\ IF JournalConsumption(st, seq, f) = "Consumed"
              THEN r.last_consumed = seq /\ r.bound = [st.bound EXCEPT ![seq] = f]
              ELSE r.last_consumed = st.last_consumed /\ r.bound = st.bound
           /\ SameDiscovery(r, st)
<1>0. seq \in Nat
  BY ConstantsAssumption
<1>1. [st.bound EXCEPT ![seq] = f] \in [JournalSeq -> OptionOf(Fact)]
  BY DEF StoreType, OptionOf
<1>2. CASE JournalConsumption(st, seq, f) = "Consumed"
  <2>1. r = [st EXCEPT !.last_consumed = seq, !.bound = [st.bound EXCEPT ![seq] = f]]
    BY <1>2 DEF ConsumeJournalSeq
  <2> QED BY <1>0, <1>1, <1>2, <2>1 DEF StoreType, SameDiscovery, OptionOf
<1>3. CASE JournalConsumption(st, seq, f) # "Consumed"
  BY <1>3 DEF ConsumeJournalSeq, StoreType, SameDiscovery
<1> QED BY <1>2, <1>3

---------------------------------------------------------------------------
(***************************************************************************)
(* The journal                                                             *)
(***************************************************************************)

JournalOK(st) ==
    /\ ConsumedInOrder(st)
    /\ AppliedWhereBound(st)
    /\ ConsumedIsApplied(st)
    /\ LastAppliedIsGreatest(st)
    /\ VersionCountsFacts(st)

\* The journal invariant reads the journal fields alone.
LEMMA SameJournalKeepsOK ==
    ASSUME NEW st, NEW r, SameJournal(r, st), JournalOK(st)
    PROVE  JournalOK(r)
BY DEF SameJournal, JournalOK, ConsumedInOrder, AppliedWhereBound, ConsumedIsApplied,
       LastAppliedIsGreatest, VersionCountsFacts, AppliedFacts

\* Binding a fresh sequence number to a fact that is already applied, or that
\* is never applied, keeps the journal consistent.
LEMMA ConsumeKeepsJournal ==
    ASSUME NEW st \in StoreType, JournalOK(st), NEW seq \in JournalSeq, NEW f \in Fact,
           st.fact_seq[f] # None \/ Kind[f] \notin AppliedKind
    PROVE  JournalOK(ConsumeJournalSeq(st, seq, f))
<1> DEFINE r == ConsumeJournalSeq(st, seq, f)
<1>1. CASE JournalConsumption(st, seq, f) # "Consumed"
  BY <1>1 DEF ConsumeJournalSeq
<1>2. CASE JournalConsumption(st, seq, f) = "Consumed"
  <2>1. /\ r.last_consumed = seq /\ r.bound = [st.bound EXCEPT ![seq] = f]
        /\ r.version = st.version /\ r.last_applied = st.last_applied
        /\ r.fact_seq = st.fact_seq
    BY <1>2, ConsumeFields
  <2>2. st.bound[seq] = None /\ (st.last_consumed # None => st.last_consumed < seq)
    BY <1>2, NoneAssumption, NoneIsNoNumber, ConstantsAssumption DEF JournalConsumption, StoreType, OptionOf
  <2> HIDE DEF r
  <2> USE <2>1, <2>2, ConstantsAssumption, NoneAssumption, NoneIsNoNumber
  <2>3. ConsumedInOrder(r)
    BY DEF ConsumedInOrder, JournalOK, StoreType, OptionOf
  <2>4. AppliedFacts(r) = AppliedFacts(st)
    BY DEF AppliedFacts
  <2>5. AppliedWhereBound(r)
    BY <2>4 DEF AppliedWhereBound, AppliedFacts, JournalOK, StoreType, OptionOf
  <2>6. ASSUME NEW g \in AppliedFacts(st)
        PROVE  st.fact_seq[g] \in Nat /\ st.fact_seq[g] <= seq
    <3>1. st.fact_seq[g] \in Nat
      BY DEF AppliedFacts, StoreType, OptionOf
    <3>2. st.last_applied \in Nat /\ st.last_consumed \in Nat
      BY DEF JournalOK, LastAppliedIsGreatest, StoreType, OptionOf
    <3>3. st.fact_seq[g] <= st.last_applied /\ st.last_applied <= st.last_consumed
      BY <3>2 DEF JournalOK, LastAppliedIsGreatest
    <3> QED BY <3>1, <3>2, <3>3
  <2>7. ConsumedIsApplied(r)
    BY <2>6 DEF ConsumedIsApplied, AppliedFacts, JournalOK, StoreType, OptionOf
  <2>8. LastAppliedIsGreatest(r)
    BY <2>4 DEF LastAppliedIsGreatest, JournalOK, StoreType, OptionOf
  <2>9. VersionCountsFacts(r)
    BY <2>4 DEF VersionCountsFacts, JournalOK
  <2> QED BY <2>3, <2>5, <2>7, <2>8, <2>9 DEF JournalOK, r
<1> QED BY <1>1, <1>2

\* A fact is only applied under a sequence number that was just consumed: were
\* the number bound to it already, the fact would have been applied then.
LEMMA AppliedIsFresh ==
    ASSUME NEW st \in StoreType, JournalOK(st), NEW seq \in JournalSeq, NEW f \in Fact,
           ApplyOutcome(st, seq, f) = "Applied"
    PROVE  /\ JournalConsumption(st, seq, f) = "Consumed"
           /\ st.fact_seq[f] = None
           /\ Kind[f] \in AppliedKind
<1>1. st.fact_seq[f] = None /\ Kind[f] \in AppliedKind
      /\ JournalConsumption(st, seq, f) \in {"Consumed", "AlreadyBoundToSameFact"}
  BY DEF ApplyOutcome, JournalConsumption
<1>2. JournalConsumption(st, seq, f) # "AlreadyBoundToSameFact"
  <2>1. SUFFICES ASSUME st.bound[seq] = f PROVE FALSE
    BY DEF JournalConsumption
  <2> QED BY <1>1, <2>1, NoneAssumption, NoneIsNoNumber DEF JournalOK, ConsumedIsApplied
<1> QED BY <1>1, <1>2

\* Recording a fresh fact at a fresh sequence number.
LEMMA RecordKeepsJournal ==
    ASSUME NEW st \in StoreType, JournalOK(st), NEW seq \in JournalSeq, NEW f \in Fact,
           JournalConsumption(st, seq, f) = "Consumed", st.fact_seq[f] = None,
           NEW r \in StoreType,
           r.version = st.version + 1, r.last_consumed = seq, r.last_applied = seq,
           r.fact_seq = [st.fact_seq EXCEPT ![f] = seq],
           r.bound = [st.bound EXCEPT ![seq] = f]
    PROVE  JournalOK(r) /\ (st.last_applied # None => st.last_applied < seq)
<1> USE ConstantsAssumption, NoneAssumption, NoneIsNoNumber
<1>1. st.bound[seq] = None /\ (st.last_consumed # None => st.last_consumed < seq)
  BY DEF JournalConsumption, StoreType, OptionOf
<1>2. st.last_applied # None => st.last_applied < seq
  BY <1>1 DEF JournalOK, LastAppliedIsGreatest, StoreType, OptionOf
<1>3. AppliedFacts(r) = AppliedFacts(st) \cup {f} /\ f \notin AppliedFacts(st)
  BY DEF AppliedFacts, StoreType
<1>4. ASSUME NEW g \in AppliedFacts(st)
      PROVE  st.fact_seq[g] \in Nat /\ st.fact_seq[g] < seq /\ r.fact_seq[g] = st.fact_seq[g]
  <2>0. g # f /\ g \in Fact
    BY <1>3 DEF AppliedFacts
  <2>5. st.fact_seq \in [Fact -> OptionOf(JournalSeq)] /\ st.fact_seq[g] # None
    BY DEF AppliedFacts, StoreType
  <2>1. st.fact_seq[g] \in Nat /\ r.fact_seq[g] = st.fact_seq[g]
    BY <2>0, <2>5 DEF OptionOf
  <2>2. st.last_applied \in Nat
    BY DEF JournalOK, LastAppliedIsGreatest, StoreType, OptionOf
  <2>3. st.fact_seq[g] <= st.last_applied
    BY <2>2 DEF JournalOK, LastAppliedIsGreatest
  <2> QED BY <1>2, <2>1, <2>2, <2>3
<1>5. ConsumedInOrder(r)
  BY <1>1 DEF ConsumedInOrder, JournalOK, StoreType, OptionOf
<1>6. AppliedWhereBound(r)
  <2>1. SUFFICES ASSUME NEW g \in AppliedFacts(r) PROVE r.bound[r.fact_seq[g]] = g
    BY DEF AppliedWhereBound
  <2>2. CASE g = f
    BY <2>2 DEF StoreType
  <2>3. CASE g \in AppliedFacts(st)
    <3>1. st.bound[st.fact_seq[g]] = g /\ st.fact_seq[g] \in JournalSeq
      BY <2>3 DEF JournalOK, AppliedWhereBound, AppliedFacts, StoreType, OptionOf
    <3>2. st.fact_seq[g] # seq
      BY <1>4, <2>3
    <3> QED BY <1>4, <2>3, <3>1, <3>2 DEF StoreType
  <2> QED BY <1>3, <2>1, <2>2, <2>3
<1>7. ConsumedIsApplied(r)
  <2>1. SUFFICES ASSUME NEW s \in JournalSeq, r.bound[s] # None,
                        Kind[r.bound[s]] \in AppliedKind
                 PROVE  r.fact_seq[r.bound[s]] # None /\ r.fact_seq[r.bound[s]] <= s
    BY DEF ConsumedIsApplied
  <2>2. CASE s = seq
    BY <2>2 DEF StoreType
  <2>3. CASE s # seq
    <3>1. r.bound[s] = st.bound[s] /\ st.bound[s] \in Fact
      BY <2>1, <2>3 DEF StoreType, OptionOf
    <3>2. st.fact_seq[st.bound[s]] # None /\ st.fact_seq[st.bound[s]] <= s
      BY <2>1, <3>1 DEF JournalOK, ConsumedIsApplied
    <3> QED BY <1>4, <3>1, <3>2 DEF AppliedFacts
  <2> QED BY <2>2, <2>3
<1>8. LastAppliedIsGreatest(r)
  <2>1. r.last_applied # None /\ r.fact_seq[f] = seq /\ f \in AppliedFacts(r)
    BY <1>3 DEF StoreType
  <2>2. \A g \in AppliedFacts(r) : r.fact_seq[g] <= seq
    BY <1>3, <1>4, <2>1
  <2> QED BY <2>1, <2>2 DEF LastAppliedIsGreatest
<1>9. VersionCountsFacts(r)
  <2>1. IsFiniteSet(AppliedFacts(st)) /\ st.version = Cardinality(AppliedFacts(st))
    BY DEF JournalOK, VersionCountsFacts
  <2>2. /\ IsFiniteSet(AppliedFacts(st) \cup {f})
        /\ Cardinality(AppliedFacts(st) \cup {f}) = Cardinality(AppliedFacts(st)) + 1
    BY <1>3, <2>1, FS_AddElement
  <2> QED BY <1>3, <2>1, <2>2 DEF VersionCountsFacts
<1> QED BY <1>2, <1>5, <1>6, <1>7, <1>8, <1>9 DEF JournalOK

---------------------------------------------------------------------------
(***************************************************************************)
(* Every step of the store                                                 *)
(***************************************************************************)

\* The inductive invariant of the store.  It is stronger than the properties in
\* one place: an anchor lists the open orders even while it does not count
\* (AnchorOK has no AnchoredFullSet in front), because a later applied fact
\* rebuilds it from the orders and a reconcile from the snapshot's.
StoreOK(st) == st \in StoreType /\ JournalOK(st) /\ PostureOK(st) /\ AnchorOK(st)

VersionStep(r, st) ==
    r.version # st.version =>
        /\ r.version = st.version + 1
        /\ r.last_applied # None
        /\ st.last_applied # None => st.last_applied < r.last_applied

\* StateApplier::apply keeps the invariant, for each of its four outcomes.
LEMMA ApplyKeepsOK ==
    ASSUME NEW st, StoreOK(st), NEW seq \in JournalSeq, NEW f \in Fact,
           NEW r, r = Apply(st, seq, f)
    PROVE  StoreOK(r) /\ VersionStep(r, st)
<1> DEFINE outcome  == ApplyOutcome(st, seq, f)
           consumed == ConsumeJournalSeq(st, seq, f)
<1>0. st \in StoreType /\ JournalOK(st) /\ PostureOK(st) /\ AnchorOK(st)
  BY DEF StoreOK
<1>1. /\ consumed \in StoreType
      /\ consumed.version = st.version /\ consumed.last_applied = st.last_applied
      /\ consumed.fact_seq = st.fact_seq /\ consumed.pending = st.pending
      /\ consumed.anchor = st.anchor /\ consumed.orders = st.orders
      /\ consumed.mode = st.mode /\ consumed.overlay = st.overlay
      /\ JournalConsumption(st, seq, f) = "Consumed" =>
             consumed.last_consumed = seq /\ consumed.bound = [st.bound EXCEPT ![seq] = f]
  BY <1>0, ConsumeFields
<1>2. PostureOK(consumed) /\ AnchorOK(consumed)
  BY <1>0, <1>1 DEF PostureOK, AnchorOK
<1>3. \/ outcome = "Error" \/ outcome = "Applied"
      \/ outcome = "Duplicate" /\ st.fact_seq[f] # None
      \/ outcome = "ReconcileRequired" /\ Kind[f] \notin AppliedKind
  BY DEF ApplyOutcome
<1>4. CASE outcome = "Error"
  BY <1>4, <1>0 DEF Apply, StoreOK, VersionStep
<1>5. CASE outcome = "Duplicate" /\ st.fact_seq[f] # None
  <2>1. r = consumed
    BY <1>5 DEF Apply
  <2>2. JournalOK(consumed)
    BY <1>0, <1>5, ConsumeKeepsJournal
  <2> QED BY <1>1, <1>2, <2>1, <2>2 DEF StoreOK, VersionStep
<1>6. CASE outcome = "ReconcileRequired" /\ Kind[f] \notin AppliedKind
  <2> DEFINE opened == IF Kind[f] = "Pending"
                       THEN [consumed EXCEPT !.pending = consumed.pending \cup {RefOf[f]}]
                       ELSE consumed
             marked == [opened EXCEPT !.first_reconcile = TRUE]
  <2>1. r = EnterReconciling(marked)
    BY <1>6 DEF Apply, MarkReconcileRequired
  <2>2. JournalOK(consumed)
    BY <1>0, <1>6, ConsumeKeepsJournal
  <2> HIDE DEF consumed
  <2>3. /\ opened \in StoreType /\ SameJournal(opened, consumed)
        /\ opened.anchor = consumed.anchor /\ opened.orders = consumed.orders
    BY <1>1, ConstantsAssumption DEF StoreType, SameJournal
  <2> HIDE DEF opened
  <2>4. /\ marked \in StoreType /\ SameJournal(marked, opened)
        /\ marked.anchor = opened.anchor /\ marked.orders = opened.orders
    BY <2>3 DEF StoreType, SameJournal
  <2> HIDE DEF marked
  <2>5. /\ r \in StoreType /\ SameJournal(r, marked) /\ PostureOK(r)
        /\ r.anchor = marked.anchor /\ r.orders = marked.orders
    BY <2>1, <2>4, ReconcilingFields
  <2>6. SameJournal(r, consumed)
    BY <2>3, <2>4, <2>5 DEF SameJournal
  <2>7. JournalOK(r)
    BY <2>2, <2>6, SameJournalKeepsOK
  <2>8. AnchorOK(r)
    BY <1>2, <2>3, <2>4, <2>5 DEF AnchorOK
  <2> QED BY <1>1, <2>5, <2>6, <2>7, <2>8 DEF StoreOK, VersionStep, SameJournal
<1>7. CASE outcome = "Applied"
  <2> DEFINE hinted == ApplyHint(consumed, f)
  <2>1. /\ JournalConsumption(st, seq, f) = "Consumed"
        /\ st.fact_seq[f] = None
    BY <1>0, <1>7, AppliedIsFresh
  <2>2. r = RecordAppliedFact(hinted, seq, f)
    BY <1>7 DEF Apply
  <2> HIDE DEF consumed
  <2>3. /\ hinted \in StoreType /\ SameJournal(hinted, consumed)
        /\ hinted.orders = consumed.orders /\ PostureOK(hinted)
    BY <1>1, <1>2, HintFields
  <2> HIDE DEF hinted
  <2>4. /\ r \in StoreType
        /\ r.version = hinted.version + 1
        /\ r.last_consumed = hinted.last_consumed
        /\ r.last_applied = seq
        /\ r.fact_seq = [hinted.fact_seq EXCEPT ![f] = seq]
        /\ r.bound = hinted.bound
        /\ AnchorOK(r) /\ PostureOK(r)
    BY <2>2, <2>3, AppliedFields
  <2>5. /\ r.version = st.version + 1
        /\ r.last_consumed = seq
        /\ r.fact_seq = [st.fact_seq EXCEPT ![f] = seq]
        /\ r.bound = [st.bound EXCEPT ![seq] = f]
    BY <1>1, <2>1, <2>3, <2>4 DEF SameJournal
  <2>6. JournalOK(r) /\ (st.last_applied # None => st.last_applied < seq)
    BY <1>0, <2>1, <2>4, <2>5, RecordKeepsJournal
  <2>7. seq # None
    BY ConstantsAssumption, NoneAssumption, NoneIsNoNumber
  <2> QED BY <2>4, <2>5, <2>6, <2>7 DEF StoreOK, VersionStep
<1> QED BY <1>3, <1>4, <1>5, <1>6, <1>7

\* A successful reconcile replaces orders and tables and anchors the new set.
LEMMA CompleteFields ==
    ASSUME NEW st, StoreOK(st), NEW snapshot \in RemoteSnapshot,
           NEW r, r = CompleteReconcile(st, snapshot)
    PROVE  StoreOK(r) /\ SameJournal(r, st) /\ SameDiscovery(r, st)
<1> DEFINE replaced == [st EXCEPT !.anchor = None,
                                  !.orders = LastById(snapshot.orders),
                                  !.tables = snapshot.tables]
           anchored == IF st.last_applied # None
                       THEN RebuildFullSetAnchor(replaced, st.last_applied)
                       ELSE replaced
           done     == [anchored EXCEPT !.first_reconcile = TRUE]
<1>0. st \in StoreType /\ JournalOK(st) /\ PostureOK(st)
  BY DEF StoreOK
<1>1. LastById(snapshot.orders) \subseteq Order /\ snapshot.tables \in [Table -> SUBSET Row]
  <2>1. snapshot.orders \in Seq(Order) /\ snapshot.tables \in [Table -> SUBSET Row]
    BY SnapshotAssumption
  <2>2. \A i \in DOMAIN snapshot.orders : snapshot.orders[i] \in Order
    BY <2>1
  <2> QED BY <2>1, <2>2 DEF LastById
<1>2. r = ApplyRestorePosture(done)
  BY DEF CompleteReconcile
<1>3. /\ replaced \in StoreType /\ SameJournal(replaced, st) /\ AnchorOK(replaced)
      /\ replaced.pending = st.pending
      /\ replaced.mode = st.mode /\ replaced.overlay = st.overlay
      /\ SameDiscovery(replaced, st)
  BY <1>0, <1>1 DEF StoreType, SameJournal, SameDiscovery, AnchorOK, OptionOf
<1> HIDE DEF replaced
<1>4. /\ anchored \in StoreType /\ SameJournal(anchored, st) /\ AnchorOK(anchored)
      /\ anchored.pending = st.pending
      /\ anchored.mode = st.mode /\ anchored.overlay = st.overlay
      /\ SameDiscovery(anchored, st)
  <2>1. CASE st.last_applied # None
    <3>1. st.last_applied \in Nat
      BY <1>0, <2>1 DEF StoreType, OptionOf
    <3>2. anchored = RebuildFullSetAnchor(replaced, st.last_applied)
      BY <2>1
    <3> HIDE DEF anchored
    <3> QED BY <1>3, <3>1, <3>2, RebuildFields DEF SameJournal, SameDiscovery
  <2>2. CASE st.last_applied = None
    BY <1>3, <2>2
  <2> QED BY <2>1, <2>2
<1> HIDE DEF anchored
<1>5. /\ done \in StoreType /\ SameJournal(done, st) /\ AnchorOK(done)
      /\ done.pending = st.pending
      /\ done.mode = st.mode /\ done.overlay = st.overlay
      /\ SameDiscovery(done, st)
  BY <1>4 DEF StoreType, SameJournal, SameDiscovery, AnchorOK
<1> HIDE DEF done
<1>6. PostureOK(done)
  BY <1>0, <1>5 DEF PostureOK
<1>7. /\ r \in StoreType /\ SameJournal(r, done) /\ r.anchor = done.anchor
      /\ r.orders = done.orders /\ PostureOK(r) /\ SameDiscovery(r, done)
  BY <1>2, <1>5, <1>6, PostureFields
<1>8. SameJournal(r, st) /\ SameDiscovery(r, st) /\ AnchorOK(r)
  BY <1>5, <1>7 DEF SameJournal, SameDiscovery, AnchorOK
<1> QED BY <1>0, <1>7, <1>8, SameJournalKeepsOK DEF StoreOK

\* StateStore::reconcile keeps the invariant, refused or completed.
LEMMA ReconcileKeepsOK ==
    ASSUME NEW st, StoreOK(st), NEW snapshot \in RemoteSnapshot,
           NEW r, r = ReconcileStore(st, snapshot)
    PROVE  StoreOK(r) /\ SameJournal(r, st) /\ SameDiscovery(r, st)
<1>1. CASE r = EnterReconciling(st)
  <2>1. /\ r \in StoreType /\ SameJournal(r, st) /\ PostureOK(r)
        /\ r.anchor = st.anchor /\ r.orders = st.orders /\ SameDiscovery(r, st)
    BY <1>1, ReconcilingFields DEF StoreOK
  <2> QED BY <2>1, SameJournalKeepsOK DEF StoreOK, AnchorOK
<1>2. CASE r = CompleteReconcile(st, snapshot)
  BY <1>2, CompleteFields
<1> QED BY <1>1, <1>2 DEF ReconcileStore

\* record_local_order keeps the invariant: it drops the anchor with the order.
LEMMA LocalOrderKeepsOK ==
    ASSUME NEW st, StoreOK(st), NEW order \in Order, NEW r, r = RecordLocalOrder(st, order)
    PROVE  StoreOK(r) /\ SameJournal(r, st) /\ SameDiscovery(r, st)
<1>1. /\ r \in StoreType /\ SameJournal(r, st) /\ PostureOK(r) /\ AnchorOK(r)
      /\ SameDiscovery(r, st)
  BY DEF RecordLocalOrder, StoreOK, StoreType, SameJournal, SameDiscovery, PostureOK,
         AnchorOK, OptionOf
<1> QED BY <1>1, SameJournalKeepsOK DEF StoreOK

\* The other record_local methods keep the invariant.
LEMMA LocalRowKeepsOK ==
    ASSUME NEW st, StoreOK(st), NEW table \in Table, NEW row \in Row,
           NEW r, r = RecordLocalRow(st, table, row)
    PROVE  StoreOK(r) /\ SameJournal(r, st) /\ SameDiscovery(r, st)
<1>1. [st.tables EXCEPT ![table] = st.tables[table] \cup {row}] \in [Table -> SUBSET Row]
  BY DEF StoreOK, StoreType
<1>2. /\ r \in StoreType /\ SameJournal(r, st) /\ PostureOK(r) /\ AnchorOK(r)
      /\ SameDiscovery(r, st)
  BY <1>1 DEF RecordLocalRow, StoreOK, StoreType, SameJournal, SameDiscovery, PostureOK,
              AnchorOK
<1> QED BY <1>2, SameJournalKeepsOK DEF StoreOK

\* StateStore::new gives a store that satisfies the invariant.
LEMMA NewStoreOK == StoreOK(NewStore)
<1>1. NewStore \in StoreType
  BY DEF NewStore, StoreType, BootstrapPolicy, OptionOf, RuntimeMode, Overlay, RuntimeOverlay
<1>2. AppliedFacts(NewStore) = {}
  BY DEF NewStore, AppliedFacts
<1>3. VersionCountsFacts(NewStore)
  BY <1>2, FS_EmptySet DEF VersionCountsFacts, NewStore
<1>4. JournalOK(NewStore)
  BY <1>2, <1>3 DEF JournalOK, ConsumedInOrder, AppliedWhereBound, ConsumedIsApplied,
                    LastAppliedIsGreatest, NewStore
<1>5. PostureOK(NewStore) /\ AnchorOK(NewStore)
  BY DEF PostureOK, AnchorOK, NewStore
<1> QED BY <1>1, <1>4, <1>5 DEF StoreOK

---------------------------------------------------------------------------
(***************************************************************************)
(* The theorems                                                            *)
(***************************************************************************)

\* One step of the store: the invariant holds again, and the version moved
\* only together with the last applied sequence number.
LEMMA NextKeepsOK ==
    ASSUME StoreOK(store), [StoreNext]_store
    PROVE  StoreOK(store)' /\ VersionStep(store', store)
<1>1. ASSUME NEW seq \in JournalSeq, NEW f \in Fact, ApplyFact(seq, f)
      PROVE  StoreOK(store') /\ VersionStep(store', store)
  BY <1>1, ApplyKeepsOK DEF ApplyFact
<1>2. ASSUME NEW snapshot \in RemoteSnapshot, Reconcile(snapshot)
      PROVE  StoreOK(store') /\ VersionStep(store', store)
  BY <1>2, ReconcileKeepsOK DEF Reconcile, SameJournal, VersionStep
<1>3. ASSUME NEW order \in Order, LocalOrder(order)
      PROVE  StoreOK(store') /\ VersionStep(store', store)
  BY <1>3, LocalOrderKeepsOK DEF LocalOrder, SameJournal, VersionStep
<1>4. ASSUME NEW table \in Table, NEW row \in Row, LocalRow(table, row)
      PROVE  StoreOK(store') /\ VersionStep(store', store)
  BY <1>4, LocalRowKeepsOK DEF LocalRow, SameJournal, VersionStep
<1>5. CASE UNCHANGED store
  BY <1>5 DEF VersionStep
<1>6. StoreOK(store') /\ VersionStep(store', store)
  BY <1>1, <1>2, <1>3, <1>4, <1>5 DEF StoreNext
<1> QED BY <1>6

\* The inductive invariant holds of every reachable store.
LEMMA StoreInvariant == StoreSpec => []StoreOK(store)
<1>1. StoreInit => StoreOK(store)
  BY NewStoreOK DEF StoreInit
<1>2. StoreOK(store) /\ [StoreNext]_store => StoreOK(store)'
  BY NextKeepsOK
<1> QED BY <1>1, <1>2, PTL DEF StoreSpec

\* Every field of the store keeps its type: anchors name known orders, bound
\* sequence numbers name known facts.
THEOREM StoreTypeCorrect == StoreSpec => []StoreTypeOK
<1>1. StoreOK(store) => StoreTypeOK
  BY DEF StoreOK, StoreTypeOK
<1> QED BY <1>1, StoreInvariant, PTL

\* Under any order of deliveries, redeliveries and colliding sequence numbers,
\* the journal maps, the two sequence anchors and the version agree
\* (consume_journal_seq, record_applied_fact).
THEOREM JournalStaysConsistent == StoreSpec => []JournalConsistent
<1>1. StoreOK(store) => JournalConsistent
  BY DEF StoreOK, JournalOK, JournalConsistent
<1> QED BY <1>1, StoreInvariant, PTL

\* No sequence of facts and reconciles makes the store Healthy, or lifts its
\* CancelOnly overlay, while a submit waits for its reconcile.
THEOREM NeverHealthyWhilePending == StoreSpec => []HealthyHasNoPending
<1>1. StoreOK(store) => HealthyHasNoPending
  BY DEF StoreOK, PostureOK, HealthyHasNoPending
<1> QED BY <1>1, StoreInvariant, PTL

\* The full-set view a snapshot would publish lists exactly the open orders.
THEOREM FullSetStaysCurrent == StoreSpec => []AnchoredFullSetIsCurrent
<1>1. StoreOK(store) => AnchoredFullSetIsCurrent
  BY DEF StoreOK, AnchorOK, AnchoredFullSetIsCurrent, AnchoredFullSet
<1> QED BY <1>1, StoreInvariant, PTL

\* The version is only advanced by one, together with the last applied
\* sequence number, and is never taken back (record_applied_fact).
THEOREM VersionIsMonotone == StoreSpec => VersionAdvancesWithSeq
<1>1. StoreOK(store) /\ [StoreNext]_store => [VersionAdvancesWithSeqStep]_store
  BY NextKeepsOK DEF VersionStep, VersionAdvancesWithSeqStep
<1> QED BY <1>1, StoreInvariant, PTL DEF StoreSpec, VersionAdvancesWithSeq

---------------------------------------------------------------------------
(***************************************************************************)
(* Open orders                                                             *)
(***************************************************************************)

\* StateApplier::apply never touches the orders.
LEMMA ApplyKeepsOrders ==
    ASSUME NEW st, StoreOK(st), NEW seq \in JournalSeq, NEW f \in Fact,
           NEW r, r = Apply(st, seq, f)
    PROVE  r.orders = st.orders
<1> DEFINE outcome  == ApplyOutcome(st, seq, f)
           consumed == ConsumeJournalSeq(st, seq, f)
<1>0. st \in StoreType /\ PostureOK(st)
  BY DEF StoreOK
<1>1. /\ consumed \in StoreType
      /\ consumed.version = st.version /\ consumed.last_applied = st.last_applied
      /\ consumed.fact_seq = st.fact_seq /\ consumed.pending = st.pending
      /\ consumed.anchor = st.anchor /\ consumed.orders = st.orders
      /\ consumed.mode = st.mode /\ consumed.overlay = st.overlay
      /\ JournalConsumption(st, seq, f) = "Consumed" =>
             consumed.last_consumed = seq /\ consumed.bound = [st.bound EXCEPT ![seq] = f]
  BY <1>0, ConsumeFields
<1>2. PostureOK(consumed)
  BY <1>0, <1>1 DEF PostureOK
<1>3. outcome \in {"Error", "Applied", "Duplicate", "ReconcileRequired"}
  BY DEF ApplyOutcome
<1>4. CASE outcome = "Error"
  BY <1>4 DEF Apply
<1>5. CASE outcome = "Duplicate"
  BY <1>1, <1>5 DEF Apply
<1>6. CASE outcome = "ReconcileRequired"
  <2> DEFINE opened == IF Kind[f] = "Pending"
                       THEN [consumed EXCEPT !.pending = consumed.pending \cup {RefOf[f]}]
                       ELSE consumed
             marked == [opened EXCEPT !.first_reconcile = TRUE]
  <2>1. r = EnterReconciling(marked)
    BY <1>6 DEF Apply, MarkReconcileRequired
  <2> HIDE DEF consumed
  <2>2. opened \in StoreType /\ opened.orders = consumed.orders
    BY <1>1, ConstantsAssumption DEF StoreType
  <2> HIDE DEF opened
  <2>3. marked \in StoreType /\ marked.orders = opened.orders
    BY <2>2 DEF StoreType
  <2> HIDE DEF marked
  <2> QED BY <1>1, <2>1, <2>2, <2>3, ReconcilingFields
<1>7. CASE outcome = "Applied"
  <2> DEFINE hinted == ApplyHint(consumed, f)
  <2>1. r = RecordAppliedFact(hinted, seq, f)
    BY <1>7 DEF Apply
  <2> HIDE DEF consumed
  <2>2. hinted \in StoreType /\ hinted.orders = consumed.orders /\ PostureOK(hinted)
    BY <1>1, <1>2, HintFields
  <2> HIDE DEF hinted
  <2>3. r.fact_seq = [hinted.fact_seq EXCEPT ![f] = seq] /\ r.orders = hinted.orders
    BY <2>1, <2>2, AppliedFields
  <2> QED BY <1>1, <2>2, <2>3
<1> QED BY <1>3, <1>4, <1>5, <1>6, <1>7

\* complete_reconcile puts the orders of the snapshot in place.
LEMMA CompleteReplacesOrders ==
    ASSUME NEW st, StoreOK(st), NEW snapshot \in RemoteSnapshot,
           NEW r, r = CompleteReconcile(st, snapshot)
    PROVE  r.orders = LastById(snapshot.orders)
<1> DEFINE remote   == LastById(snapshot.orders)
           replaced == [st EXCEPT !.anchor = None, !.orders = remote, !.tables = snapshot.tables]
           anchored == IF st.last_applied # None
                       THEN RebuildFullSetAnchor(replaced, st.last_applied)
                       ELSE replaced
           done     == [anchored EXCEPT !.first_reconcile = TRUE]
<1>1. r = ApplyRestorePosture(done)
  BY DEF CompleteReconcile
<1>2. st \in StoreType
  BY DEF StoreOK
<1> HIDE DEF remote
<1>3. anchored.orders = remote /\ DOMAIN anchored = DOMAIN st
  BY <1>2 DEF RebuildFullSetAnchor, StoreType
<1> HIDE DEF anchored
<1>4. done.orders = remote /\ DOMAIN done = DOMAIN st
  BY <1>2, <1>3 DEF StoreType
<1> HIDE DEF done
<1>5. r.orders = done.orders
  BY <1>1, <1>2, <1>4 DEF ApplyRestorePosture, ApplyPolicy, StoreType
<1> QED BY <1>4, <1>5 DEF remote

\* An order leaves the store by no path: a reconcile that would drop or add one
\* is refused as attention before anything is replaced, and a local record
\* replaces only the order of its own id (compare_orders, complete_reconcile,
\* record_local_order).
THEOREM NoOrderVanishes == StoreSpec => OpenOrdersNeverVanish
<1> DEFINE Kept == OrderIds(store.orders) \subseteq OrderIds(store'.orders)
<1>1. ASSUME StoreOK(store), StoreNext
      PROVE  Kept
  <2>1. ASSUME NEW seq \in JournalSeq, NEW f \in Fact, ApplyFact(seq, f)
        PROVE  Kept
    <3>1. store'.orders = store.orders
      BY <1>1, <2>1, ApplyKeepsOrders DEF ApplyFact
    <3> QED BY <3>1
  <2>2. ASSUME NEW snapshot \in RemoteSnapshot, Reconcile(snapshot)
        PROVE  Kept
    <3>1. CASE NeedsAttention(store, snapshot)
      <4>1. store'.orders = store.orders
        BY <1>1, <2>2, <3>1, ReconcilingFields DEF Reconcile, ReconcileStore, StoreOK
      <4> QED BY <4>1
    <3>2. CASE ~NeedsAttention(store, snapshot)
      <4>1. store'.orders = LastById(snapshot.orders)
        BY <1>1, <2>2, <3>2, CompleteReplacesOrders DEF Reconcile, ReconcileStore
      <4>2. OrderIds(store.orders) = OrderIds(LastById(snapshot.orders))
        BY <3>2 DEF NeedsAttention, OrderMismatches
      <4> QED BY <4>1, <4>2
    <3> QED BY <3>1, <3>2
  <2>3. ASSUME NEW order \in Order, LocalOrder(order)
        PROVE  Kept
    <3>1. store'.orders = {o \in store.orders : o.id # order.id} \cup {order}
      BY <1>1, <2>3 DEF LocalOrder, RecordLocalOrder, StoreOK, StoreType
    <3> QED BY <3>1 DEF OrderIds
  <2>4. ASSUME NEW table \in Table, NEW row \in Row, LocalRow(table, row)
        PROVE  Kept
    <3>1. store'.orders = store.orders
      BY <1>1, <2>4 DEF LocalRow, RecordLocalRow, StoreOK, StoreType
    <3> QED BY <3>1
  <2> QED BY <1>1, <2>1, <2>2, <2>3, <2>4 DEF StoreNext
<1>2. StoreOK(store) /\ [StoreNext]_store => [Kept]_store
  BY <1>1
<1> QED BY <1>2, StoreInvariant, PTL DEF StoreSpec, OpenOrdersNeverVanish

---------------------------------------------------------------------------
(***************************************************************************)
(* Backfills                                                               *)
(***************************************************************************)

IsBackfill(f) == Kind[f] \in {"Backfill", "BackfillComplete"}

CompletedAt(f) == IF Kind[f] = "BackfillComplete" THEN ObservedAt[f] ELSE None

BackfillFacts(st, m) == {f \in AppliedFacts(st) : IsBackfill(f) /\ FamilyOf[f] = m}

Known(st, m) == IF st.families[m] # None THEN st.families[m] ELSE st.backfills[m]

KnownOrEmpty(st, m) == IF Known(st, m) = None THEN EmptyBackfill ELSE Known(st, m)

\* The cursor is the newest of the facts and the completion time the latest.
Describes(st, known, facts) ==
    /\ known # None
    /\ known.cursor \in facts
    /\ \A f \in facts : st.fact_seq[f] <= st.fact_seq[known.cursor]
    /\ \A f \in facts : CompletedAt(f) # None =>
           known.completed_at # None /\ CompletedAt(f) <= known.completed_at
    /\ known.completed_at # None => \E f \in facts : CompletedAt(f) = known.completed_at

\* A discovered family has nothing parked any more.
Parked(st) == \A m \in Family : st.families[m] # None => st.backfills[m] = None

\* The invariant of the discovery tables.  BackfillNeverLost says nothing of a
\* family without backfills; the induction needs that its record is empty, or
\* its first backfill would be merged with a completion time from nowhere.
BackfillOK(st) ==
    /\ Parked(st)
    /\ \A m \in Family :
          IF BackfillFacts(st, m) = {} THEN Known(st, m) \in {None, EmptyBackfill}
                                       ELSE Describes(st, Known(st, m), BackfillFacts(st, m))

\* A hint changes what is known of one family: a backfill is merged into it, a
\* discovery at most makes an unknown family an empty one.
LEMMA HintKnown ==
    ASSUME NEW st \in StoreType, Parked(st), NEW f \in Fact, NEW r, r = ApplyHint(st, f),
           NEW m \in Family
    PROVE  /\ r.families[m] # None => r.backfills[m] = None
           /\ IF IsBackfill(f) /\ FamilyOf[f] = m
              THEN Known(r, m) = RecordBackfill(KnownOrEmpty(st, m), f, CompletedAt(f))
              ELSE \/ Known(r, m) = Known(st, m)
                   \/ Known(st, m) = None /\ Known(r, m) = EmptyBackfill
<1> DEFINE n == FamilyOf[f]
<1>0. n \in Family /\ ObservedAt[f] \in Nat
  BY ConstantsAssumption
<1>t. /\ st.families \in [Family -> OptionOf(Backfill)]
      /\ st.backfills \in [Family -> OptionOf(Backfill)]
  BY DEF StoreType
<1>e. EmptyBackfill # None
  BY NoneIsNoRecord DEF EmptyBackfill, Backfill, OptionOf
<1> HIDE DEF n
<1>1. CASE Kind[f] = "Discovery"
  <2> DEFINE kept   == IF st.families[n] = None THEN EmptyBackfill ELSE st.families[n]
             early  == st.backfills[n]
             record == IF early = None THEN kept
                       ELSE RecordBackfill(kept, early.cursor, early.completed_at)
  <2>1. r = [st EXCEPT !.families = [st.families EXCEPT ![n] = record],
                       !.backfills = [st.backfills EXCEPT ![n] = None]]
    BY <1>1 DEF ApplyHint, RecordFamilyDiscovery, n
  <2>2. record = KnownOrEmpty(st, n)
    <3>1. CASE early = None
      BY <3>1 DEF KnownOrEmpty, Known
    <3>2. CASE early # None
      <4>1. st.families[n] = None /\ early \in Backfill
        BY <1>0, <1>t, <3>2 DEF Parked, OptionOf
      <4>2. early = [cursor |-> early.cursor, completed_at |-> early.completed_at]
        BY <4>1 DEF Backfill
      <4>3. record = RecordBackfill(EmptyBackfill, early.cursor, early.completed_at)
        BY <3>2, <4>1
      <4>4. record = [cursor |-> early.cursor, completed_at |-> early.completed_at]
        BY <4>3 DEF RecordBackfill, MergeCompletion, EmptyBackfill
      <4> QED BY <3>2, <4>1, <4>2, <4>4 DEF KnownOrEmpty, Known
    <3> QED BY <3>1, <3>2
  <2>3. record # None
    BY <1>e, <2>2 DEF KnownOrEmpty
  <2> HIDE DEF record
  <2>4. /\ r.families = [st.families EXCEPT ![n] = record]
        /\ r.backfills = [st.backfills EXCEPT ![n] = None]
    BY <2>1 DEF StoreType
  <2>5. ~IsBackfill(f)
    BY <1>1 DEF IsBackfill
  <2>6. CASE m = n
    BY <1>0, <1>t, <2>2, <2>3, <2>4, <2>5, <2>6 DEF Known, KnownOrEmpty
  <2>7. CASE m # n
    BY <1>0, <1>t, <2>4, <2>5, <2>7 DEF Known, Parked
  <2> QED BY <2>6, <2>7
<1>2. CASE IsBackfill(f)
  <2> DEFINE record == RecordBackfill(KnownOrEmpty(st, n), f, CompletedAt(f))
  <2>1. r = RecordFamilyBackfill(st, n, f, CompletedAt(f))
    BY <1>2 DEF ApplyHint, IsBackfill, CompletedAt, n
  <2>2. record \in Backfill
    <3>1. KnownOrEmpty(st, n) \in Backfill
      BY <1>0, <1>t DEF KnownOrEmpty, Known, EmptyBackfill, Backfill, OptionOf
    <3>2. f \in OptionOf(Fact) /\ CompletedAt(f) \in OptionOf(Nat)
      BY <1>0 DEF CompletedAt, OptionOf
    <3> QED BY <3>1, <3>2, RecordBackfillType
  <2>3. record # None
    BY <2>2, NoneIsNoRecord
  <2>4. CASE st.families[n] # None
    <3>1. r = [st EXCEPT !.families = [st.families EXCEPT ![n] = record]]
      BY <2>1, <2>4 DEF RecordFamilyBackfill, KnownOrEmpty, Known
    <3> HIDE DEF record
    <3>2. r.families = [st.families EXCEPT ![n] = record] /\ r.backfills = st.backfills
      BY <3>1 DEF StoreType
    <3>3. CASE m = n
      BY <1>0, <1>t, <1>2, <2>3, <2>4, <3>2, <3>3 DEF Known, Parked, record, n
    <3>4. CASE m # n
      BY <1>0, <1>t, <3>2, <3>4 DEF Known, Parked, n
    <3> QED BY <3>3, <3>4
  <2>5. CASE st.families[n] = None
    <3>1. r = [st EXCEPT !.backfills = [st.backfills EXCEPT ![n] = record]]
      BY <2>1, <2>5 DEF RecordFamilyBackfill, KnownOrEmpty, Known
    <3> HIDE DEF record
    <3>2. r.backfills = [st.backfills EXCEPT ![n] = record] /\ r.families = st.families
      BY <3>1 DEF StoreType
    <3>3. CASE m = n
      BY <1>0, <1>t, <1>2, <2>3, <2>5, <3>2, <3>3 DEF Known, Parked, record, n
    <3>4. CASE m # n
      BY <1>0, <1>t, <3>2, <3>4 DEF Known, Parked, n
    <3> QED BY <3>3, <3>4
  <2> QED BY <2>4, <2>5
<1>3. CASE Kind[f] # "Discovery" /\ ~IsBackfill(f)
  <2>1. SameDiscovery(r, st)
    <3>1. CASE Kind[f] = "Attention"
      <4>1. r = [st EXCEPT !.attention = st.attention \cup {f}]
        BY <3>1 DEF ApplyHint
      <4> QED BY <4>1 DEF StoreType, SameDiscovery
    <3>2. CASE Kind[f] = "ReconcileTerminal"
      <4> DEFINE cleared == [st EXCEPT !.pending = st.pending \ {TargetRef[f]}]
      <4>1. r = ApplyRestorePosture(cleared)
        BY <3>2 DEF ApplyHint, ClearPendingReconcile
      <4>2. SameDiscovery(cleared, st) /\ DOMAIN cleared = DOMAIN st
        BY DEF StoreType, SameDiscovery
      <4> HIDE DEF cleared
      <4> QED BY <4>1, <4>2 DEF ApplyRestorePosture, ApplyPolicy, SameDiscovery, StoreType
    <3>3. CASE Kind[f] \notin {"Attention", "ReconcileTerminal"}
      BY <1>3, <3>3 DEF ApplyHint, IsBackfill, SameDiscovery
    <3> QED BY <3>1, <3>2, <3>3
  <2> QED BY <1>3, <2>1 DEF SameDiscovery, Known, Parked
<1> QED BY <1>1, <1>2, <1>3

\* What an apply does to the facts and the discovery tables: nothing, or one
\* fact is recorded after all the others and its hint has been applied.
LEMMA ApplyDiscovery ==
    ASSUME NEW st, StoreOK(st), NEW seq \in JournalSeq, NEW f \in Fact,
           NEW r, r = Apply(st, seq, f)
    PROVE  \/ r.fact_seq = st.fact_seq /\ SameDiscovery(r, st)
           \/ /\ f \notin AppliedFacts(st)
              /\ r.fact_seq = [st.fact_seq EXCEPT ![f] = seq]
              /\ \A g \in AppliedFacts(st) : st.fact_seq[g] \in Nat /\ st.fact_seq[g] < seq
              /\ \E c \in StoreType : SameDiscovery(c, st) /\ SameDiscovery(r, ApplyHint(c, f))
<1> DEFINE outcome  == ApplyOutcome(st, seq, f)
           consumed == ConsumeJournalSeq(st, seq, f)
<1>0. st \in StoreType /\ JournalOK(st) /\ PostureOK(st)
  BY DEF StoreOK
<1>1. /\ consumed \in StoreType
      /\ consumed.version = st.version /\ consumed.last_applied = st.last_applied
      /\ consumed.fact_seq = st.fact_seq /\ consumed.pending = st.pending
      /\ consumed.anchor = st.anchor /\ consumed.orders = st.orders
      /\ consumed.mode = st.mode /\ consumed.overlay = st.overlay
      /\ JournalConsumption(st, seq, f) = "Consumed" =>
             consumed.last_consumed = seq /\ consumed.bound = [st.bound EXCEPT ![seq] = f]
      /\ SameDiscovery(consumed, st)
  BY <1>0, ConsumeFields
<1>2. PostureOK(consumed)
  BY <1>0, <1>1 DEF PostureOK
<1>3. outcome \in {"Error", "Applied", "Duplicate", "ReconcileRequired"}
  BY DEF ApplyOutcome
<1>4. CASE outcome = "Error"
  BY <1>4 DEF Apply, SameDiscovery
<1>5. CASE outcome = "Duplicate"
  BY <1>1, <1>5 DEF Apply
<1>6. CASE outcome = "ReconcileRequired"
  <2> DEFINE opened == IF Kind[f] = "Pending"
                       THEN [consumed EXCEPT !.pending = consumed.pending \cup {RefOf[f]}]
                       ELSE consumed
             marked == [opened EXCEPT !.first_reconcile = TRUE]
  <2>1. r = EnterReconciling(marked)
    BY <1>6 DEF Apply, MarkReconcileRequired
  <2> HIDE DEF consumed
  <2>2. opened \in StoreType /\ SameJournal(opened, consumed) /\ SameDiscovery(opened, consumed)
    BY <1>1, ConstantsAssumption DEF StoreType, SameJournal, SameDiscovery
  <2> HIDE DEF opened
  <2>3. marked \in StoreType /\ SameJournal(marked, opened) /\ SameDiscovery(marked, opened)
    BY <2>2 DEF StoreType, SameJournal, SameDiscovery
  <2> HIDE DEF marked
  <2>4. SameJournal(r, marked) /\ SameDiscovery(r, marked)
    BY <2>1, <2>3, ReconcilingFields
  <2> QED BY <1>1, <2>2, <2>3, <2>4 DEF SameJournal, SameDiscovery
<1>7. CASE outcome = "Applied"
  <2> DEFINE hinted == ApplyHint(consumed, f)
  <2>1. JournalConsumption(st, seq, f) = "Consumed" /\ st.fact_seq[f] = None
    BY <1>0, <1>7, AppliedIsFresh
  <2>2. r = RecordAppliedFact(hinted, seq, f)
    BY <1>7 DEF Apply
  <2> HIDE DEF consumed
  <2>3. /\ hinted \in StoreType /\ SameJournal(hinted, consumed)
        /\ hinted.orders = consumed.orders /\ PostureOK(hinted)
    BY <1>1, <1>2, HintFields
  <2>4. r.fact_seq = [hinted.fact_seq EXCEPT ![f] = seq] /\ SameDiscovery(r, hinted)
    <3> HIDE DEF hinted
    <3> QED BY <2>2, <2>3, AppliedFields
  <2>5. r.fact_seq = [st.fact_seq EXCEPT ![f] = seq]
    BY <1>1, <2>3, <2>4 DEF SameJournal
  <2>6. ASSUME NEW g \in AppliedFacts(st)
        PROVE  st.fact_seq[g] \in Nat /\ st.fact_seq[g] < seq
    <3> USE ConstantsAssumption, NoneIsNoNumber
    <3>1. st.last_consumed # None => st.last_consumed < seq
      BY <1>0, <2>1 DEF JournalConsumption, StoreType, OptionOf
    <3>2. st.fact_seq[g] \in Nat
      BY <1>0 DEF AppliedFacts, StoreType, OptionOf
    <3>3. st.last_applied \in Nat /\ st.last_consumed \in Nat
      BY <1>0 DEF JournalOK, LastAppliedIsGreatest, StoreType, OptionOf
    <3>4. st.fact_seq[g] <= st.last_applied /\ st.last_applied <= st.last_consumed
      BY <1>0, <3>3 DEF JournalOK, LastAppliedIsGreatest
    <3> QED BY <3>1, <3>2, <3>3, <3>4
  <2> QED BY <1>1, <2>1, <2>4, <2>5, <2>6 DEF AppliedFacts
<1> QED BY <1>3, <1>4, <1>5, <1>6, <1>7

\* The invariant reads the applied facts and the discovery tables alone.
LEMMA SameDiscoveryKeepsBackfillOK ==
    ASSUME NEW st, BackfillOK(st), NEW r, r.fact_seq = st.fact_seq, SameDiscovery(r, st)
    PROVE  BackfillOK(r)
<1>1. \A m : Known(r, m) = Known(st, m) /\ BackfillFacts(r, m) = BackfillFacts(st, m)
  BY DEF SameDiscovery, Known, BackfillFacts, AppliedFacts
<1>2. Parked(r)
  BY DEF SameDiscovery, Parked, BackfillOK
<1> QED BY <1>1, <1>2 DEF BackfillOK, Describes

\* Merging the newest fact of a family into a record that describes the older
\* ones gives a record that describes them all.
LEMMA RecordBackfillDescribes ==
    ASSUME NEW st, NEW r, NEW facts \in SUBSET Fact, NEW f \in Fact, f \notin facts, IsBackfill(f),
           NEW old \in Backfill, NEW new, new = RecordBackfill(old, f, CompletedAt(f)),
           facts = {} => old = EmptyBackfill,
           facts # {} => Describes(st, old, facts),
           \A g \in facts : r.fact_seq[g] <= r.fact_seq[f],
           r.fact_seq[f] \in Nat
    PROVE  Describes(r, new, facts \cup {f})
<1>0. /\ \A g \in Fact : CompletedAt(g) \in OptionOf(Nat)
      /\ old.completed_at \in OptionOf(Nat)
  BY ConstantsAssumption DEF CompletedAt, OptionOf, Backfill
<1>1. /\ new.cursor = f
      /\ new.completed_at = MergeCompletion(old.completed_at, CompletedAt(f))
  BY DEF RecordBackfill
<1>2. new # None
  <2>1. f \in OptionOf(Fact)
    BY DEF OptionOf
  <2> QED BY <1>0, <2>1, RecordBackfillType, NoneIsNoRecord
<1>3. \A g \in facts \cup {f} : r.fact_seq[g] <= r.fact_seq[new.cursor]
  BY <1>1
<1>4. /\ \A g \in facts : CompletedAt(g) # None =>
              old.completed_at # None /\ CompletedAt(g) <= old.completed_at
      /\ old.completed_at # None => \E g \in facts : CompletedAt(g) = old.completed_at
  <2>1. CASE facts = {}
    BY <2>1 DEF EmptyBackfill
  <2>2. CASE facts # {}
    BY <2>2 DEF Describes
  <2> QED BY <2>1, <2>2
<1>5. /\ old.completed_at # None =>
             new.completed_at # None /\ old.completed_at <= new.completed_at
      /\ CompletedAt(f) # None =>
             new.completed_at # None /\ CompletedAt(f) <= new.completed_at
      /\ new.completed_at \in {old.completed_at, CompletedAt(f)}
  BY <1>0, <1>1, NoneIsNoNumber DEF MergeCompletion, OptionOf
<1>6. ASSUME NEW g \in facts \cup {f}, CompletedAt(g) # None
      PROVE  new.completed_at # None /\ CompletedAt(g) <= new.completed_at
  <2>1. CASE g = f
    BY <1>5, <1>6, <2>1
  <2>2. CASE g \in facts
    <3>1. old.completed_at # None /\ CompletedAt(g) <= old.completed_at
      BY <1>4, <1>6, <2>2
    <3>2. CompletedAt(g) \in Nat /\ old.completed_at \in Nat /\ new.completed_at \in Nat
      BY <1>0, <1>5, <1>6, <2>2, <3>1 DEF OptionOf
    <3> QED BY <1>5, <3>1, <3>2
  <2> QED BY <2>1, <2>2
<1>7. new.completed_at # None => \E g \in facts \cup {f} : CompletedAt(g) = new.completed_at
  BY <1>4, <1>5
<1> QED BY <1>1, <1>2, <1>3, <1>6, <1>7 DEF Describes

\* StateApplier::apply keeps the invariant of the discovery tables.
LEMMA ApplyKeepsBackfillOK ==
    ASSUME NEW st, StoreOK(st), BackfillOK(st), NEW seq \in JournalSeq, NEW f \in Fact,
           NEW r, r = Apply(st, seq, f)
    PROVE  BackfillOK(r)
<1>1. CASE r.fact_seq = st.fact_seq /\ SameDiscovery(r, st)
  BY <1>1, SameDiscoveryKeepsBackfillOK
<1>2. CASE /\ f \notin AppliedFacts(st)
           /\ r.fact_seq = [st.fact_seq EXCEPT ![f] = seq]
           /\ \A g \in AppliedFacts(st) : st.fact_seq[g] \in Nat /\ st.fact_seq[g] < seq
           /\ \E c \in StoreType : SameDiscovery(c, st) /\ SameDiscovery(r, ApplyHint(c, f))
  <2>1. PICK c \in StoreType : SameDiscovery(c, st) /\ SameDiscovery(r, ApplyHint(c, f))
    BY <1>2
  <2> DEFINE h == ApplyHint(c, f)
  <2>2. Parked(c) /\ \A m : Known(c, m) = Known(st, m) /\ KnownOrEmpty(c, m) = KnownOrEmpty(st, m)
    BY <2>1 DEF SameDiscovery, Known, KnownOrEmpty, Parked, BackfillOK
  <2>3. ASSUME NEW m \in Family
        PROVE  /\ r.families[m] # None => r.backfills[m] = None
               /\ IF IsBackfill(f) /\ FamilyOf[f] = m
                  THEN Known(r, m) = RecordBackfill(KnownOrEmpty(st, m), f, CompletedAt(f))
                  ELSE \/ Known(r, m) = Known(st, m)
                       \/ Known(st, m) = None /\ Known(r, m) = EmptyBackfill
    <3>1. /\ h.families[m] # None => h.backfills[m] = None
          /\ IF IsBackfill(f) /\ FamilyOf[f] = m
             THEN Known(h, m) = RecordBackfill(KnownOrEmpty(c, m), f, CompletedAt(f))
             ELSE \/ Known(h, m) = Known(c, m)
                  \/ Known(c, m) = None /\ Known(h, m) = EmptyBackfill
      BY <2>2, HintKnown
    <3> HIDE DEF h
    <3>2. r.families = h.families /\ r.backfills = h.backfills /\ Known(r, m) = Known(h, m)
      BY <2>1 DEF SameDiscovery, Known, h
    <3> QED BY <2>2, <3>1, <3>2
  <2> HIDE DEF h
  <2>4. st \in StoreType /\ seq \in Nat /\ seq # None
    BY ConstantsAssumption, NoneIsNoNumber DEF StoreOK
  <2>5. AppliedFacts(r) = AppliedFacts(st) \cup {f}
    BY <1>2, <2>4 DEF AppliedFacts, StoreType
  <2>6. /\ r.fact_seq[f] = seq
        /\ \A g \in AppliedFacts(st) : r.fact_seq[g] = st.fact_seq[g] /\ r.fact_seq[g] < seq
    BY <1>2, <2>4 DEF AppliedFacts, StoreType
  <2>7. ASSUME NEW m \in Family
        PROVE  IF BackfillFacts(r, m) = {} THEN Known(r, m) \in {None, EmptyBackfill}
               ELSE Describes(r, Known(r, m), BackfillFacts(r, m))
    <3>1. IF BackfillFacts(st, m) = {} THEN Known(st, m) \in {None, EmptyBackfill}
          ELSE Describes(st, Known(st, m), BackfillFacts(st, m))
      BY DEF BackfillOK
    <3>2. CASE IsBackfill(f) /\ FamilyOf[f] = m
      <4> DEFINE facts == BackfillFacts(st, m)
                 old   == KnownOrEmpty(st, m)
      <4>1. BackfillFacts(r, m) = facts \cup {f}
        BY <2>5, <3>2 DEF BackfillFacts
      <4>2. facts \in SUBSET Fact /\ f \notin facts
        BY <1>2 DEF BackfillFacts, AppliedFacts
      <4>3. old \in Backfill
        BY <2>4 DEF KnownOrEmpty, Known, EmptyBackfill, Backfill, OptionOf, StoreType
      <4>4. /\ facts = {} => old = EmptyBackfill
            /\ facts # {} => Describes(st, old, facts)
        BY <3>1 DEF KnownOrEmpty, Describes
      <4>5. \A g \in facts : r.fact_seq[g] <= r.fact_seq[f]
        <5>1. ASSUME NEW g \in facts PROVE r.fact_seq[g] <= r.fact_seq[f]
          <6>1. g \in AppliedFacts(st)
            BY DEF BackfillFacts
          <6>2. r.fact_seq[g] \in Nat /\ r.fact_seq[g] < seq
            BY <1>2, <2>6, <6>1
          <6> QED BY <2>4, <2>6, <6>2
        <5> QED BY <5>1
      <4>6. Known(r, m) = RecordBackfill(old, f, CompletedAt(f))
        BY <2>3, <3>2
      <4>7. r.fact_seq[f] \in Nat
        BY <2>4, <2>6
      <4> HIDE DEF facts, old
      <4>8. Describes(r, Known(r, m), facts \cup {f})
        BY <3>2, <4>2, <4>3, <4>4, <4>5, <4>6, <4>7, RecordBackfillDescribes
      <4> QED BY <4>1, <4>8
    <3>3. CASE ~(IsBackfill(f) /\ FamilyOf[f] = m)
      <4>1. BackfillFacts(r, m) = BackfillFacts(st, m)
        BY <2>5, <3>3 DEF BackfillFacts
      <4>2. Known(r, m) = Known(st, m) \/ (Known(st, m) = None /\ Known(r, m) = EmptyBackfill)
        BY <2>3, <3>3
      <4>3. \A g \in BackfillFacts(st, m) : r.fact_seq[g] = st.fact_seq[g]
        BY <2>6 DEF BackfillFacts
      <4>4. CASE BackfillFacts(st, m) = {}
        BY <3>1, <4>1, <4>2, <4>4
      <4>5. CASE BackfillFacts(st, m) # {}
        BY <3>1, <4>1, <4>2, <4>3, <4>5 DEF Describes
      <4> QED BY <4>4, <4>5
    <3> QED BY <3>2, <3>3
  <2> QED BY <2>3, <2>7 DEF BackfillOK, Parked
<1> QED BY <1>1, <1>2, ApplyDiscovery

\* Whatever the order in which a family's discoveries and backfills arrive, and
\* however often, the store ends up with the cursor of the newest backfill and
\* the latest completion time (record_family_discovery, record_family_backfill
\* and the parking place for early backfills).
THEOREM BackfillsAreNeverLost == StoreSpec => []BackfillNeverLost
<1>1. StoreInit => BackfillOK(store)
  <2>1. \A m \in Family : BackfillFacts(NewStore, m) = {} /\ Known(NewStore, m) = None
    BY DEF NewStore, BackfillFacts, AppliedFacts, Known
  <2>2. Parked(NewStore)
    BY DEF NewStore, Parked
  <2> QED BY <2>1, <2>2 DEF StoreInit, BackfillOK
<1>2. StoreOK(store) /\ BackfillOK(store) /\ [StoreNext]_store => BackfillOK(store)'
  <2> SUFFICES ASSUME StoreOK(store), BackfillOK(store), [StoreNext]_store
               PROVE  BackfillOK(store')
    OBVIOUS
  <2>1. ASSUME NEW seq \in JournalSeq, NEW f \in Fact, ApplyFact(seq, f)
        PROVE  BackfillOK(store')
    BY <2>1, ApplyKeepsBackfillOK DEF ApplyFact
  <2>2. ASSUME NEW snapshot \in RemoteSnapshot, Reconcile(snapshot)
        PROVE  BackfillOK(store')
    BY <2>2, ReconcileKeepsOK, SameDiscoveryKeepsBackfillOK DEF Reconcile, SameJournal
  <2>3. ASSUME NEW order \in Order, LocalOrder(order)
        PROVE  BackfillOK(store')
    BY <2>3, LocalOrderKeepsOK, SameDiscoveryKeepsBackfillOK DEF LocalOrder, SameJournal
  <2>4. ASSUME NEW table \in Table, NEW row \in Row, LocalRow(table, row)
        PROVE  BackfillOK(store')
    BY <2>4, LocalRowKeepsOK, SameDiscoveryKeepsBackfillOK DEF LocalRow, SameJournal
  <2>5. CASE UNCHANGED store
    BY <2>5
  <2> QED BY <2>1, <2>2, <2>3, <2>4, <2>5 DEF StoreNext
<1>3. BackfillOK(store) => BackfillNeverLost
  <2> SUFFICES ASSUME BackfillOK(store), NEW m \in Family, Backfills(m) # {}
               PROVE  LET known == Known(store, m)
                      IN  /\ known # None
                          /\ known.cursor \in Backfills(m)
                          /\ \A f \in Backfills(m) :
                                 store.fact_seq[f] <= store.fact_seq[known.cursor]
                          /\ IF CompletionTimes(m) = {}
                             THEN known.completed_at = None
                             ELSE /\ known.completed_at \in CompletionTimes(m)
                                  /\ \A t \in CompletionTimes(m) : t <= known.completed_at
    BY DEF BackfillNeverLost, Known
  <2> DEFINE known == Known(store, m)
  <2>1. Backfills(m) = BackfillFacts(store, m)
    BY DEF Backfills, BackfillFacts, IsBackfill
  <2>2. Describes(store, known, Backfills(m))
    BY <2>1 DEF BackfillOK
  <2>3. \A t : t \in CompletionTimes(m) <=>
               \E f \in Backfills(m) : CompletedAt(f) # None /\ CompletedAt(f) = t
    <3>1. \A f \in Backfills(m) : f \in Fact /\ ObservedAt[f] \in Nat /\ ObservedAt[f] # None
      BY ConstantsAssumption, NoneIsNoNumber DEF Backfills, AppliedFacts
    <3> QED BY <3>1 DEF CompletionTimes, CompletedAt
  <2> HIDE DEF known
  <2>4. /\ known # None
        /\ known.cursor \in Backfills(m)
        /\ \A f \in Backfills(m) : store.fact_seq[f] <= store.fact_seq[known.cursor]
    BY <2>2 DEF Describes
  <2>5. known.completed_at # None => known.completed_at \in CompletionTimes(m)
    BY <2>2, <2>3 DEF Describes
  <2>6. \A t \in CompletionTimes(m) : known.completed_at # None /\ t <= known.completed_at
    BY <2>2, <2>3 DEF Describes
  <2>7. IF CompletionTimes(m) = {}
        THEN known.completed_at = None
        ELSE /\ known.completed_at \in CompletionTimes(m)
             /\ \A t \in CompletionTimes(m) : t <= known.completed_at
    BY <2>5, <2>6
  <2> QED BY <2>4, <2>7 DEF known
<1> QED BY <1>1, <1>2, <1>3, StoreInvariant, PTL DEF StoreSpec
=============================================================================
