---------------------------- MODULE StateStore ----------------------------
(***************************************************************************)
(* The store as a state machine of its own: every call the clients of      *)
(* crates/state make on a store, in any order.                             *)
(***************************************************************************)
EXTENDS Store

VARIABLE store

StoreInit == store = NewStore

ApplyFact(seq, f) == store' = Apply(store, seq, f)

Reconcile(snapshot) == store' = ReconcileStore(store, snapshot)

LocalOrder(order) == store' = RecordLocalOrder(store, order)

LocalRow(table, row) == store' = RecordLocalRow(store, table, row)

StoreNext ==
    \/ \E seq \in JournalSeq, f \in Fact : ApplyFact(seq, f)
    \/ \E snapshot \in RemoteSnapshot : Reconcile(snapshot)
    \/ \E order \in Order : LocalOrder(order)
    \/ \E table \in Table, row \in Row : LocalRow(table, row)

StoreSpec == StoreInit /\ [][StoreNext]_store

---------------------------------------------------------------------------
(***************************************************************************)
(* Properties                                                              *)
(***************************************************************************)

\* The fields of StateStore keep their types; a fact's sequence number is one
\* that inputs carry.
StoreTypeOK == store \in StoreType

AppliedFacts(st) == {f \in Fact : st.fact_seq[f] # None}

\* Every consumed sequence number is at or below the last one consumed.
ConsumedInOrder(st) ==
    \A s \in JournalSeq : st.bound[s] # None =>
        st.last_consumed # None /\ s <= st.last_consumed

\* A fact was applied at a sequence number that is bound to it.
AppliedWhereBound(st) ==
    \A f \in AppliedFacts(st) : st.bound[st.fact_seq[f]] = f

\* A state-changing fact that was consumed has been applied, never later than
\* any sequence number it was delivered under: none is consumed and lost.
ConsumedIsApplied(st) ==
    \A s \in JournalSeq :
        LET f == st.bound[s]
        IN  f # None /\ Kind[f] \in AppliedKind =>
                st.fact_seq[f] # None /\ st.fact_seq[f] <= s

\* The last applied sequence number is that of some applied fact and the
\* greatest of them.
LastAppliedIsGreatest(st) ==
    /\ st.last_applied = None <=> AppliedFacts(st) = {}
    /\ st.last_applied # None =>
           /\ st.last_consumed # None
           /\ st.last_applied <= st.last_consumed
           /\ \E f \in Fact : st.fact_seq[f] = st.last_applied
           /\ \A f \in AppliedFacts(st) : st.fact_seq[f] <= st.last_applied

\* The state version counts the applied facts: each fact advances it once,
\* however often and under however many sequence numbers it is delivered.
VersionCountsFacts(st) ==
    IsFiniteSet(AppliedFacts(st)) /\ st.version = Cardinality(AppliedFacts(st))

\* The journal part of the store (consumed_journal, applied_fact_journal, the
\* two sequence anchors and the version) stays consistent under any order of
\* deliveries, redeliveries and collisions (StateStore::consume_journal_seq,
\* record_applied_fact).
JournalConsistent ==
    /\ ConsumedInOrder(store)
    /\ AppliedWhereBound(store)
    /\ ConsumedIsApplied(store)
    /\ LastAppliedIsGreatest(store)
    /\ VersionCountsFacts(store)

\* The store never reports Healthy, nor drops the CancelOnly overlay, while a
\* submit is waiting for its reconcile (apply_restore_posture and every caller
\* of apply_policy).
HealthyHasNoPending ==
    store.pending # {} => store.mode # "Healthy" /\ store.overlay = "CancelOnly"

\* A full-set view that would be published lists exactly the open orders of
\* the store (record_local_order and complete_reconcile invalidate the anchor,
\* rebuild_fullset_anchor and anchored_fullset restore it).
AnchoredFullSetIsCurrent ==
    AnchoredFullSet(store) => store.anchor.orders = OrderIds(store.orders)

Backfills(m) ==
    {f \in AppliedFacts(store) : Kind[f] \in {"Backfill", "BackfillComplete"} /\ FamilyOf[f] = m}

CompletionTimes(m) ==
    {ObservedAt[f] : f \in {f \in Backfills(m) : Kind[f] = "BackfillComplete"}}

\* Whatever the order in which a family's discoveries and backfills arrive,
\* what the store knows of the backfill is the cursor of the newest applied one
\* and the latest completion time (record_family_discovery,
\* record_family_backfill and the parking place for early backfills).
BackfillNeverLost ==
    \A m \in Family : Backfills(m) # {} =>
        LET known == IF store.families[m] # None THEN store.families[m]
                                                 ELSE store.backfills[m]
        IN  /\ known # None
            /\ known.cursor \in Backfills(m)
            /\ \A f \in Backfills(m) : store.fact_seq[f] <= store.fact_seq[known.cursor]
            /\ IF CompletionTimes(m) = {}
               THEN known.completed_at = None
               ELSE /\ known.completed_at \in CompletionTimes(m)
                    /\ \A t \in CompletionTimes(m) : t <= known.completed_at

\* A state version is only ever advanced together with the last applied
\* sequence number, by one, and never taken back (record_applied_fact).
VersionAdvancesWithSeqStep ==
    store'.version # store.version =>
        /\ store'.version = store.version + 1
        /\ store'.last_applied # None
        /\ store.last_applied # None => store.last_applied < store'.last_applied

VersionAdvancesWithSeq == [][VersionAdvancesWithSeqStep]_store

\* No reconcile adds or removes an open order: a snapshot that disagrees on the
\* set of orders is refused as attention before anything is replaced, so an
\* order leaves the store by no path at all (compare_orders before
\* complete_reconcile).
OpenOrdersNeverVanish ==
    [][OrderIds(store.orders) \subseteq OrderIds(store'.orders)]_store

\* "duplicate events must be idempotent": delivering a fact again after it was
\* consumed leaves the set of pending reconciles alone
\* (StateApplier::apply; what the duplicate check does not cover).
DuplicateIsIdempotent ==
    [][\A f \in Fact :
          (/\ \E s \in JournalSeq : store.bound[s] = f
           /\ \E s \in JournalSeq : store' = Apply(store, s, f))
          => store'.pending = store.pending]_store

=============================================================================
