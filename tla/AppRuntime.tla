---------------------------- MODULE AppRuntime ----------------------------
(***************************************************************************)
(* The runtime that owns the store (crates/app-live/src/runtime.rs and     *)
(* bootstrap.rs): it feeds inputs to the applier, reconciles, publishes    *)
(* snapshots of the store for the decision loop, and rebuilds a store from *)
(* the committed history after a restart.                                  *)
(***************************************************************************)
EXTENDS StateStore, RuntimeOps

CONSTANT MaxVersion     \* greatest state version a durable anchor may carry

ASSUME RestoreAssumption == MaxVersion \in Nat

VARIABLES
    published,      \* the published snapshot, or None
    everReconciled  \* history: some reconcile of this account has succeeded

runtimeVars == <<store, published, everReconciled>>

---------------------------------------------------------------------------
(***************************************************************************)
(* The runtime as a state machine: a new runtime, or one restored from     *)
(* durable anchors, and the calls made on it.                              *)
(***************************************************************************)

RuntimeInit ==
    /\ store = NewStore
    /\ published = None
    /\ everReconciled = FALSE

\* A fresh runtime is given the durable anchors before it sees any input; the
\* run that wrote them had reconciled.
RestoreCommitted(version, seq) ==
    /\ store = NewStore
    /\ store' = RestoreCommittedAnchor(store, version, seq)
    /\ everReconciled' = TRUE
    /\ UNCHANGED published

RestorePending(ref) ==
    /\ store.last_applied # None
    /\ \A s \in JournalSeq : store.bound[s] = None
    /\ store' = RestorePendingReconcileAnchor(store, ref)
    /\ UNCHANGED <<published, everReconciled>>

BootstrapOnce(snapshot) ==
    /\ store' = BootstrapStore(store, snapshot)
    /\ everReconciled' = (everReconciled \/ ~NeedsAttention(store, snapshot))
    /\ UNCHANGED published

RuntimeReconcile(snapshot) ==
    /\ store' = RuntimeReconcileStore(store, snapshot)
    /\ everReconciled' = (everReconciled \/ ~NeedsAttention(store, snapshot))
    /\ UNCHANGED published

\* Mutant: the snapshot stays published while facts are applied.
ApplyInputKeepingSnapshot(seq, f) ==
    /\ store' = ApplyInputStore(store, seq, f)
    /\ UNCHANGED <<published, everReconciled>>

\* An applied fact takes the published snapshot back.
ApplyInput(seq, f) ==
    /\ store' = ApplyInputStore(store, seq, f)
    /\ published' = IF ApplyOutcome(store, seq, f) = "Applied" THEN None ELSE published
    /\ UNCHANGED everReconciled

PublishSnapshot ==
    /\ published' = IF store.last_applied = None THEN published ELSE Published(store)
    /\ UNCHANGED <<store, everReconciled>>

RuntimeNext ==
    \/ \E version \in 0..MaxVersion, seq \in JournalSeq : RestoreCommitted(version, seq)
    \/ \E ref \in PendingRef : RestorePending(ref)
    \/ \E snapshot \in RemoteSnapshot : BootstrapOnce(snapshot) \/ RuntimeReconcile(snapshot)
    \/ \E seq \in JournalSeq, f \in Fact : ApplyInput(seq, f)
    \/ PublishSnapshot

RuntimeSpec == RuntimeInit /\ [][RuntimeNext]_runtimeVars

---------------------------------------------------------------------------
(***************************************************************************)
(* Properties                                                              *)
(***************************************************************************)

\* Whatever is published describes the store as it is: no fact, reconcile or
\* restore slips in between without the snapshot being taken back, its position
\* is never ahead of what was consumed, and its full set is never missing or
\* older than the open orders (AppRuntime::apply_input, publish_snapshot,
\* StateStore::anchored_fullset, anchor_baseline).
PublishedIsCurrent ==
    published # None =>
        /\ published.version = store.version
        /\ published.seq = store.last_applied
        /\ store.last_consumed # None /\ published.seq <= store.last_consumed
        /\ published.fullset = OrderIds(store.orders)

\* A reconcile of the runtime never takes anything over from the venue: with no
\* way to record local orders, approvals or relayer transactions, a report
\* that holds one is refused, so only an empty account can reconcile
\* (compare_orders, compare_approvals and compare_relayer_txs against a store
\* that starts empty).
OnlyEmptyAccountsReconcile ==
    /\ store.orders = {}
    /\ store.tables["approvals"] = {}
    /\ store.tables["relayer_txs"] = {}

\* "If the engine has not completed its first successful reconcile, it is still
\* in bootstrap CancelOnly."
CancelOnlyUntilReconciled == ~everReconciled => store.overlay = "CancelOnly"

=============================================================================
