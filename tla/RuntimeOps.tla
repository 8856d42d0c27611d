---------------------------- MODULE RuntimeOps ----------------------------
(***************************************************************************)
(* What the runtime does to the store it owns and what it publishes of it  *)
(* (crates/app-live/src/runtime.rs, bootstrap.rs, crates/state/src/        *)
(* snapshot.rs): bootstrap, reconcile, apply, publish, and the replay of   *)
(* the committed history into a fresh store.                               *)
(***************************************************************************)
EXTENDS Store

\* The journal position a first reconcile is anchored at.
BaselineSeq == 0

\* PublishedSnapshot::from_store.  The full set is missing while its anchor is
\* stale; the neg-risk view is always missing.
Published(st) ==
    [version |-> st.version,
     seq     |-> st.last_applied,
     fullset |-> IF AnchoredFullSet(st) THEN st.anchor.orders ELSE None]

\* A reconcile that succeeds before anything was applied anchors the store at
\* the baseline.
AnchorBaseline(st) ==
    IF st.last_applied = None THEN MarkReconciledAfterRestore(st, BaselineSeq) ELSE st

BootstrapStore(st, snapshot) ==
    IF NeedsAttention(st, snapshot)
    THEN ReconcileStore(st, snapshot)
    ELSE AnchorBaseline(ReconcileStore(st, snapshot))

RuntimeReconcileStore(st, snapshot) ==
    IF NeedsAttention(st, snapshot)
    THEN ReconcileStore(st, snapshot)
    ELSE AnchorBaseline(ClearPendingReconcileAfterRestore(ReconcileStore(st, snapshot)))

ApplyInputStore(st, seq, f) ==
    IF ApplyOutcome(st, seq, f) = "ReconcileRequired"
    THEN MarkReconcileRequired(Apply(st, seq, f))
    ELSE Apply(st, seq, f)

\* An input task event: a fact under a journal sequence number.
Input == [seq : JournalSeq, fact : Fact]

\* A replay starts from a fresh store, and remembers whether some entry asked
\* for a reconcile and whether one was refused, which ends the replay.
ReplayStart == [st |-> NewStore, required |-> FALSE, ok |-> TRUE]

ReplayStep(before, entry) ==
    LET outcome == ApplyOutcome(before.st, entry.seq, entry.fact)
    IN  IF ~before.ok \/ outcome = "Error"
        THEN [before EXCEPT !.ok = FALSE]
        ELSE [st |-> Apply(before.st, entry.seq, entry.fact),
              required |-> before.required \/ outcome = "ReconcileRequired",
              ok |-> TRUE]

\* replay_committed_history up to its last entry.
ReplayPrefix(history) ==
    LET prefix[n \in 0..Len(history)] ==
            IF n = 0 THEN ReplayStart ELSE ReplayStep(prefix[n - 1], history[n])
    IN  prefix[Len(history)]

ReplayAccepted(history) == ReplayPrefix(history).ok

\* The store a replay leaves behind.
Replay(history) ==
    LET end == ReplayPrefix(history)
    IN  CASE ~end.ok -> end.st
          [] end.ok /\ end.required -> MarkReconcileRequired(RestoreReconciledPolicy(end.st))
          [] end.ok /\ ~end.required /\ end.st.last_applied = None ->
                 MarkReconciledAfterRestore(end.st, BaselineSeq)
          [] OTHER -> RestoreReconciledPolicy(end.st)

=============================================================================
