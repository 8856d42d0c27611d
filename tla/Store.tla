------------------------------- MODULE Store -------------------------------
(***************************************************************************)
(* The authoritative state of AxiomArb and the applier that is the only    *)
(* writer of it (crates/state/src/{store,apply,facts,reconcile}.rs).       *)
(*                                                                         *)
(* Facts arrive with a journal sequence number.  The store binds every     *)
(* sequence number it consumes to the fact it carried, applies a fact at   *)
(* most once, counts applied facts in its state version, and keeps the set *)
(* of submits whose outcome is still unknown (the pending reconcile        *)
(* anchors), which decides between the Healthy and the Reconciling policy. *)
(*                                                                         *)
(* A store is a record and every &mut self method of the code an operator  *)
(* from a store to the store it leaves behind, so that the modules which   *)
(* own stores (StateStore, AppRuntime, LiveStartup, Supervisor) can hold   *)
(* several and replay history into a fresh one.                            *)
(***************************************************************************)
EXTENDS Sequences, FiniteSets, Option, RuntimePolicy

CONSTANTS
    Fact,           \* fact keys: one per external event
    Kind,           \* what applying the fact of a key does, see FactKind
    PendingRef,     \* names of pending reconcile anchors
    RefOf,          \* PendingRef::from_fact_key: the anchor a pending fact opens
    TargetRef,      \* the anchor a live-reconcile fact reports on
    Family,         \* event families, also the scopes of anchors
    FamilyOf,       \* the family a fact is about
    ObservedAt,     \* when the event was observed
    JournalSeq,     \* journal sequence numbers inputs may carry
    Order,          \* order records a client or the venue may hold
    Row,            \* keys of the other reconciled tables; no values are compared
    RemoteSnapshot  \* what the venue may report at a reconcile

FactKind == {"None", "Discovery", "Backfill", "BackfillComplete", "Pending",
             "Attention", "ReconcileTerminal", "ReconcilePending"}

\* The kinds whose facts change authoritative state; the two others only ask
\* for a reconcile.
AppliedKind == FactKind \ {"Pending", "ReconcilePending"}

\* The four tables beside the open orders that a reconcile replaces.
Table == {"approvals", "inventory", "resolution", "relayer_txs"}

ASSUME ConstantsAssumption ==
    /\ Kind \in [Fact -> FactKind]
    /\ RefOf \in [Fact -> PendingRef]
    /\ TargetRef \in [Fact -> PendingRef]
    /\ FamilyOf \in [Fact -> Family]
    /\ ObservedAt \in [Fact -> Nat]
    /\ JournalSeq \subseteq Nat

ASSUME NoneAssumption ==
    None \notin (Fact \cup PendingRef \cup Family)

\* id, signed-order hash (None when unsigned), token and condition, the terms
\* (market, quantity, price) and the progress fields a reconcile may advance.
ASSUME OrderAssumption ==
    \A o \in Order : DOMAIN o = {"id", "hash", "token", "condition", "terms", "state"}

ASSUME SnapshotAssumption ==
    \A r \in RemoteSnapshot :
        /\ DOMAIN r = {"orders", "tables", "attention"}
        /\ r.orders \in Seq(Order)
        /\ r.tables \in [Table -> SUBSET Row]
        /\ r.attention \in BOOLEAN

---------------------------------------------------------------------------
(***************************************************************************)
(* The store                                                               *)
(***************************************************************************)

OrderIds(orders) == {o.id : o \in orders}

\* FullSetAnchor: the open orders as of a committed version.
FullSetAnchor == [version : Nat, seq : Nat, orders : SUBSET {o.id : o \in Order}]

Backfill == [cursor : OptionOf(Fact), completed_at : OptionOf(Nat)]

ASSUME NoneIsNoRecord ==
    /\ None \notin Backfill /\ None \notin FullSetAnchor
    /\ \A ids \in SUBSET {o.id : o \in Order} : ids # None

StoreType ==
    [version         : Nat,
     last_consumed   : OptionOf(Nat),
     last_applied    : OptionOf(Nat),
     anchor          : OptionOf(FullSetAnchor),
     mode            : RuntimeMode,
     overlay         : Overlay,
     first_reconcile : BOOLEAN,
     fact_seq        : [Fact -> OptionOf(JournalSeq)],
     bound           : [JournalSeq -> OptionOf(Fact)],
     families        : [Family -> OptionOf(Backfill)],
     backfills       : [Family -> OptionOf(Backfill)],
     pending         : SUBSET PendingRef,
     attention       : SUBSET Fact,
     orders          : SUBSET Order,
     tables          : [Table -> SUBSET Row]]

NewStore ==
    [version         |-> 0,
     last_consumed   |-> None,
     last_applied    |-> None,
     anchor          |-> None,
     mode            |-> BootstrapPolicy.mode,
     overlay         |-> BootstrapPolicy.overlay,
     first_reconcile |-> FALSE,
     fact_seq        |-> [f \in Fact |-> None],
     bound           |-> [s \in JournalSeq |-> None],
     families        |-> [m \in Family |-> None],
     backfills       |-> [m \in Family |-> None],
     pending         |-> {},
     attention       |-> {},
     orders          |-> {},
     tables          |-> [t \in Table |-> {}]]

ApplyPolicy(st, policy) ==
    [st EXCEPT !.mode = policy.mode, !.overlay = policy.overlay]

EnterReconciling(st) == ApplyPolicy(st, ReconcileAttentionPolicy)

\* Mutant: the posture is taken from the first reconcile alone.
ApplyRestorePostureIgnoringPending(st) ==
    IF st.first_reconcile THEN ApplyPolicy(st, ReconciledPolicy) ELSE st

ApplyRestorePosture(st) ==
    IF st.first_reconcile
    THEN ApplyPolicy(st, IF st.pending # {} THEN ReconcileAttentionPolicy
                                            ELSE ReconciledPolicy)
    ELSE st

MarkReconcileRequired(st) ==
    EnterReconciling([st EXCEPT !.first_reconcile = TRUE])

RebuildFullSetAnchor(st, seq) ==
    [st EXCEPT !.anchor = [version |-> st.version, seq |-> seq,
                           orders |-> OrderIds(st.orders)]]

\* The anchor counts only while it is of the current version and sequence.
AnchoredFullSet(st) ==
    /\ st.last_applied # None
    /\ st.anchor # None
    /\ st.anchor.version = st.version
    /\ st.anchor.seq = st.last_applied

---------------------------------------------------------------------------
(***************************************************************************)
(* Applying facts                                                          *)
(***************************************************************************)

\* Mutant: a sequence number below the last one consumed is taken.
JournalConsumptionUnordered(st, seq, f) ==
    CASE st.bound[seq] = None -> "Consumed"
      [] st.bound[seq] = f -> "AlreadyBoundToSameFact"
      [] OTHER -> "AlreadyBoundToDifferentFact"

JournalConsumption(st, seq, f) ==
    IF st.bound[seq] # None
    THEN IF st.bound[seq] = f THEN "AlreadyBoundToSameFact"
                              ELSE "AlreadyBoundToDifferentFact"
    ELSE IF st.last_consumed # None /\ seq <= st.last_consumed
         THEN "OutOfOrder"
         ELSE "Consumed"

ConsumeJournalSeq(st, seq, f) ==
    IF JournalConsumption(st, seq, f) = "Consumed"
    THEN [st EXCEPT !.last_consumed = seq,
                    !.bound = [st.bound EXCEPT ![seq] = f]]
    ELSE st

\* Mutant: the version is stored where the sequence number belongs.
RecordAppliedFactAtVersion(st, seq, f) ==
    ApplyRestorePosture(
        RebuildFullSetAnchor(
            [st EXCEPT !.version = st.version + 1,
                       !.last_applied = seq,
                       !.fact_seq = [st.fact_seq EXCEPT ![f] = st.version]],
            seq))

RecordAppliedFact(st, seq, f) ==
    ApplyRestorePosture(
        RebuildFullSetAnchor(
            [st EXCEPT !.version = st.version + 1,
                       !.last_applied = seq,
                       !.fact_seq = [st.fact_seq EXCEPT ![f] = seq]],
            seq))

\* Option<DateTime>: the later of two completion times, if there is one.
MergeCompletion(a, b) ==
    IF a = None THEN b ELSE IF b = None \/ b <= a THEN a ELSE b

\* FamilyDiscoveryRecord::record_backfill: the cursor is replaced, the
\* completion time only moves forward.
RecordBackfill(record, cursor, completed_at) ==
    [cursor |-> cursor,
     completed_at |-> MergeCompletion(record.completed_at, completed_at)]

EmptyBackfill == [cursor |-> None, completed_at |-> None]

\* Mutant: a new discovery record forgets the backfill of the one it replaces.
RecordFamilyDiscoveryAfresh(st, m) ==
    LET early  == st.backfills[m]
        record == IF early = None THEN EmptyBackfill
                  ELSE RecordBackfill(EmptyBackfill, early.cursor, early.completed_at)
    IN  [st EXCEPT !.families = [st.families EXCEPT ![m] = record],
                   !.backfills = [st.backfills EXCEPT ![m] = None]]

\* A new discovery record keeps what is known of the backfill: from the record
\* it replaces, then from a backfill that arrived before any discovery.
RecordFamilyDiscovery(st, m) ==
    LET kept   == IF st.families[m] = None THEN EmptyBackfill ELSE st.families[m]
        early  == st.backfills[m]
        record == IF early = None THEN kept
                  ELSE RecordBackfill(kept, early.cursor, early.completed_at)
    IN  [st EXCEPT !.families = [st.families EXCEPT ![m] = record],
                   !.backfills = [st.backfills EXCEPT ![m] = None]]

RecordFamilyBackfill(st, m, cursor, completed_at) ==
    IF st.families[m] # None
    THEN [st EXCEPT !.families =
             [st.families EXCEPT ![m] = RecordBackfill(st.families[m], cursor, completed_at)]]
    ELSE LET early == IF st.backfills[m] = None THEN EmptyBackfill ELSE st.backfills[m]
         IN  [st EXCEPT !.backfills =
                 [st.backfills EXCEPT ![m] = RecordBackfill(early, cursor, completed_at)]]

ClearPendingReconcile(st, ref) ==
    ApplyRestorePosture([st EXCEPT !.pending = st.pending \ {ref}])

\* What the hint of an applied fact does before it is recorded as applied.
ApplyHint(st, f) ==
    CASE Kind[f] = "Discovery" -> RecordFamilyDiscovery(st, FamilyOf[f])
      [] Kind[f] = "Backfill" -> RecordFamilyBackfill(st, FamilyOf[f], f, None)
      [] Kind[f] = "BackfillComplete" ->
             RecordFamilyBackfill(st, FamilyOf[f], f, ObservedAt[f])
      [] Kind[f] = "Attention" -> [st EXCEPT !.attention = st.attention \cup {f}]
      [] Kind[f] = "ReconcileTerminal" -> ClearPendingReconcile(st, TargetRef[f])
      [] OTHER -> st

\* The variants of ApplyResult, and "Error" for ApplyError.
ApplyOutcome(st, seq, f) ==
    CASE JournalConsumption(st, seq, f) \in {"AlreadyBoundToDifferentFact", "OutOfOrder"}
             -> "Error"
      [] /\ JournalConsumption(st, seq, f) \in {"Consumed", "AlreadyBoundToSameFact"}
         /\ st.fact_seq[f] # None -> "Duplicate"
      [] OTHER -> IF Kind[f] \in AppliedKind THEN "Applied" ELSE "ReconcileRequired"

\* StateApplier::apply.  A fact that only asks for a reconcile is consumed but
\* not recorded as applied.
Apply(st, seq, f) ==
    LET outcome  == ApplyOutcome(st, seq, f)
        consumed == ConsumeJournalSeq(st, seq, f)
    IN  CASE outcome = "Error" -> st
          [] outcome = "Duplicate" -> consumed
          [] outcome = "Applied" -> RecordAppliedFact(ApplyHint(consumed, f), seq, f)
          [] outcome = "ReconcileRequired" ->
                 MarkReconcileRequired(
                     IF Kind[f] = "Pending"
                     THEN [consumed EXCEPT !.pending = consumed.pending \cup {RefOf[f]}]
                     ELSE consumed)

---------------------------------------------------------------------------
(***************************************************************************)
(* Reconciling with the venue                                              *)
(***************************************************************************)

\* Collecting a Vec into a map by key: the last entry with a key stays.
LastById(orders) ==
    {orders[i] : i \in {i \in DOMAIN orders :
                           \A j \in DOMAIN orders : j > i => orders[j].id # orders[i].id}}

SameOrderIdentity(local, remote) ==
    /\ local.terms = remote.terms
    /\ local.token = remote.token
    /\ local.condition = remote.condition
    /\ local.hash = remote.hash

DuplicateSignedOrders(snapshot) ==
    \E i, j \in DOMAIN snapshot.orders :
        /\ snapshot.orders[i].hash # None
        /\ snapshot.orders[i].hash = snapshot.orders[j].hash
        /\ snapshot.orders[i].id # snapshot.orders[j].id

IdentifierMismatches(snapshot) ==
    \E i, j \in DOMAIN snapshot.orders :
        /\ snapshot.orders[i].token = snapshot.orders[j].token
        /\ snapshot.orders[i].condition # snapshot.orders[j].condition

\* Mutant: an order only the client knows is taken as closed.
OrderMismatchesOneWay(st, snapshot) ==
    LET remote == LastById(snapshot.orders)
    IN  \/ ~(OrderIds(remote) \subseteq OrderIds(st.orders))
        \/ \E l \in st.orders, r \in remote : l.id = r.id /\ ~SameOrderIdentity(l, r)

OrderMismatches(st, snapshot) ==
    LET remote == LastById(snapshot.orders)
    IN  \/ OrderIds(st.orders) # OrderIds(remote)
        \/ \E l \in st.orders, r \in remote : l.id = r.id /\ ~SameOrderIdentity(l, r)

\* Mutant: only approvals the venue has lost are noticed.
TableMismatchesOneWay(st, snapshot) ==
    \/ ~(st.tables["approvals"] \subseteq snapshot.tables["approvals"])
    \/ ~(snapshot.tables["relayer_txs"] \subseteq st.tables["relayer_txs"])

\* Approvals must agree both ways; a local relayer transaction the venue no
\* longer reports is accepted; inventory and resolution are not compared.
TableMismatches(st, snapshot) ==
    \/ st.tables["approvals"] # snapshot.tables["approvals"]
    \/ ~(snapshot.tables["relayer_txs"] \subseteq st.tables["relayer_txs"])

NeedsAttention(st, snapshot) ==
    \/ snapshot.attention
    \/ DuplicateSignedOrders(snapshot)
    \/ IdentifierMismatches(snapshot)
    \/ OrderMismatches(st, snapshot)
    \/ TableMismatches(st, snapshot)

CompleteReconcile(st, snapshot) ==
    LET replaced == [st EXCEPT !.anchor = None,
                               !.orders = LastById(snapshot.orders),
                               !.tables = snapshot.tables]
        anchored == IF st.last_applied # None
                    THEN RebuildFullSetAnchor(replaced, st.last_applied)
                    ELSE replaced
    IN  ApplyRestorePosture([anchored EXCEPT !.first_reconcile = TRUE])

ReconcileStore(st, snapshot) ==
    IF NeedsAttention(st, snapshot) THEN EnterReconciling(st)
                                    ELSE CompleteReconcile(st, snapshot)

---------------------------------------------------------------------------
(***************************************************************************)
(* Local records of orders and of the other tables                         *)
(***************************************************************************)

\* Mutant: the full-set anchor survives a new order.
RecordLocalOrderKeepingAnchor(st, order) ==
    [st EXCEPT !.orders = {o \in st.orders : o.id # order.id} \cup {order}]

RecordLocalOrder(st, order) ==
    [st EXCEPT !.anchor = None,
               !.orders = {o \in st.orders : o.id # order.id} \cup {order}]

RecordLocalRow(st, table, row) ==
    [st EXCEPT !.tables = [st.tables EXCEPT ![table] = st.tables[table] \cup {row}]]

---------------------------------------------------------------------------
(***************************************************************************)
(* Restoring a store after a restart                                       *)
(***************************************************************************)

\* The anchors come back without the journal they stand for: no sequence
\* number is bound and no fact is known as applied.
RestoreCommittedAnchor(st, version, seq) ==
    LET counted == [st EXCEPT !.version = version, !.last_consumed = seq,
                              !.last_applied = seq]
    IN  ApplyRestorePosture(
            [RebuildFullSetAnchor(counted, seq) EXCEPT !.first_reconcile = TRUE])

RestorePendingReconcileAnchor(st, ref) ==
    ApplyRestorePosture([st EXCEPT !.pending = st.pending \cup {ref},
                                   !.first_reconcile = TRUE])

\* Without an applied fact the baseline becomes the anchor, whatever has been
\* consumed.
MarkReconciledAfterRestore(st, baseline) ==
    LET anchored == IF st.last_applied # None THEN st
                    ELSE RebuildFullSetAnchor([st EXCEPT !.last_consumed = baseline,
                                                         !.last_applied = baseline],
                                              baseline)
    IN  ApplyPolicy([anchored EXCEPT !.pending = {}, !.first_reconcile = TRUE],
                    ReconciledPolicy)

RestoreReconciledPolicy(st) ==
    ApplyPolicy([st EXCEPT !.first_reconcile = TRUE], ReconciledPolicy)

ClearPendingReconcileAfterRestore(st) ==
    ApplyRestorePosture([st EXCEPT !.pending = {}])

=============================================================================
