SPECIFICATION MCSpec
CONSTANTS
    None = None
    Focus = {"supervisor", "settled", "runtime"}
    Fact <- MCFacts
    Kind <- MCKind
    PendingRef = {"ref1", "ref2", "live", "relive", "last"}
    RefOf <- MCRefOf
    TargetRef <- MCTargetRef
    Family = {"family"}
    FamilyOf <- MCFamilyOf
    ObservedAt <- MCObservedAt
    Order <- MCOrders
    Row = {"r1"}
    RemoteSnapshot <- MCSnapshots
    BootstrapSnapshots <- MCBootstrapSnapshots
    LiveFamily = "family"
    LiveFact <- MCLiveFact
    InputFact <- MCInputs
    JournalSeq = {1, 2, 3, 4, 5}
    MaxVersion = 1
    MaxQueue = 2
    MaxInputs = 3
    MaxCrashes = 2
INVARIANTS
    LogRebuildsStore
    InputsAreKept
    FullSetNeverLags
    LiveRecordIsPending
    SettledBetweenSubmits
    PublishedIsCurrent
    OnlyEmptyAccountsReconcile
CHECK_DEADLOCK FALSE
