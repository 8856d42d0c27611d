SPECIFICATION MCSpec
CONSTANTS
    None = None
    Focus = {"supervisor"}
    Fact <- MCFacts
    Kind <- MCKind
    PendingRef = {"ref1", "ref2", "live", "relive", "last"}
    RefOf <- MCRefOf
    TargetRef <- MCTargetRef
    Family = {"family"}
    FamilyOf <- MCFamilyOf
    ObservedAt <- MCObservedAt
    Order <- MCOrders
    Row = {"r1"}
    RemoteSnapshot <- MCSnapshots
    BootstrapSnapshots <- MCBootstrapSnapshots
    LiveFamily = "family"
    LiveFact <- MCLiveFact
    InputFact <- MCTwoInputs
    JournalSeq = {1, 2, 3}
    MaxVersion = 1
    MaxQueue = 2
    MaxInputs = 2
    MaxCrashes = 1
INVARIANTS
    ResumeIsAccepted
CHECK_DEADLOCK FALSE
