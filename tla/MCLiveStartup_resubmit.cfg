SPECIFICATION StartupSpec
CONSTANTS
    None = None
    Fact <- MCFacts
    Kind <- MCKind
    PendingRef = {"ref1", "ref2"}
    RefOf <- MCRefOf
    TargetRef <- MCTargetRef
    Family = {"family1", "family2"}
    FamilyOf <- MCFamilyOf
    ObservedAt <- MCObservedAt
    JournalSeq = {0, 1, 2, 3}
    Order = {}
    Row = {}
    RemoteSnapshot = {}
    Process = {p1}
    p1 = p1
    Config <- MCTwoConfigs
    DefaultScope = "default"
    MaxRuns = 2
    MaxOverlapping = 2
INVARIANTS
    RestartNeverResubmits
CHECK_DEADLOCK FALSE
