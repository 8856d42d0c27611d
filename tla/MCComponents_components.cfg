SPECIFICATION MCSpec
CONSTANTS
    None = None
    MaxSeen = 4
    DirtySets <- MCDirtySets
    MaxVersion = 4
    Fact <- MCFacts
    Kind <- MCKind
    PendingRef = {"ref1", "ref2"}
    RefOf <- MCRefOf
    TargetRef <- MCRefOf
    Family = {"family1", "family2"}
    FamilyOf <- MCFamilyOf
    ObservedAt <- MCObservedAt
    JournalSeq = {0, 1, 2, 3}
    Order = {}
    Row = {}
    RemoteSnapshot = {}
    Process = {p1, p2}
    p1 = p1
    p2 = p2
    Config <- MCConfigs
    DefaultScope = "default"
    MaxRuns = 3
    MaxOverlapping = 2
    RawConfigs <- MCRawConfigs
    ConfigFamily = {"a"}
    Asset = {"a"}
    MaxFrames = 2
    MaxTime = 5
    MaxGap = 1
    MaxReports = 3
    DiscoveredFamily = {"f", "g", ""}
    MaxDiscoveryRuns = 2
INVARIANTS
    OrderIndependent
    LatestDirtyKept
    CoveredIsClean
    AtMostOneLiveRecord
    LiveConfigLoads
    EventsDeliveredOnce
    OneReportPerOutage
    AdoptableIsVetted
PROPERTIES
    StableNeverRegresses
    RecordedNeverResubmitted
    ProgressNeverRegresses
    SessionsEnd
CHECK_DEADLOCK FALSE
