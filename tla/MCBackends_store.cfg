SPECIFICATION MCSpec
CONSTANTS
    None = None
    Fact <- MCFacts
    Kind <- MCKind
    PendingRef = {"ref1", "ref2"}
    RefOf <- MCRefOf
    TargetRef <- MCTargetRef
    Family = {"family"}
    FamilyOf <- MCFamilyOf
    ObservedAt <- MCObservedAt
    JournalSeq = {1, 2, 3, 4, 5}
    Order <- MCOrders
    Row = {"r1"}
    RemoteSnapshot <- MCSnapshots
    CatalogSession = {s1, s2}
    CatalogRecord <- MCIdentifiers
    SignedOrder <- MCSignedOrders
    AccountRow <- MCAccountRows
    FamilyWriter = {w1, w2}
    FamilyChange <- MCFamilyChanges
    FamilySnapshot <- MCFamilySnapshots
    MaxJournal = 3
    BatchWriter = {"w1", "w2"}
    ProcessOf <- MCProcessOf
    ShadowBatch <- MCBatches
    RecordedLiveAttempt <- MCLiveAttempts
    LiveFollowUp <- MCFollowUps
    VerifyAsk <- MCAsks
    VerifySession = {"r1", "r2"}
    RecentLimit = 1
    Caller = {c1, c2}
    Listing <- MCListings
    PageLimit = 2
    MaxRefreshes = 2
    MaxListings = 1
    ExecutionInput <- MCExecutionInputs
    MaxExecutions = 2
CONSTRAINT
    MCOneConcern
INVARIANTS
    StoreTypeOK
    JournalConsistent
    HealthyHasNoPending
    BackfillNeverLost
    AnchoredFullSetIsCurrent
    IdentifierMapLoads
    AcknowledgedIsStored
    RowIsLatestJournalled
    SummaryHasMemberVectors
    ShadowEvidenceIsWhole
    RevisionsFollowListing
    QuietSnapshotIsWhole
    ReceiptsMatchVenue
    RecoveryIsFinal
PROPERTIES
    VersionAdvancesWithSeq
    OpenOrdersNeverVanish
CHECK_DEADLOCK FALSE
