SPECIFICATION StoreSpec
CONSTANTS
    None = None
    Fact <- MCJournalFacts
    Kind <- MCKind
    PendingRef = {"ref1", "ref2"}
    RefOf <- MCRefOf
    TargetRef <- MCTargetRef
    Family = {"family"}
    FamilyOf <- MCFamilyOf
    ObservedAt <- MCObservedAt
    JournalSeq = {1, 2, 3, 4}
    Order = {}
    Row = {}
    RemoteSnapshot <- MCJournalSnapshots
PROPERTIES
    DuplicateIsIdempotent
