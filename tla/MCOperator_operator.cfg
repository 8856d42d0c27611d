SPECIFICATION WorkflowSpec
CONSTANTS
    None = None
    Operator = {"operator", "other"}
    Revision = {"legacy", "canonical", "explicit", "found"}
    Discovered = {"found"}
    Known = {"found"}
    LegacyRevision = {"legacy"}
    CanonicalOf <- MCCanonicalOf
    ExplicitRevision = "explicit"
    FamiliesOf <- MCFamiliesOf
    StartFile <- MCFiles
    InitOverwrites = FALSE
    MaxCommand = 3
    MaxOverlapping = 2
    Uses <- MCUses
INVARIANTS
    RollbackGoesBack
    ApplyStartsReady
PROPERTIES
    RefinesControl
    CommandsEnd
    SessionsRelease
CHECK_DEADLOCK FALSE
