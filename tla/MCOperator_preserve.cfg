SPECIFICATION WorkflowSpec
CONSTANTS
    None = None
    Operator = {"operator"}
    Revision = {"legacy", "canonical", "explicit", "found"}
    Discovered = {"found"}
    Known = {"found"}
    LegacyRevision = {"legacy"}
    CanonicalOf <- MCCanonicalOf
    ExplicitRevision = "explicit"
    FamiliesOf <- MCFamiliesOf
    StartFile <- MCNewSmokeFile
    InitOverwrites = TRUE
    MaxCommand = 3
    MaxOverlapping = 2
    Uses <- MCUses
PROPERTIES
    InitKeepsAnchor
CHECK_DEADLOCK FALSE
