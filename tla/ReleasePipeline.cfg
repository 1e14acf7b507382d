SPECIFICATION MCSpec
CONSTANTS
    Items = {a1}
    Target = "production"
    BundleStatuses = {"production"}
    Rulings = {"approved", "unfounded"}
    Absent = Absent
    MaxEdits = 2
    MaxReruns = 1
    MaxCommits = 1
    EvidenceItems = {e1}
    Requested = {e1}
    HandEdits = TRUE
    Contents = {"missing", "placeholder", "final", "leaky"}
    MaxRemaining = 1
    MaxWorkEdits = 1
    MaxPasses = 2
INVARIANTS
    PackCopiesAgree
    CompleteIsAccepted
    AcceptedOnlyByHand
    ReleaseMeansReady
    ReleasedIsEvidenced
    ArchiveIsCurrent
    InOrderIsAccepted
PROPERTIES
    ChangeClosesGate
    ChangeClosesArchive
    WorkspaceIsUpstream
CHECK_DEADLOCK FALSE
