SPECIFICATION Spec
CONSTANTS
    AccessRequests = {}
    Edits = {e1, e2}
    AdminWrites = {}
    Logins = {}
    Faults = {"unwritten"}
    MaxCrashes = 0
    NoHash = NoHash
    NoSnapshot = NoSnapshot
INVARIANT FailedLeavesNothing
CHECK_DEADLOCK FALSE
