SPECIFICATION Spec
CONSTANTS
    AccessRequests = {r1}
    Edits = {e1}
    AdminWrites = {}
    Logins = {}
    Faults = {}
    MaxCrashes = 0
    NoHash = NoHash
    NoSnapshot = NoSnapshot
INVARIANT AcknowledgedKept
CHECK_DEADLOCK FALSE
