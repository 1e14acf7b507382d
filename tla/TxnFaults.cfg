SPECIFICATION Spec
CONSTANTS
    AccessRequests = {r1, r2}
    Edits = {e1, e2}
    AdminWrites = {}
    Logins = {l1}
    Faults = {"unwritten", "written", "ledger"}
    MaxCrashes = 1
    NoHash = NoHash
    NoSnapshot = NoSnapshot
INVARIANT AuditChainsLinked
CHECK_DEADLOCK FALSE
