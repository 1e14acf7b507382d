SPECIFICATION FairSpec
CONSTANTS
    AccessRequests = {r1, r2}
    Edits = {e1, e2}
    AdminWrites = {a1}
    Logins = {l1}
    Faults = {}
    MaxCrashes = 2
    NoHash = NoHash
    NoSnapshot = NoSnapshot
INVARIANTS DurableBase LedgerFollowsAudit AcknowledgedUnlessRefused AnswersHold
PROPERTIES ImplementsAtomicStore HooksDrain
CHECK_DEADLOCK FALSE
