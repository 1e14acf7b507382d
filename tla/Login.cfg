SPECIFICATION Spec
CONSTANTS
    Emails = {u1}
    Roles = {admin, operator}
    Flows = {f1, f2}
    Calls = {k1, k2}
    FailedLoginLimit = 2
    Lockout = 2
    PendingTtl = 1
    LimitedPath = "/login"
    Window = 1
    MaxPerWindow = 2
    MaxTime = 4
    MaxEdits = 1
    MaxRestarts = 1
    None = None
INVARIANTS GuessesSpaced AdmittedPerWindow StateUsedOnce
PROPERTY SessionIsWhoSignedIn
CHECK_DEADLOCK FALSE
