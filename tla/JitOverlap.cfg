SPECIFICATION Spec
CONSTANTS
    ada = ada
    iris = iris
    morgan = morgan
    Users <- MCUsers
    InitialRole <- MCInitialRole
    InitialMembers <- MCInitialMembers
    Secrets = {s1}
    Calls = {c1, c2}
    Minutes = {1}
    NoCall = NoCall
    NoSnapshot = NoSnapshot
    MaxRequests = 2
    MaxClock = 2
    MaxAdminSteps = 1
SYMMETRY Symmetry
INVARIANTS OnePendingPerPair GrantedByQuorum
PROPERTY GrantNeverExtended
