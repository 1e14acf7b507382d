SPECIFICATION Spec
CONSTANTS
    Tenants = {t1, t2, t3}
    Vaults = {v1}
    Tokens = {k1, k2}
    FirstTenant = t1
    OldToken = k1
    Secrets = {s1}
    Top = Top
    Absent = Absent
    NoSnapshot = NoSnapshot
    MaxImport = 1
    MaxRaw = 3
    MaxChanges = 4
    MaxRestarts = 1
INVARIANTS HierarchySound RetiredNeverServes
CHECK_DEADLOCK FALSE
