SPECIFICATION Spec
CONSTANTS
    Items = {a1}
    Target = "production"
    BundleStatuses = {"pilot", "production"}
    Rulings = {"approved", "unfounded"}
    Absent = Absent
    MaxEdits = 1
    MaxReruns = 1
    MaxCommits = 1
INVARIANT ReleasesAsDocumented
CHECK_DEADLOCK FALSE
