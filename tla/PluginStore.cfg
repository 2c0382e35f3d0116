\* Three versions: one runs, one is its rollback package, one is installed.
SPECIFICATION Spec
CONSTANTS
    Digests = {d1, d2, d3}
    None = None
    Removal = Removal
    MaxDeferrals = 2
    MaxCrashes = 2
    MaxDamages = 1
SYMMETRY VersionSymmetry
CHECK_DEADLOCK FALSE
INVARIANTS
    OnlyProvenIsRecorded
    PointersHavePackages
    RunningStands
