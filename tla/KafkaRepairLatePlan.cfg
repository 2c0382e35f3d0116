\* A review that is still closing an evicted plan when the host invalidates.
SPECIFICATION Spec
CONSTANTS
    Ids = {1, 2}
    None = 0
    Total = 1
    MaxJobs = 2
    MaxFindings = 1
    MaxPlans = 1
    MaxReviews = 2
    Bounds <- LatePlan
PROPERTY
    InvalidationReleases
CHECK_DEADLOCK FALSE
