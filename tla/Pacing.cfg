\* Three values of RATE_LIMIT below, at and above the cycles; two pushes under way.
CONSTANTS
    IntMax = 31
    Form <- forms
    Default <- default
    None = None
    MinInterval = 1
    RateLimit = {2, 3, 4}
    Burst = 3
    MaxSent = 2
    Unit = 20
    Tolerance = 2
    Grain = 4
    Time = {0, 1}
    Status = {101, 200, 302, 404, 500}
SPECIFICATION FairSpec
INVARIANTS
    TypeOK
    PacedIsAdmitted
    RoundsDoNotOverlap
    HonestReportsPass
    MismatchesFail
PROPERTIES
    RefusedIsAdmittedAgain
