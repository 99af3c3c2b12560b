\* Two probes, two administrators and two overlapping pushes.
CONSTANTS
    ProbeID = {p1, p2}
    NoProbe = NoProbe
    PushReq = {r1, r2}
    AdminReq = {a1, a2}
    Overlapping = TRUE
    MaxClock = 1
    MaxToken = 2
SPECIFICATION Spec
SYMMETRY Symmetry
INVARIANTS
    TypeOK
    OnlyLatePushesLeaveEntries
    OnlyLatePushesLeaveBuckets
    RevokedStaysRevoked
PROPERTIES
    OnlyOvertakenPutsRegress
