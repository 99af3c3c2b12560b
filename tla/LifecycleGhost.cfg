\* One push and one administrator are enough to leave a ghost entry.
CONSTANTS
    ProbeID = {p1}
    NoProbe = NoProbe
    PushReq = {r1}
    AdminReq = {a1}
    Overlapping = FALSE
    MaxClock = 0
    MaxToken = 1
SPECIFICATION Spec
INVARIANT DisabledProbeKeepsNoMeasurement
