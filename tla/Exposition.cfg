\* One probe with one push under way at a time, an administrator, and one reader that
\* scrapes and asks for the page in turn.  No symmetry: liveness is checked.
CONSTANTS
    ProbeID = {p1}
    NoProbe = NoProbe
    PushReq = {r1}
    AdminReq = {a1}
    Overlapping = FALSE
    MaxClock = 2
    MaxToken = 2
    Scraper = {g1}
    Pager = {g1}
    Threshold = 0
SPECIFICATION FairExpoSpec
INVARIANTS
    PassesTellOfOneInstant
PROPERTIES
    ExposedLastSeenNeverRegresses
    OutlivedEntryGoes
