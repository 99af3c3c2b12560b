\* Three tokens for two probes, two handlers at once, and a slot that stands for
\* one tick.
CONSTANTS
    ProbeID = {p1, p2}
    Request = {r1, r2}
    NoProbe = NoProbe
    Vacant = Vacant
    Spent = Spent
    TTL = 1
    MaxToken = 3
    MaxClock = 3
SPECIFICATION Spec
SYMMETRY Symmetry
INVARIANTS
    PagesAreTrue
    CurrentTokenIsInReach
PROPERTIES
    ShownAtMostOnce
    ReplacedStaysReplaced
