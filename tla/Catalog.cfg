\* One building between two campuses and two groups, two administrators, and two
\* visitors who race for the one probe that the cap allows.
CONSTANTS
    Campus = {c1, c2}
    Building = {b1}
    Group = {g1, g2}
    ProbeID = {p1}
    Visitor = {v1, v2}
    Admin = {a1, a2}
    None = None
    MaxProbes = 1
SPECIFICATION Spec
SYMMETRY Symmetry
INVARIANTS
    OvershootBounded
    BuildingsHaveCampus
    FiledAsEntered
PROPERTIES
    CampusDeletionStrandsNobody
    BuildingsNeverMove
    StrandedWereMissed
