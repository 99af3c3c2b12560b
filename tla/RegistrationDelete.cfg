\* A visitor and an administrator are enough to delete a building in use.
CONSTANTS
    Campus = {c1}
    Building = {b1}
    Group = {g1}
    ProbeID = {p1}
    Visitor = {v1}
    Admin = {a1}
    None = None
    MaxProbes = 1
SPECIFICATION Spec
PROPERTY BuildingInUseStays
