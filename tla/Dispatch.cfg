\* One probe that names its configuration and one that does not; two targets,
\* one of them seeded without an address; two sets of parameters.
CONSTANTS
    t1 = t1
    t2 = t2
    addr = addr
    icmp = icmp
    dns = dns
    None = None
    NoAddress = NoAddress
    TargetID = {t1, t2}
    Address = {addr}
    ProbeType = {icmp}
    Param = {d, c}
    Default = d
    Seed <- SeedTwo
    Probe = {p, l}
    Legacy = {l}
    MaxChange = 3
SPECIFICATION Spec
INVARIANTS
    BlamedWasRestored
    AcceptedWasInForceOrRestored
    RefusedWasOvertaken
