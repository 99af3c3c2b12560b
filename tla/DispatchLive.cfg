\* One probe under fair scheduling and a lossy network; one target with two
\* measurement types.
CONSTANTS
    t1 = t1
    t2 = t2
    addr = addr
    icmp = icmp
    dns = dns
    None = None
    NoAddress = NoAddress
    TargetID = {t1}
    Address = {addr}
    ProbeType = {icmp, dns}
    Param = {d, c}
    Default = d
    Seed <- SeedOne
    Probe = {p}
    Legacy = {}
    MaxChange = 3
SPECIFICATION FairSpec
PROPERTIES
    Converges
    ReportsAgain
