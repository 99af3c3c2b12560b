\* A probe without a config_id measures the seeded target that has no address.
CONSTANTS
    t1 = t1
    t2 = t2
    addr = addr
    icmp = icmp
    dns = dns
    None = None
    NoAddress = NoAddress
    TargetID = {t1}
    Address = {addr}
    ProbeType = {icmp}
    Param = {d}
    Default = d
    Seed <- SeedBlank
    Probe = {l}
    Legacy = {l}
    MaxChange = 1
SPECIFICATION Spec
PROPERTY AddresslessIsUnknown
