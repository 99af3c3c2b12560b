\* Two browsers, two requests and two session IDs for a map of one, under fair scheduling.
CONSTANTS
    Password = {p1, p2}
    Configured = {c1}
    None = None
    SessionID = {s1,s2}
    Browser = {b1, b2}
    Req = {r1, r2}
    MaxSessions = 1
    TTL = 1
    MaxStarts = 2
SPECIFICATION FairSpec
PROPERTIES
    LoginGetsThrough
INVARIANTS
    TypeOK
    ReadPasswordWorks
    ResetLocksOut
    LiveUntilEnded
