SPECIFICATION Spec
CONSTANTS
    Ttl = 12
    Floor = 1
    NoExpiry = 12
    Window = 60
    Skews <- MCSkews
    Latencies <- MCLatencies
    Delays = {0, 1}
    MaxTime = 21
    MaxFaults = 2
INVARIANTS
    TypeOK
    GrantIsKept
    NeverSpins
    OutageIsBounded
