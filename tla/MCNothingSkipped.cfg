SPECIFICATION Spec
CONSTANTS
    None = None
    SubId = {id}
    Grant = {grant}
    Unparsable = {}
    Cursor <- Positions
    Secret <- Secrets
    Capacity = 2
    Conn = {c1, c2}
    MaxWakes = 4
    MaxRaises = 0
    MaxEvents = 2
    MaxFaults = 1
    MaxWaivers = 0
    MaxCrashes = 1
INVARIANTS
    NothingSkipped
