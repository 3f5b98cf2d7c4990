SPECIFICATION FairSpec
CONSTANTS
    None = None
    SubId = {id}
    Grant = {grant}
    Unparsable = {}
    Cursor <- Positions
    Secret <- Secrets
    Capacity = 2
    Conn = {c1, c2}
    MaxWakes = 4
    MaxRaises = 0
    MaxEvents = 2
    MaxFaults = 2
    MaxWaivers = 0
    MaxCrashes = 0
PROPERTIES
    EveryEventHandled
