SPECIFICATION Spec
CONSTANTS
    None = None
    Secret = {s1}
    SubId = {id}
    Grant = {grant, garbage}
    Unparsable = {garbage}
    Cursor = {k1}
    Capacity = 1
    MaxFaults = 3
INVARIANTS
    TypeOK
    SecretBeforeChallenge
    OneCallAtATime
    ClosedMeansQuiet
    ClosedOwesNothing
PROPERTIES
    LostGrantComesBack
    ShutdownEnds
