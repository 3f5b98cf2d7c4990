SPECIFICATION Spec
CONSTANTS
    None = None
    n1 = n1
    n2 = n2
    n3 = n3
    Secret = {secret}
    SubId = {sid}
    Grant = {grant}
    Cursor = {k}
    Unparsable = {}
    Capacity = 1
    Name = {n1, n2, n3}
    Configured = n1
    Offers <- MCOffers
    Session = {s}
    MaxFaults = 2
    MaxRequests = 5
INVARIANTS
    TypeOK
    AnswersAreUnderstood
    RequestsAreWelcome
    AsksForWhatIsOffered
