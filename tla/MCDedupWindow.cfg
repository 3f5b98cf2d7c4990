SPECIFICATION Spec
CONSTANTS
    Event = {e1, e2, e3, e4}
    Capacity = 2
    MaxTouches = 6
INVARIANTS
    TypeOK
    OrderedByRecency
    ForgottenOnlyWhenPushedOut
