SPECIFICATION Spec
CONSTANTS
    None = None
    s1 = s1
    s2 = s2
    e1 = e1
    e2 = e2
    k1 = k1
    k2 = k2
    k3 = k3
    k4 = k4
    Secret = {s1, s2}
    SubId = {id}
    Grant = {}
    Cursor = {k1, k2, k3, k4, k5}
    ResponseCursor = {k5}
    Event = {e1, e2}
    Conn = {c1, c2}
    Request <- Events
    Capacity = 2
    MaxWakes = 4
    MaxRaises = 0
INVARIANTS
    ScheduledOnce
