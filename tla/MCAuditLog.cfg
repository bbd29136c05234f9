CONSTANTS
    User = {alice, bob}
    Req = {r1, r2}
    Reader = {p}
    Limits = {1, 2, 3}
    MaxLimit = 2
    DefaultLimit = 1
    MaxEvents = 3
    MaxTime = 2
    None = None
SPECIFICATION Spec
SYMMETRY MCSymmetry
INVARIANTS TypeOK PagesGenuine PagesComplete
PROPERTY AppendOnly
CHECK_DEADLOCK FALSE
