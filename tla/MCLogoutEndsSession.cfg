CONSTANTS
    User = {alice, bob}
    Req = {r1, r2}
    AccessTTL = 0
    RefreshTTL = 1
    MaxPairs = 3
    MaxTime = 2
    None = None
SPECIFICATION Spec
SYMMETRY MCSymmetry
INVARIANTS LogoutEndsSession
