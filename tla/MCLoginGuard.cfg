CONSTANTS
    Email = {alice}
    IP = {home}
    Attempt = {a1, a2}
    IPLimit = 3
    AcctLimit = 2
    Window = 2
    Threshold = 2
    LockTime = 2
    None = None
SPECIFICATION Spec
INVARIANTS TypeOK AccountBudget LockJustified
PROPERTIES LockEnds
