CONSTANTS
    AutoLockMs = 3
    NoTimer = NoTimer
SPECIFICATION AutoLockFairSpec
INVARIANT IdleBounded
PROPERTY LeftAloneLocks
