CONSTANTS
    Tab = {t1, t2}
    Call = {c1, c2}
    MaxCalls = 2
    MaxPairs = 5
    None = None
SPECIFICATION Spec
CHECK_DEADLOCK FALSE
INVARIANTS TypeOK JarCurrent WaitersServed
PROPERTIES NeverSetBack CallsSettle
