CONSTANTS
    t1 = t1
    t2 = t2
    p = p
    q = q
    Tab <- MCTab
    Name <- MCName
    Fallback <- MCFallback
    Form <- MCForm
    Password <- MCPassword
    Text <- MCText
    Params <- MCParams
    ClientDefault <- MCClientDefault
    ServerDefault <- MCServerDefault
    MaxRandom = 5
    None = None
SPECIFICATION Spec
SYMMETRY MCSymmetry
INVARIANTS
    TypeOK
    ZeroKnowledge
    PasswordOpens
