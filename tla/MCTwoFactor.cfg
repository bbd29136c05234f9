CONSTANTS
    Req = {r1, r2}
    Slot = {s1}
    MaxGen = 3
    Challenge = {h1, h2}
    None = None
SPECIFICATION Spec
SYMMETRY MCSymmetry
INVARIANTS TypeOK CodeSpentOnce ChallengeOpensOnce OneCodeSet
