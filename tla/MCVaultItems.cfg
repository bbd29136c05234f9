CONSTANTS
    alice = alice
    bob = bob
    laptop = laptop
    tablet = tablet
    User = {alice, bob}
    Device = {laptop, tablet}
    UserOf <- MCUserOf
    Item = {i1}
    Cipher = {c1, c2}
    Req = {r1, r2}
    MaxRevision = 3
    None = None
SPECIFICATION Spec
SYMMETRY MCSymmetry
INVARIANTS TypeOK ViewsGenuine AnswersFinal Isolation NoOrphans
PROPERTIES NoLostUpdate OwnerOnly Linearizable
