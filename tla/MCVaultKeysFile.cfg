CONSTANTS
    Tab = {t1}
    Item = {i1, i2}
    Text = {x, y}
    MaxKey = 2
    MaxRev = 3
    MaxExports = 1
    MaxEnrols = 1
    None = None
SPECIFICATION Spec
SYMMETRY MCSymmetry
INVARIANT KeysOnceInstalled
PROPERTY RotationKeepsText
