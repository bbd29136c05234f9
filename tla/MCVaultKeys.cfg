CONSTANTS
    Tab = {t1, t2}
    Item = {i1}
    Text = {x, y}
    MaxKey = 3
    MaxRev = 2
    MaxExports = 0
    MaxEnrols = 0
    None = None
SPECIFICATION Spec
SYMMETRY MCSymmetry
INVARIANTS TypeOK ListMoved
