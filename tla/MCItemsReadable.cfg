CONSTANTS
    Tab = {t1, t2}
    Item = {i1, i2}
    Text = {x, y}
    MaxKey = 2
    MaxRev = 2
    MaxExports = 1
    MaxEnrols = 0
    None = None
SPECIFICATION Spec
SYMMETRY MCSymmetry
INVARIANT ItemsReadable
