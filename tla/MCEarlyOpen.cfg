CONSTANTS
    Parts = {index, blocks}
    MaxRuns = 1
    MaxVersion = 1
SYMMETRY Symmetry
SPECIFICATION Spec
CHECK_DEADLOCK FALSE
INVARIANT OpenedWhole
