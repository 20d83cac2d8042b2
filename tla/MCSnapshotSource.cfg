CONSTANTS
    Parts = {index, blocks}
    MaxRuns = 2
    MaxVersion = 3
SYMMETRY Symmetry
SPECIFICATION Spec
CHECK_DEADLOCK FALSE
INVARIANTS TypeOK OneArchive OpenedIsPublished
