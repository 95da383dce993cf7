SPECIFICATION Spec
CONSTANTS
    o1 = o1
    o2 = o2
    o3 = o3
    Objects <- MCObjects
    Max = 2
    NULL = NULL
    WILD = WILD
    ForeignHoles = {0, 1, 3}
    MaxIndex = 5
SYMMETRY Symmetry
INVARIANTS
    TypeOK
    SlotOwned
    FilledExact
PROPERTY
    DirectorySpec
