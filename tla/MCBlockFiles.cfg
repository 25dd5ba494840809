SPECIFICATION Spec
CONSTANTS
    b0 = b0
    b1 = b1
    b2 = b2
    c1 = c1
    none = none
    Block = {b1, b2, c1}
    Genesis = b0
    Parent <- MCParent
    Size <- MCSize
    UndoSize <- MCUndoSize
    MAX_BLOCKFILE_SIZE = 3
    MaxFile = 2
    MaxFailures <- MCMaxFailures
    None = none
INVARIANTS
    FilesAreConsistent
    ChainIsRecoverable
PROPERTIES
    RecordsStay
CHECK_DEADLOCK FALSE
