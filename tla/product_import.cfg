SPECIFICATION Spec
CONSTANTS
    fa = fa
    fb = fb
    n1 = n1
    n2 = n2
    c1 = c1
    None = None
    Files = {fa, fb}
    Rows <- MCRows
    ChunkSize = 1
    MaxHistory = 1
    MaxStarted = 2
INVARIANTS
    TypeOK
    
    NoDeadEnd
    EntriesComplete
    CodedRowOnce
