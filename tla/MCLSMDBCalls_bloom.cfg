SPECIFICATION CallsSpec
CONSTANTS
    v1 = v1
    v2 = v2
    big = big
    spaced = spaced
    cut = cut
    empty = empty
    EmptyString = empty
    Tombstone = Tombstone
    MinKey = 1
    MaxKey = 3
    Values <- MCValues
    FirstToken <- MCFirstToken
    ValuePrefixes <- MCValuePrefixes
    ValueBytes <- MCValueBytes
    SimpleHash <- MCSimpleHash
    Beyond <- MCBeyond
    KeyBytes = 4
    MaxMemtableBytes = 12
    SeqBase = 10
    BitsPerKey = 10
    HashCount = 2
    ClientValues = {v1, v2}
    EnableCompaction = TRUE
    Threshold = 1
    BloomModes = {TRUE, FALSE}
    Faults = {"create"}
    TornLines = FALSE
    MaxSeq = 3
    MaxFileId = 6
SYMMETRY ValueSymmetry
INVARIANTS
    GetAgreesWithRangeScan
    GetReturnsCurrent
PROPERTIES
    WritesAreAtomic
