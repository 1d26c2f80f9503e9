SPECIFICATION Spec
CONSTANTS
    v1 = v1
    v2 = v2
    big = big
    spaced = spaced
    cut = cut
    empty = empty
    EmptyString = empty
    Tombstone = Tombstone
    MinKey = 1
    MaxKey = 2
    Values <- MCValues
    FirstToken <- MCFirstToken
    ValuePrefixes <- MCValuePrefixes
    ValueBytes <- MCValueBytes
    SimpleHash <- MCSimpleHash
    Beyond <- MCBeyond
    KeyBytes = 4
    MaxMemtableBytes = 12
    SeqBase = 2
    BitsPerKey = 8
    HashCount = 2
    ClientValues = {v1}
    EnableCompaction = TRUE
    Threshold = 2
    BloomModes = {TRUE}
    Faults = {"write"}
    TornLines = TRUE
    MaxSeq = 4
    MaxFileId = 6
INVARIANTS
    NextSeqIsFresh
    ImmutablesDrained
PROPERTIES
    FlushLeavesFewFiles
    NoFileIsOverwritten
