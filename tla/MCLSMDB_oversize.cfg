SPECIFICATION Spec
CONSTANTS
    v1 = v1
    v2 = v2
    big = big
    spaced = spaced
    cut = cut
    empty = empty
    EmptyString = empty
    Tombstone = Tombstone
    MinKey = 1
    MaxKey = 2
    Values <- MCValues
    FirstToken <- MCFirstToken
    ValuePrefixes <- MCValuePrefixes
    ValueBytes <- MCValueBytes
    SimpleHash <- MCSimpleHash
    Beyond <- MCBeyond
    KeyBytes = 4
    MaxMemtableBytes = 12
    SeqBase = 10
    BitsPerKey = 4
    HashCount = 2
    ClientValues = {v1, big}
    EnableCompaction = TRUE
    Threshold = 1
    BloomModes = {FALSE}
    Faults = {}
    TornLines = FALSE
    MaxSeq = 3
    MaxFileId = 6
INVARIANTS
    ImmutablesDrained
