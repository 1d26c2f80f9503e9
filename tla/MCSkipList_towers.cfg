SPECIFICATION FairSpec
CONSTANTS
    Keys <- MCKeys
    v1 = v1
    empty = empty
    Values = {v1}
    Tombstone = Tombstone
    EmptyString = empty
    Null = Null
    max_level = 2
    GivenSeqs = {3}
    Int64Max = 9
    MaxTowers = 3
INVARIANTS
    TypeOK
    LevelsLinked
    AnswersAscend
    EverythingFreed
PROPERTIES
    ImplementsMemTable
    CallsReturn
CHECK_DEADLOCK FALSE
