SPECIFICATION Spec
CONSTANTS
    small = small
    big = big
    Keys <- MCKeys
    Values = {small, big}
    Tombstone = Tombstone
    KeyBytes = 4
    ValueBytes <- MCValueBytes
    max_memtable_bytes = 12
    Int64Max = 9
    MaxWrites = 5
CHECK_DEADLOCK FALSE
INVARIANTS
    TypeOK
    GetAgreesWithRangeScan
    MemTablesAreFull
PROPERTIES
    ImplementsOrderedMap
