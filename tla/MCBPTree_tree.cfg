SPECIFICATION Spec
CONSTANTS
    Degrees = {3, 4}
    KeysFor <- MCKeysFor
    ValuesOf <- MCValuesOf
    Absent = Absent
VIEW TreeView
CHECK_DEADLOCK FALSE
INVARIANTS
    TypeOK
    ReadsFindEverything
    Balanced
    ParentsAreRight
    NothingLeaks
PROPERTIES
    ImplementsOrderedMap
