SPECIFICATION Spec
CONSTANTS
    Degrees = {4}
    KeysFor <- MCKeysFor
    ValuesOf <- MCValuesOf
    Absent = Absent
VIEW TreeView
CHECK_DEADLOCK FALSE
INVARIANTS
    ChildIsStillThere
