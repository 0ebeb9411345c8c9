SPECIFICATION EditorSpec
CONSTANTS
    k1 = k1  k2 = k2
    CheckIds <- MCCheckIds
    MaxEdits = 4
    MaxLines = 6
    None = None
SYMMETRY Interchangeable
PROPERTY BackendFieldsAreKept
CHECK_DEADLOCK FALSE
