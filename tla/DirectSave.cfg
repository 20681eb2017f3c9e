\* Two pages, one edit, one request or answer lost.
CONSTANTS
    p1 = p1
    p2 = p2
    Page = {p1, p2}
    MaxEdits = 1
    MaxLost = 1
    MaxStays = 1
SPECIFICATION Spec
INVARIANTS TypeOK AckedIsStored
PROPERTIES NothingOverwritten Arrives
CHECK_DEADLOCK FALSE
