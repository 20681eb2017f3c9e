\* Other handlers run while the access rights are read and while titles and images are stored.
CONSTANTS
    ann = ann
    bob = bob
    Conn = {ann, bob}
    Suspends = {"checked", "applied"}
    Rust = FALSE
    Kinds = {"steps", "notes", "broken"}
    SaveInterval = 2
    History = 2
    MaxDiffs = 3
    MaxOpens = 2
SPECIFICATION Spec
INVARIANTS TypeOK NoLostEdit RowIsAState OneCopy SessionStays NoLeftover SavedIsInDb
PROPERTIES HandlersFinish
CHECK_DEADLOCK FALSE
