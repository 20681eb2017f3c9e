\* A diff arrives while a save is under way.
CONSTANTS
    ann = ann
    bob = bob
    Conn = {ann, bob}
    Suspends = {"queued"}
    Rust = FALSE
    Kinds = {"steps"}
    SaveInterval = 3
    History = 3
    MaxDiffs = 2
    MaxOpens = 1
SPECIFICATION Spec
INVARIANTS NoLostEdit
CHECK_DEADLOCK FALSE
