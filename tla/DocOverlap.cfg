\* Every overlap that the event loop allows.
CONSTANTS
    ann = ann
    bob = bob
    Conn = {ann, bob}
    Suspends = {"reading", "checked", "applied", "queued", "saved"}
    Rust = TRUE
    Kinds = {"steps", "titled", "broken"}
    SaveInterval = 2
    History = 2
    MaxDiffs = 3
    MaxOpens = 2
SPECIFICATION Spec
INVARIANTS NoLeftover SoundUnlessRaced
PROPERTIES HandlersFinish
CHECK_DEADLOCK FALSE
