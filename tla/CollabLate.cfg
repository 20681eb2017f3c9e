\* The 8 second timer runs out once while messages are still under way, and a
\* connection is lost; every browser sends up to four diffs.
CONSTANTS
    ann = ann
    bob = bob
    Client = {ann, bob}
    Communicates = {ann, bob}
    History = 1
    MaxEdits = 2
    MaxDrops = 1
    MaxSends = 4
    MaxEarly = 1
SPECIFICATION Spec
INVARIANTS Converged NothingDropped OnceUnlessUnheard
PROPERTIES RefinesShared
CHECK_DEADLOCK FALSE
