\* A diff is accepted, its confirmation is lost with the connection.
CONSTANTS
    ann = ann
    bob = bob
    Client = {ann, bob}
    Communicates = {ann, bob}
    History = 1
    MaxEdits = 2
    MaxDrops = 1
    MaxSends = 6
    MaxEarly = 0
SPECIFICATION Spec
INVARIANTS OnceOnly
CHECK_DEADLOCK FALSE
