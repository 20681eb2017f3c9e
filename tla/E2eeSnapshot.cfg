\* A snapshot is asked for, and a diff arrives while it is encrypted.
CONSTANTS
    ann = ann
    bob = bob
    Client = {ann, bob}
    Owner = bob
    First = ann
    Typists = {ann, bob}
    Awaits = {"snapshot"}
    Every = 2
    History = 3
    MaxEdits = 2
    MaxEvents = 0
SPECIFICATION Spec
INVARIANTS SnapshotCovers
CHECK_DEADLOCK FALSE
