\* Anything may happen in every await but that of a decryption.
CONSTANTS
    ann = ann
    bob = bob
    Client = {ann, bob}
    Owner = bob
    First = ann
    Typists = {ann, bob}
    Awaits = {"sending", "snapshot", "rekey", "rekeying", "load"}
    Every = 2
    History = 1
    MaxEdits = 2
    MaxEvents = 1
SPECIFICATION Spec
INVARIANTS TypeOK Readable DiffsCover Complete
PROPERTIES Settles
CHECK_DEADLOCK FALSE
