\* Two browsers, one connection lost; the server keeps one diff, so that a
\* client may be too far behind and has to fetch the document.
CONSTANTS
    ann = ann
    bob = bob
    Client = {ann, bob}
    Communicates = {ann, bob}
    History = 1
    MaxEdits = 2
    MaxDrops = 1
    MaxSends = 6
    MaxEarly = 0
SPECIFICATION Spec
INVARIANTS TypeOK
PROPERTIES Arrives
CHECK_DEADLOCK FALSE
