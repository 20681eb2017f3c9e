\* A writer and a reviewer with tracked changes do three things to comments.
CONSTANTS
    ann = ann
    bob = bob
    Client = {ann, bob}
    First = bob
    CommentOnly = {}
    OwnOnly = {bob}
    MaxActs = 3
SPECIFICATION Spec
INVARIANTS TypeOK Accounted SameComments OwnComments
PROPERTIES Arrives
CHECK_DEADLOCK FALSE
