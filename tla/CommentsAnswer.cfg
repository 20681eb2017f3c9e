\* A commentator answers a comment.
CONSTANTS
    ann = ann
    bob = bob
    Client = {ann, bob}
    First = ann
    CommentOnly = {bob}
    OwnOnly = {}
    MaxActs = 1
SPECIFICATION Spec
PROPERTIES Arrives
CHECK_DEADLOCK FALSE
