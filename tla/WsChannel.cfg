\* Both sides send at will, and the transport may lose messages.
CONSTANTS
    Keep = 2
    MaxUp = 3
    MaxDown = 2
    MaxLoss = 2
    MaxFlight = 4
    HasSendJson = TRUE
SPECIFICATION Spec
INVARIANTS TypeOK InOrder NumbersAreStable HandledOnceInOrder RejectedNeverHandled
PROPERTIES HandledAfterAllSeen DiffsAreSettled RefinesFeed
CHECK_DEADLOCK FALSE
