SPECIFICATION FairSpec
CHECK_DEADLOCK FALSE
CONSTANTS
    Commands = {"query", "resume", "detach", "kill"}
    Chunk = 63
    BUFMAX = 2
    MaxEvents = 1
    MaxDetach = 1
INVARIANTS LinkTypeOK ExactlyOnce
PROPERTIES Progress
