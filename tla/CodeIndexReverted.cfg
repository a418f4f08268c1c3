SPECIFICATION Spec
CONSTANTS
    Paths <- OneFile
    Tree <- ChangedBack
    Size <- SameSize
    Indexers = {w1}
    Pushers = {u1}
    Redis = FALSE
    MaxFaults = 0
CHECK_DEADLOCK FALSE
INVARIANTS
    CurrentIsExact
