SPECIFICATION Spec
CONSTANTS
    i1 = i1
    i2 = i2
    c1 = c1
    c2 = c2
    w1 = w1
    w2 = w2
    k1 = k1
    Runs = {r1, r2}
    Instances = {i1}
    Callers = {c1, c2}
    Workers = {w1, w2}
    Cancellers = {}
    Home <- HomeOne
    NoRun = NoRun
    NoWorker = NoWorker
    MaxActive = 1
    Redis = FALSE
    MaxCrashes = 1
INVARIANTS
    TypeOK
    EventOrder
    RegisteredWhileExecuting
    Overshoot
SYMMETRY OneServerSymmetry
