\* Two goroutines: both Sets see c.used reach c.size and both halve the sketch.
CONSTANTS
    Procs = {p1, p2}
    Keys = {k1, k2}
    Vals = {v1}
    Costs = {1, 2}
    NumCounters = 2
    MaxCost = 2
    LfuSample = 5
    CounterMax = 15
    UsedModulus <- MCUsedModulus
    Nil = Nil
    NoCost = NoCost
    None = None
SYMMETRY MCSymmetry
SPECIFICATION Spec
INVARIANT SingleResetTrigger
