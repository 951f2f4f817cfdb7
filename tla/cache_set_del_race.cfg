\* Two goroutines, unit costs: interleaved Set and Del leave store and policy disagreeing.
CONSTANTS
    Procs = {p1, p2}
    Keys = {k1, k2}
    Vals = {v1}
    Costs = {1}
    NumCounters = 2
    MaxCost = 2
    LfuSample = 5
    CounterMax = 15
    UsedModulus <- MCUsedModulus
    Nil = Nil
    NoCost = NoCost
    None = None
SYMMETRY MCSymmetry
SPECIFICATION Spec
INVARIANT StoreTrackedWhenIdle
