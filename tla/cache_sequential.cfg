\* One goroutine, unit costs: the store and the policy agree between calls.
CONSTANTS
    Procs = {p1}
    Keys = {k1, k2, k3}
    Vals = {v1}
    Costs = {1}
    NumCounters = 3
    MaxCost = 2
    LfuSample = 5
    CounterMax = 15
    UsedModulus <- MCUsedModulus
    Nil = Nil
    NoCost = NoCost
    None = None
SYMMETRY MCSymmetry
SPECIFICATION Spec
INVARIANTS TypeOK StoreTrackedWhenIdle
