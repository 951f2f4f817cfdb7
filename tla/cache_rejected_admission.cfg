\* One goroutine, costs 1 and 2: a Set rejected after evicting leaves the victims in the store.
CONSTANTS
    Procs = {p1}
    Keys = {k1, k2, k3}
    Vals = {v1}
    Costs = {1, 2}
    NumCounters = 3
    MaxCost = 3
    LfuSample = 5
    CounterMax = 15
    UsedModulus <- MCUsedModulus
    Nil = Nil
    NoCost = NoCost
    None = None
SYMMETRY MCSymmetry
SPECIFICATION Spec
INVARIANT StoreTrackedWhenIdle
