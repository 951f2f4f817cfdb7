\* Two goroutines, costs 1 and 2: the policy's accounting under interleaved Sets and Dels.
CONSTANTS
    Procs = {p1, p2}
    Keys = {k1, k2, k3}
    Vals = {v1}
    Costs = {1, 2}
    NumCounters = 3
    MaxCost = 2
    LfuSample = 5
    CounterMax = 1
    UsedModulus <- MCUsedModulus
    Nil = Nil
    NoCost = NoCost
    None = None
SYMMETRY MCSymmetry
SPECIFICATION Spec
INVARIANT CostAccounting
