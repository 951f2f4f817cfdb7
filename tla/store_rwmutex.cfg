\* Both store implementations with two goroutines; syncMap's Run callback
\* re-enters the map, lockedMap's does not.
CONSTANTS
    Procs = {p1, p2}
    Keys = {k1, k2}
    Vals = {v1}
    Impls = {"sync", "locked"}
    ReentrantImpls = {"sync"}
    Nil = Nil
    None = None
SPECIFICATION Spec
INVARIANTS TypeOK LockedRunSeesSnapshot
