\* lockedMap whose Run callback reads the map it iterates, with a writer.
CONSTANTS
    Procs = {p1, p2}
    Keys = {k1}
    Vals = {v1}
    Impls = {"locked"}
    ReentrantImpls = {"locked"}
    Nil = Nil
    None = None
SPECIFICATION Spec
INVARIANT NoReadLockCycle
