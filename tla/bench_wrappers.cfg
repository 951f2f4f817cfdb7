\* All six wrappers with two goroutines, three keys and hit-ratio tracking;
\* a capacity of two holds a recency order, and a third key makes lru.Add
\* evict.
CONSTANTS
    Procs = {p1, p2}
    Keys = {k1, k2, k3}
    Vals = {small, large}
    LargeVals = {large}
    Wrappers = {"ristretto", "basemutex", "bigcache", "fastcache", "freecache", "goburrow"}
    Track = TRUE
    Capacity = 2
    MaxSets = 3
    None = None
SPECIFICATION FairSpec
INVARIANTS TypeOK OnlyDelRaces
PROPERTY CallsReturn
\* log.Panic (bigcache Del of an absent key, freecache Set of a large entry)
\* ends the benchmark: those states have no successor.
CHECK_DEADLOCK FALSE
