\* The wheel during the first minute of the clock, where t.Second() and the
\* epoch second agree: every expiration the writer can give is filed in a
\* bucket the sweeper reaches in time.
CONSTANTS
    Keys = {k1, k2}
    Conflicts = {c1, c2}
    TTLs = {0, 3, 7}
    BucketSizeSecs = 5
    TickPhase = 2
    MaxTime = 44
    None = None
SPECIFICATION Spec
INVARIANTS TypeOK ExpiredRemovedInTime
