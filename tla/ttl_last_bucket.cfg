\* An item whose expiration falls in seconds 55-59 of a minute is filed in
\* bucket 11, which CleanUp (timeToBucket(now) - 1 is at most 10) never takes.
CONSTANTS
    Keys = {k1}
    Conflicts = {c1}
    TTLs = {3}
    BucketSizeSecs = 5
    TickPhase = 2
    MaxTime = 75
    None = None
SPECIFICATION Spec
INVARIANT ExpiredRemovedInTime
