\* Short TTLs within the first minute: only a Set that runs between
\* CleanUp detaching a bucket and deleting its keys can make it remove a live item.
CONSTANTS
    Keys = {k1}
    Conflicts = {c1}
    TTLs = {2}
    BucketSizeSecs = 5
    TickPhase = 2
    MaxTime = 20
    None = None
SPECIFICATION Spec
PROPERTY NoPrematureRemoval
