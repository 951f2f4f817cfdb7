\* Every pair of a user string and a default string of up to two segments,
\* over two option names in two spellings and five values (empty, "1",
\* "010", "-1", "0x1"): duplicates, unknown options, blank and bare
\* segments and a nil receiver all occur.
CONSTANTS
    Names = {n1, n2}
    Spellings = {lower, upper}
    Vals <- MCVals
    Blank = Blank
    Bare = Bare
    MaxSegs = 2
    None = None
SPECIFICATION Spec
INVARIANTS TypeOK MergeMatchesReference
CHECK_DEADLOCK FALSE
