\* One request at a time; a suspend inside UpsertStream or ResetStream may
\* return an error (context done, grace timeout).
CONSTANTS
    s1 = s1
    s2 = s2
    r1 = r1
    r2 = r2
    None = None
    Ids <- SerialIds
    Callers = {r1}
    CallerIds <- SerialCallers
    Seqs = {0, 1}
    MaxSeq = 2
    MaxInst = 3
    PageSize = 2
    ConcurrentClose = FALSE
SPECIFICATION Spec
INVARIANT StatusConsistent
VIEW StateView
