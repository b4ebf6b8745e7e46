\* One stream, two concurrent callers (UpsertStream, StartStream, ... racing).
CONSTANTS
    s1 = s1
    s2 = s2
    r1 = r1
    r2 = r2
    None = None
    Ids <- SharedIds
    Callers = {r1, r2}
    CallerIds <- SharedCallers
    Seqs = {0, 1}
    MaxSeq = 2
    MaxInst = 3
    PageSize = 2
    ConcurrentClose = FALSE
SPECIFICATION Spec
INVARIANT NoOrphanStream
VIEW StateView
