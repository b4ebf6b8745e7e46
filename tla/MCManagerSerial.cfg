\* Requests for one stream serialised; storage errors and restarts anywhere.
CONSTANTS
    s1 = s1
    s2 = s2
    r1 = r1
    r2 = r2
    None = None
    Ids <- SerialIds
    Callers = {r1}
    CallerIds <- SerialCallers
    Seqs = {0, 1}
    MaxSeq = 2
    MaxInst = 3
    PageSize = 2
    ConcurrentClose = FALSE
SPECIFICATION Spec
INVARIANT NoOrphanStream
INVARIANT ResetHonoured
INVARIANT CloseStopsAll
 
VIEW StateView
