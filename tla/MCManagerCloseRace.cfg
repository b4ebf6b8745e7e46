\* Two streams, each with its own caller; requests may still run while Close runs.
CONSTANTS
    s1 = s1
    s2 = s2
    r1 = r1
    r2 = r2
    None = None
    Ids <- SerialIds
    Callers = {r1, r2}
    CallerIds <- OwnCallers
    Seqs = {0, 1}
    MaxSeq = 2
    MaxInst = 3
    PageSize = 2
    ConcurrentClose = TRUE
SPECIFICATION Spec
INVARIANT CloseStopsAll
VIEW StateView
