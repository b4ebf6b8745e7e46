\* Start-up over a table with more rows than a page (pageSize scaled from 25 to 1).
CONSTANTS
    s1 = s1
    s2 = s2
    r1 = r1
    r2 = r2
    None = None
    Ids <- SerialIds
    Callers = {r1}
    CallerIds <- SerialCallers
    Seqs = {0, 1}
    MaxSeq = 2
    MaxInst = 3
    PageSize = 1
    ConcurrentClose = FALSE
SPECIFICATION Spec
PROPERTY StartupMaterialisesAll
VIEW StateView
