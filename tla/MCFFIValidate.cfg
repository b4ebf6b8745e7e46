\* Every combination of unset, valid and invalid name, version and networkName.
CONSTANTS
    m1 = m1
    m2 = m2
    None = None
    Strings <- MCStrings
    ValidNames <- MCValidNames
    MsgIDs <- MCMsgIDs
SPECIFICATION Spec
INVARIANT ValidateReportsFirstInvalidField
