------------------------------ MODULE MCFFIValidate ------------------------------
EXTENDS FFIValidate

CONSTANTS m1, m2

\* "" (unset), two valid names, and a value that fails the name regexp
MCStrings == {"", "erc20", "v1.0", "-bad"}
MCValidNames == {"erc20", "v1.0"}
MCMsgIDs == {m1, m2}
=============================================================================
