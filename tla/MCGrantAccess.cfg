CONSTANTS
    Requests <- MCRequests
    Inputs <- MCGrantInputs
    UintText <- MCUintText
    ParseError = ParseError
    NilIP = NilIP
    Malformed = Malformed
    Now = Now

SPECIFICATION GrantSpec

\* A grant replies once; a replied call has no further step.
CHECK_DEADLOCK FALSE

INVARIANT GrantTypeOK
INVARIANT AccessParseMatchesPolicy
INVARIANT GrantMatchesPolicy
