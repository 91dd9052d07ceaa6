CONSTANTS
    Requests <- MCDisputedRequests
    Inputs <- MCDisputedInputs2
    UintText <- MCUintText
    ParseError = ParseError
    NilIP = NilIP
    Malformed = Malformed
    Now = Now

SPECIFICATION GrantSpec

\* A grant replies once; a replied call has no further step.
CHECK_DEADLOCK FALSE

INVARIANT GrantAsSpecified
