CONSTANTS
    h1 = h1
    h2 = h2
    Handlers = {h1}
    Names = {n1, n2}
    n1 = n1
    a1 = a1
    Accounts = {a1}
    Params <- MCParams
    ForeignIDs <- MCForeignIDs
    Endpoints <- MCEndpoints
    NoExit = NoExit
    NilParams = NilParams
    Malformed = Malformed
    NoBucket = NoBucket
    NoName = NoName
    NoID = NoID
    MaxRestarts = 0

SPECIFICATION Spec

INVARIANT RegistryBucketsExist
