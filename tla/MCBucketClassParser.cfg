CONSTANTS
    Inputs <- MCInputs
    IntText <- MCIntText
    ParseError = ParseError
    NilBool = NilBool
    NilMap = NilMap

SPECIFICATION Spec

\* The parser returns; a returned call has no further step.
CHECK_DEADLOCK FALSE

INVARIANT TypeOK
INVARIANT ParseMatchesPolicy
INVARIANT SpellingsResolve
