SPECIFICATION Spec
CONSTANTS
    None = None
    Patterns = {"p", "q"}
    Held <- MCHeld
    MinValue = 2
    MinShape = 2
    MaxArg = 3
    ArgRuleLists <- MCArgRuleLists
    Arguments <- MCArguments
    RespRuleLists <- MCRespRuleLists
    Responses <- MCResponses
    Strings <- MCStrings
    Positions <- MCPositions
CHECK_DEADLOCK FALSE
INVARIANTS
    EncodedIsCaught
    NothingMatchedDelivered
    ExecutedIsLogged
    NothingHeldInLog
    WholeValueGoes
    UserinfoGone
