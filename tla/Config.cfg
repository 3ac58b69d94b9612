SPECIFICATION MCSpec
CONSTANTS
    NumberOf <- MCNumberOf
    Numeral <- MCNumeral
    SplitAt <- MCSplitAt
    Joined <- MCJoined
    IsPath <- MCIsPath
    IsUrl <- MCIsUrl
    IsDuration <- MCIsDuration
    NoCond <- MCNoCond
    Condition <- MCCondition
    ConditionText <- MCConditionText
    Meaning <- MCMeaning
    Lines <- MCLines
    MAX_IFMODULE_DEPTH = 1
    MAX_IF_DEPTH = 2
    MaxOpen = 3
    MaxLeaves = 2
    MaxStray = 1
    Budget = 4
INVARIANTS ParserTypeOK TreeAsWritten PrintsBack
PROPERTY Contained
CHECK_DEADLOCK FALSE
