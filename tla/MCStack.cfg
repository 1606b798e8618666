CONSTANTS
    PROCCNT = 2
    POOLSIZE = 2
    MAXKUSEG = 3
    KUSEG2LAST = 9
    TapeLen <- TwoTapes
    Touches <- StackTouches
    Stores <- StackStores
    String <- AString
    Calls <- StackCalls
SPECIFICATION Spec
PROPERTY ServedIsValid
