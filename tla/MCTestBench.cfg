SPECIFICATION Spec
CONSTANTS
    DecimalFractional = 10000
    Modulus = 1073741824
    SecondsInYear = 4
    PointsScale = 1000
    InitialMultiplier = 5000
    Accounts <- AccountNames
    Controller = "controller"
    Governance = "governance"
    Order <- TokenOrder
INVARIANT AssertionsHold
PROPERTY TestsComplete
CHECK_DEADLOCK FALSE
