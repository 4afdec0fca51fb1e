SPECIFICATION Spec
CONSTANTS
    CommonToken = common
    common = common
    DecimalFractional = 1000
    Modulus = 1048576
    SecondsInYear = 2
    ChargePeriod = 2
    Accounts = {a1, a2, gov}
    Users = {a1, a2}
    Governance = gov
    PointsScale = 1
    InitialMultiplier = 500
    BorrowLimitRatio = 900
    Amounts = {100}
    TransferAmounts = {}
    SellLimits = {}
    Prices = {}
    LiquidationPrice = 900
    Curves <- OneCurve
    Curve <- Steep
    ReserveFactors = {0}
    ReserveFactor = 0
    CollateralRatios = {600}
    CollateralRatio = 600
    Caps = {{}}
    Cap <- NoCap
    SurplusRepayments = FALSE
    StartTime = 1
    MaxTime = 7
    MaxDeposits = 300
    MaxDebt = 200
    a1 = a1
    a2 = a2
    gov = gov
SYMMETRY UserSymmetry
INVARIANTS
    TotalIsSumOfDebts
    ClockAligned
    InterestBounded
    PreviewMatchesCharge
PROPERTIES
    NoUnbackedClaims
    DebtsMoveWithCash
    OthersMoveNoDebt
    OthersMoveNoClaim
CHECK_DEADLOCK FALSE
