SPECIFICATION Spec
CONSTANTS
    CommonToken = common
    common = common
    DecimalFractional = 1000
    Modulus = 1048576
    SecondsInYear = 2
    ChargePeriod = 2
    Accounts = {a1, a2, gov}
    Users = {a1, a2}
    Governance = gov
    PointsScale = 1
    InitialMultiplier = 500
    BorrowLimitRatio = 900
    Amounts = {3}
    TransferAmounts = {3}
    SellLimits = {3}
    Prices = {500}
    LiquidationPrice = 900
    Curves <- KinkedOrFlat
    Curve <- Kinked
    ReserveFactors = {0, 500}
    ReserveFactor = 0
    CollateralRatios = {600, 700}
    CollateralRatio = 600
    Caps = {{}, {6}}
    Cap <- NoCap
    SurplusRepayments = TRUE
    StartTime = 1
    MaxTime = 3
    MaxDeposits = 6
    MaxDebt = 8
    a1 = a1
    a2 = a2
    gov = gov
SYMMETRY UserSymmetry
INVARIANTS
    TypeOK
    CTokenSupply
    TotalWithinDebts
PROPERTIES
    DebtsMoveWithCash
