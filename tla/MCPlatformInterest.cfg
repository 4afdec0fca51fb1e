SPECIFICATION Spec
CONSTANTS
    DecimalFractional = 1000
    Modulus = 4194304
    SecondsInYear = 1
    ChargePeriod = 1
    Accounts = {a1, a2, gov}
    Users = {a1, a2}
    Governance = gov
    PointsScale = 1
    InitialMultiplier = 500
    BorrowLimitRatio = 900
    Denoms = {common, other}
    CommonTokens = {common, other}
    FirstCommonToken = common
    Oracle = oracle
    Pairs <- OnePair
    LiquidationPrice = 850
    CollateralRatios = {800}
    Curve <- Steep
    ReserveFactor = 200
    Prices = {1000}
    DepositAmounts = {1000}
    WithdrawAmounts = {300}
    LoanAmounts = {700}
    RepaidAmounts = {350}
    TransferAmounts = {}
    SellLimits = {}
    MaxTime = 1
    MaxDeposits = 1000
    MaxDebt = 700
    a1 = a1
    a2 = a2
    gov = gov
    common = common
    other = other
    oracle = oracle
SYMMETRY UserSymmetry
INVARIANTS
    CommonTokenAgrees
    QueriesAreGranted
PROPERTIES
    SafeStaysSafe
    ShortfallNotDeepened
