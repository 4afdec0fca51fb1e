SPECIFICATION Spec
CONSTANTS
    DecimalFractional = 1000
    Modulus = 4194304
    SecondsInYear = 1
    ChargePeriod = 1
    Accounts = {a1, a2, gov}
    Users = {a1, a2}
    Governance = gov
    PointsScale = 1
    InitialMultiplier = 500
    BorrowLimitRatio = 900
    Denoms = {common, other}
    CommonTokens = {common}
    FirstCommonToken = common
    Oracle = oracle
    Pairs <- OnePair
    LiquidationPrice = 850
    CollateralRatios = {800}
    Curve <- Steep
    ReserveFactor = 0
    Prices = {1000, 700, 1300}
    DepositAmounts = {1000}
    WithdrawAmounts = {1000}
    LoanAmounts = {901}
    RepaidAmounts = {450}
    TransferAmounts = {1000}
    SellLimits = {600}
    MaxTime = 0
    MaxDeposits = 1000
    MaxDebt = 901
    a1 = a1
    a2 = a2
    gov = gov
    common = common
    other = other
    oracle = oracle
SYMMETRY UserSymmetry
INVARIANTS
    TypeOK
    DebtsAreCounted
PROPERTIES
    SafeStaysSafe
    ShortfallNotDeepened
