SPECIFICATION Spec
CONSTANTS
    DecimalFractional = 4
    Modulus = 16
    Accounts = {a1, a2, market}
    Controller = market
    PointsScale = 3
    InitialMultiplier = 4
    Amounts = {1, 2, 3}
    Ratios = {9}
    MaxSupply = 3
    MaxFunds = 4
    a1 = a1
    a2 = a2
    market = market
SYMMETRY HolderSymmetry
INVARIANTS
    TypeOK
    SupplyIsSum
    PointsConserved
    NeverOverpaid
    RewardsSolvent
PROPERTIES
    RewardsStayWithEarner
    EagerSpec
