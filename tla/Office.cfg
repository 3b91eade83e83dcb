\* Recurring schedules, purchasing, reconciliation and assets, one at a time.
SPECIFICATION OfficeSpec
CONSTANTS
    c1 = c1
    c2 = c2
    None = None
    Foci = {"schedules", "purchases", "matches", "assets"}
    Conns = {c1, c2}
    Teams <- OneOrTwo
    Schedules = {"rent", "wages"}
    Invoicing = {"rent"}
    Start <- MCStart
    Rule <- MCRule
    Bounds <- MCBounds
    AsOf <- MCAsOf
    MaxLines = 1
    MaxRuns = 3
    Purchases = {"po"}
    PoLines = {"paper", "ink"}
    OrderOf <- MCOrderOf
    Places = {"shop", "store"}
    Quantities = {1, 2}
    Deliveries <- MCDeliveries
    Prices = {1, 2}
    Taxes = {1}
    SeededAccounts = {"payable"}
    MaxReceipts <- MCMaxReceipts
    MaxByHand = 1
    Statement = {"t1", "t2"}
    Counterparts = {"slip", "journal"}
    Fits <- AllFit
    MaxMatches = 3
    FixedAssets = {"van"}
    Terms <- MCTerms
    Months = {1, 2, 3, 4}
    MaxMembers = 2
    Labels = {"ann", "bob"}
    OwnedBy = {"till"}
    Spending = {"t"}
    AmountOf <- MCSpent
    AccountOf <- MCPaidFrom
    Operations = {"sell"}
    PackIds = {"seed", "local"}
    Seeds <- MCSeeds
    SeedKey = "seedkey"
    Keys = {"ada"}
    LegacySigner = "legacy"
    Versions = {1, 2}
    Merchants = {"shop"}
    CategoriesIn <- MCCategoriesIn
    RulesIn <- MCRulesIn
    LegacyIndex <- MCLegacyIndex
    Holdings = {"loan"}
    OpeningOf <- MCOpeningOf
    Days = {1, 2, 3}
    Amounts <- MCAmounts
    MaxBookings = 2
    Papers = {"receipt"}
    Readable = {"receipt"}
    Slips <- MCSlips
    BankLines = {"fee", "refund"}
    AmountOnBank <- MCOnBank
    Counters <- MCCounters
    VatRates = {0, 5000, 10000}
INVARIANTS
    OfficeTypeOK
    OncePerOccurrence
    NothingIsPassedOver
    InventoryMeetsGoods
    ReceiptsKeepTheirOrder
    MatchedOnce
    WrittenDownInOrder
PROPERTIES
    RunEnds
CHECK_DEADLOCK FALSE
