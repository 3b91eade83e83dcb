\* Does every period of an asset's life write something off?
SPECIFICATION OfficeSpec
CONSTANTS
    c1 = c1
    c2 = c2
    None = None
    Foci = {"assets"}
    Conns = {c1, c2}
    Teams <- One
    Schedules = {}
    Invoicing = {}
    Start <- MCStart
    Rule <- MCRule
    Bounds <- MCBounds
    AsOf <- MCAsOf
    MaxLines = 1
    MaxRuns = 0
    Purchases = {}
    PoLines = {}
    OrderOf <- MCOrderOf
    Places = {}
    Quantities = {}
    Deliveries = {}
    Prices = {}
    Taxes = {}
    SeededAccounts = {}
    MaxReceipts <- MCMaxReceipts
    MaxByHand = 0
    Statement = {}
    Counterparts = {}
    Fits <- AllFit
    MaxMatches = 0
    FixedAssets = {"van"}
    Terms <- MCLingering
    Months = {1, 2, 3, 4, 5, 6}
    MaxMembers = 2
    Labels = {"ann", "bob"}
    OwnedBy = {"till"}
    Spending = {"t"}
    AmountOf <- MCSpent
    AccountOf <- MCPaidFrom
    Operations = {"sell"}
    PackIds = {"seed", "local"}
    Seeds <- MCSeeds
    SeedKey = "seedkey"
    Keys = {"ada"}
    LegacySigner = "legacy"
    Versions = {1, 2}
    Merchants = {"shop"}
    CategoriesIn <- MCCategoriesIn
    RulesIn <- MCRulesIn
    LegacyIndex <- MCLegacyIndex
    Holdings = {"loan"}
    OpeningOf <- MCOpeningOf
    Days = {1, 2, 3}
    Amounts <- MCAmounts
    MaxBookings = 2
    Papers = {"receipt"}
    Readable = {"receipt"}
    Slips <- MCSlips
    BankLines = {"fee", "refund"}
    AmountOnBank <- MCOnBank
    Counters <- MCCounters
    VatRates = {0, 5000, 10000}
INVARIANTS
    NoPeriodStands
CHECK_DEADLOCK FALSE
