SPECIFICATION Spec
CONSTANTS
    bank = bank
    sales = sales
    travel = travel
    Accounts <- MCAccounts
    Currencies <- MCCurrencies
    Sources <- MCSources
    Manual <- MCManual
    AnyCurrency <- MCAny
    FixedTo <- MCFixedTo
    SeededAccounts <- MCSeeded
    Drafts <- MCDrafts
    None = None
    MaxLineMinor = 2
    MaxDate = 2
    Conns = {c1, c2}
    MaxJournals = 3
    MaxAudit = 3
INVARIANT BooksBalanceAtEveryDate
INVARIANT ReversalsFormChains
INVARIANT ArchivedAccountStaysQuiet
INVARIANT AuditReplaysTheBook
PROPERTY ImplementsBook
