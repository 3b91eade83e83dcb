SPECIFICATION Spec
CONSTANTS
    bank = bank
    sales = sales
    travel = travel
    Accounts <- MCAccounts
    Currencies <- MCCurrencies
    Sources <- MCSources
    Manual <- MCManual
    AnyCurrency <- MCAny
    FixedTo <- MCFixedTo
    SeededAccounts <- MCSeeded
    Drafts <- MCDrafts
    None = None
    MaxLineMinor = 2
    MaxDate = 2
    Conns = {c1}
    MaxJournals = 4
    MaxAudit = 5
INVARIANT ReversalParityIsLedgerEffect
INVARIANT OneUnreversedJournalPerSource
INVARIANT ClosedPeriodStaysClosed
