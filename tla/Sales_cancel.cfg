SPECIFICATION Spec
CONSTANTS
    Rows <- MCRows
    Goods <- MCGoods
    Price <- MCPrice
    Cost <- MCCost
    Accounts <- MCAccounts
    Currencies <- MCCurrencies
    Manual <- MCManual
    AnyCurrency <- MCAny
    FixedTo <- MCFixedTo
    Sources <- MCSources
    None = None
    MaxLineMinor = 10
    Conns = {c1}
    MaxQty = 1
    MaxQuotes = 0
    MaxOrders = 1
    MaxInvoices = 0
    MaxPayment = 1
    MaxJournals = 6
    ReversedByHand <- AnyByHand
    ChartAtStart <- TradeAccounts
    SeededAccounts <- TradeAccounts
INVARIANT LiveSaleCanBeReversed
