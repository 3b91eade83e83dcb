SPECIFICATION ShopSpec
CONSTANTS
    Rows <- MCRows
    Goods <- MCGoods
    Price <- MCPrice
    Cost <- MCCost
    Accounts <- MCAccounts
    Currencies <- MCCurrencies
    Manual <- MCManual
    AnyCurrency <- MCAny
    FixedTo <- MCFixedTo
    Sources <- MCSources
    None = None
    MaxLineMinor = 10
    Conns = {c1}
    MaxQty = 1
    MaxQuotes = 1
    MaxOrders = 2
    MaxInvoices = 1
    MaxPayment = 1
    MaxJournals = 4
    ReversedByHand <- RevenueByHand
    ChartAtStart <- Begun
    SeededAccounts <- Personal
INVARIANT StockFollowsOrders
INVARIANT LedgerFollowsOrders
INVARIANT RevenueOncePerSale
INVARIANT QuoteBecomesOneOrder
