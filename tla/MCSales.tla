------------------------------- MODULE MCSales -------------------------------
(***************************************************************************)
(* A shop that sells goods from stock and labour by the hour.              *)
(***************************************************************************)
EXTENDS Sales

MCRows == {"goods", "labour"}
MCGoods == {"goods"}
MCPrice == [r \in Rows |-> IF r = "goods" THEN 2 ELSE 1]
MCCost == [r \in Rows |-> IF r = "goods" THEN 1 ELSE 0]

MCAccounts == {"bank", "receivable", "revenue", "cogs", "inventory"}
MCCurrencies == {"ZAR"}
MCManual == <<"manual", 0>>
MCAny == "any"
MCFixedTo == [a \in MCAccounts |-> "any"]
MCSources ==
    ({"sales_cogs", "sales_revenue"} \X (1..MaxOrders))
        \cup ({"invoice_revenue"} \X (1..MaxInvoices))
        \cup ({"payment"} \X (1..MaxJournals))

\* People reverse the revenue of an order, but not a reversal.
RevenueByHand == {"sales_revenue"} \X (1..MaxOrders)
\* People reverse any journal of an order's revenue and any reversal.
AnyByHand == RevenueByHand \cup {MCManual}

\* What coa_seed gives a personal book: neither inventory nor cost of sales.
Personal == {"bank", "receivable", "revenue"}
\* Two accounts made by hand, neither leg of a sale complete.
Begun == {"revenue", "inventory"}
\* Neither leg, the cost leg, the revenue leg, both.
Charts == {Begun, Begun \cup {"cogs"}, Begun \cup Personal, TradeAccounts}

\* A second order, or a quote, only once the chart is complete; and a second order in
\* a shop that has sold no labour so far, and sells none after.
ShopBounds ==
    /\ chart' \in Charts
    /\ (\E o \in OrderIds \ {1} : orders'[o].status # "none") =>
        /\ chart' = TradeAccounts
        /\ \A o \in OrderIds, r \in Rows \ Goods : lines'[o][r] = 0
        /\ \A q \in QuoteIds, r \in Rows \ Goods : offered'[q][r] = 0
    /\ (\E q \in QuoteIds : quotes'[q].status # "none") => chart' = TradeAccounts

ShopSpec == Init /\ [][Next /\ ShopBounds]_vars
=============================================================================
