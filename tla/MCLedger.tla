------------------------------ MODULE MCLedger -------------------------------
(***************************************************************************)
(* A small book: a bank account open in any currency, a sales account      *)
(* fixed to ZAR, and a travel account still to be created.  The drafts     *)
(* hold one list of each kind the posting path tells apart.                *)
(***************************************************************************)
EXTENDS Ledger

CONSTANTS bank, sales, travel

MCAccounts == {bank, sales, travel}
MCCurrencies == {"ZAR", "USD"}
MCSources == {"txn"}
MCManual == "manual"
MCAny == "any"
MCFixedTo == [a \in MCAccounts |-> IF a = sales THEN "ZAR" ELSE "any"]
MCSeeded == {bank, sales}

Dr(a, n, c) == [coa |-> a, debit |-> n, credit |-> 0, ccy |-> c]
Cr(a, n, c) == [coa |-> a, debit |-> 0, credit |-> n, ccy |-> c]

Sale == <<Dr(bank, 1, "ZAR"), Cr(sales, 1, "ZAR")>>
Trip == <<Dr(travel, 2, "USD"), Cr(bank, 2, "USD"), Cr(bank, 1, "ZAR"), Dr(sales, 1, "ZAR")>>
CrossCurrency == <<Dr(bank, 1, "ZAR"), Cr(bank, 1, "USD")>>
WrongCurrency == <<Dr(bank, 1, "USD"), Cr(sales, 1, "USD")>>
OneLine == <<Dr(bank, 0, "ZAR")>>
Negative == <<Dr(bank, -1, "ZAR"), Cr(sales, -1, "ZAR")>>
TooLarge == <<Dr(bank, 3, "ZAR"), Cr(sales, 3, "ZAR")>>

MCDrafts == {Sale, Trip, CrossCurrency, WrongCurrency, OneLine, Negative, TooLarge}
=============================================================================
