------------------------------ MODULE Purchasing ------------------------------
(***************************************************************************)
(* Buying: purchase orders, goods receipts, the stock movements and the    *)
(* journals they make, and stock moved by hand.                            *)
(*                                                                         *)
(* What arrived is never stored as a counter: receipts and movements are   *)
(* facts that are only ever added, here as their sums.  The order's totals *)
(* are stored, and written back whole with the rest of its row by every    *)
(* operation on the order.  Each line names a variant of its own.          *)
(***************************************************************************)
EXTENDS Connections, Sums, FiniteSets

CONSTANTS Purchases,    \* ids of orders
          PoLines,      \* ids of lines
          OrderOf,      \* the order each line is on
          Places,       \* stock locations
          Quantities,   \* what a line may order
          Deliveries,   \* quantities of one receipt or movement; negative corrects
          Prices, Taxes,
          SeededAccounts, \* those of StockAccounts coa_seed gives a book of its kind
          MaxReceipts,  \* bound: receipts, per line
          MaxByHand     \* bound: movements and transfers recorded by hand

\* The accounts a receipt posts to, each found by its code alone.
StockAccounts == {"inventory", "payable"}

ASSUME PurchasingAssumption ==
    /\ OrderOf \in [PoLines -> Purchases]
    /\ IsFiniteSet(PoLines) /\ IsFiniteSet(Places)
    /\ Quantities \subseteq Nat \ {0}
    /\ Deliveries \subseteq Int \ {0}
    /\ Prices \subseteq Nat /\ Taxes \subseteq Nat
    /\ SeededAccounts \subseteq StockAccounts
    /\ MaxReceipts \in [PoLines -> Nat] /\ MaxByHand \in Nat
    /\ None \notin [qty : Quantities, price : Prices, total : Nat]

VARIABLES purchases, \* purchase_orders
          poLines,   \* purchase_order_items: the row, or None
          received,  \* po_receipts: their sum, per line and place
          receipts,  \* and how many there are
          moved,     \* stock_movements of the line's variant, per origin and place
          byHand,    \* how many movements and transfers people recorded
          inventory, \* what the receipts' journals add to the inventory account
          repriced,  \* was the line received at one price and given another?
          unposted,  \* what a line's receipts with no journal say arrived, summed
          coa        \* the accounts of StockAccounts the book has

purchasingVars ==
    <<purchases, poLines, received, receipts, moved, byHand, inventory, repriced,
      unposted, coa>>

Origins == {"po_receipt", "transfer", "hand"}
LinesOf(o) == {l \in PoLines : OrderOf[l] = o}
LineRow(n, p) == [qty |-> n, price |-> p, total |-> n * p]
EmptyOrder(tax) == [status |-> "draft", subtotal |-> 0, tax |-> tax, total |-> tax]

PurchasingInit ==
    /\ purchases = [o \in Purchases |-> [EmptyOrder(0) EXCEPT !.status = "none"]]
    /\ poLines = [l \in PoLines |-> None]
    /\ received = [l \in PoLines |-> [p \in Places |-> 0]]
    /\ receipts = [l \in PoLines |-> 0]
    /\ moved = [l \in PoLines |-> [k \in Origins |-> [p \in Places |-> 0]]]
    /\ byHand = 0
    /\ inventory = [l \in PoLines |-> 0]
    /\ repriced = [l \in PoLines |-> FALSE]
    /\ unposted = [l \in PoLines |-> 0]
    /\ coa = {}

OrderExists(o) == purchases[o].status \notin {"none", "deleted"}
ReceivedQty(l) == Total(received[l])

-----------------------------------------------------------------------------
(***************************************************************************)
(* Orders.                                                                 *)
(***************************************************************************)

PoCreate(o) ==
    /\ Free
    /\ purchases[o].status = "none"
    /\ \E tax \in Taxes : purchases' = [purchases EXCEPT ![o] = EmptyOrder(tax)]
    /\ UNCHANGED <<connVars, poLines, received, receipts, moved, byHand, inventory,
                   repriced, unposted, coa>>

PoGet(c, o) ==
    /\ OrderExists(o)
    /\ Read(c, [job |-> "order", id |-> o, row |-> purchases[o]])
    /\ UNCHANGED purchasingVars

\* UPDATE of the whole row; a row that is gone stays gone.
PoPut(o, row) ==
    /\ purchases' = IF OrderExists(o) THEN [purchases EXCEPT ![o] = row] ELSE purchases
    /\ UNCHANGED <<poLines, received, receipts, moved, byHand, inventory, repriced,
                   unposted, coa>>

\* po_update: of the fields it takes only the tax touches another.
PoUpdate(c) ==
    /\ Doing(c, "order")
    /\ \E tax \in Taxes :
        PoPut(seen[c].id, [seen[c].row EXCEPT !.tax = tax, !.total = seen[c].row.subtotal + tax])
    /\ Done(c)

PoTransitionAllowed(from, to) ==
    <<from, to>> \in {<<"draft", "ordered">>, <<"draft", "cancelled">>, <<"ordered", "cancelled">>}

PoSetStatus(c) ==
    /\ Doing(c, "order")
    /\ \E to \in {"ordered", "cancelled"} :
        /\ PoTransitionAllowed(seen[c].row.status, to)
        /\ PoPut(seen[c].id, [seen[c].row EXCEPT !.status = to])
    /\ Done(c)

\* Mutation of MayGo: receipts cascade.
MayAlwaysGo(l) == TRUE

\* A line some receipt names refuses to go, and its order with it.
MayGo(l) == receipts[l] = 0

PoDelete(c) ==
    LET o == seen[c].id IN
    /\ Doing(c, "order")
    /\ \A l \in LinesOf(o) : MayGo(l)
    /\ purchases' = [purchases EXCEPT ![o].status = "deleted"]
    /\ poLines' = [l \in PoLines |-> IF l \in LinesOf(o) THEN None ELSE poLines[l]]
    /\ Done(c)
    /\ UNCHANGED <<received, receipts, moved, byHand, inventory, repriced, unposted, coa>>

-----------------------------------------------------------------------------
(***************************************************************************)
(* Lines.  The totals are recomputed inside the transaction, from the      *)
(* lines it leaves.                                                        *)
(***************************************************************************)

Subtotal(o, rows) ==
    Total([l \in {l \in LinesOf(o) : rows[l] # None} |-> rows[l].total])

Recalculated(o, rows) ==
    LET sum == Subtotal(o, rows)
    IN  [purchases EXCEPT ![o].subtotal = sum, ![o].total = sum + purchases[o].tax]

PutLines(o, rows) ==
    /\ OrderExists(o)
    /\ poLines' = rows
    /\ purchases' = Recalculated(o, rows)

PoItemAdd(c) ==
    LET o == seen[c].id IN
    /\ Doing(c, "order")
    /\ seen[c].row.status # "cancelled"
    /\ \E l \in LinesOf(o), n \in Quantities, p \in Prices :
        /\ poLines[l] = None
        /\ receipts[l] = 0
        /\ PutLines(o, [poLines EXCEPT ![l] = LineRow(n, p)])
    /\ Done(c)
    /\ UNCHANGED <<received, receipts, moved, byHand, inventory, repriced, unposted, coa>>

\* The line, its order and what it has received so far.
PoItemGet(c, l) ==
    /\ poLines[l] # None
    /\ Read(c, [job |-> "line", id |-> l, row |-> poLines[l],
                order |-> purchases[OrderOf[l]].status, received |-> ReceivedQty(l)])
    /\ UNCHANGED purchasingVars

PoItemUpdate(c) ==
    LET l == seen[c].id IN
    /\ Doing(c, "line")
    /\ seen[c].order # "cancelled"
    /\ \E n \in Quantities, p \in Prices :
        /\ n # seen[c].row.qty => n >= seen[c].received
        /\ PutLines(OrderOf[l], IF poLines[l] = None THEN poLines
                                ELSE [poLines EXCEPT ![l] = LineRow(n, p)])
        /\ repriced' = [repriced EXCEPT ![l] = @ \/ (receipts[l] > 0 /\ poLines[l].price # p)]
    /\ Done(c)
    /\ UNCHANGED <<received, receipts, moved, byHand, inventory, unposted, coa>>

PoItemDelete(c) ==
    LET l == seen[c].id IN
    /\ Doing(c, "line")
    /\ MayGo(l)
    /\ PutLines(OrderOf[l], [poLines EXCEPT ![l] = None])
    /\ Done(c)
    /\ UNCHANGED <<received, receipts, moved, byHand, inventory, repriced, unposted, coa>>

-----------------------------------------------------------------------------
(***************************************************************************)
(* Goods receipts, and stock moved by hand.                                *)
(***************************************************************************)

Moved(l, origin, p, n) == [moved EXCEPT ![l][origin][p] = @ + n]

\* Both are looked up at every receipt, in its transaction.
AccountsThere == StockAccounts \subseteq coa

\* Mutation of JournalOf: a correction posts nothing.
JournalOfArrival(row, n) == IF AccountsThere /\ n > 0 THEN row.price * n ELSE 0

\* The journal debits inventory with the cost and credits payables; a correction
\* posts the same accounts the other way round.  With one of them missing the goods
\* arrive and nothing is posted, then or later.
JournalOf(row, n) == IF AccountsThere THEN row.price * n ELSE 0

PoReceive(c) ==
    LET l == seen[c].id IN
    /\ Doing(c, "line")
    /\ seen[c].order # "cancelled"
    /\ poLines[l] # None
    /\ receipts[l] < MaxReceipts[l]
    /\ \E n \in Deliveries, p \in Places :
        /\ received' = [received EXCEPT ![l][p] = @ + n]
        /\ receipts' = [receipts EXCEPT ![l] = @ + 1]
        /\ moved' = Moved(l, "po_receipt", p, n)
        /\ inventory' = [inventory EXCEPT ![l] = @ + JournalOf(seen[c].row, n)]
        /\ unposted' = [unposted EXCEPT ![l] = @ + IF AccountsThere THEN 0 ELSE n]
    /\ repriced' = [repriced EXCEPT ![l] = @ \/ seen[c].row.price # poLines[l].price]
    /\ Done(c)
    /\ UNCHANGED <<purchases, poLines, byHand, coa>>

StockMovementRecord(l, p, n) ==
    /\ Free
    /\ byHand < MaxByHand
    /\ moved' = Moved(l, "hand", p, n)
    /\ byHand' = byHand + 1
    /\ UNCHANGED <<connVars, purchases, poLines, received, receipts, inventory,
                   repriced, unposted, coa>>

Carried(counts, from, to, n) == [counts EXCEPT ![from] = @ - n, ![to] = @ + n]

StockTransfer(l, from, to, n) ==
    /\ Free
    /\ byHand < MaxByHand
    /\ n > 0
    /\ from # to
    /\ moved' = [moved EXCEPT ![l]["transfer"] = Carried(@, from, to, n)]
    /\ byHand' = byHand + 1
    /\ UNCHANGED <<connVars, purchases, poLines, received, receipts, inventory,
                   repriced, unposted, coa>>

\* coa_seed inserts what is missing of the chart of the book's kind.
CoaSeed ==
    /\ Free
    /\ ~(SeededAccounts \subseteq coa)
    /\ coa' = coa \cup SeededAccounts
    /\ UNCHANGED <<connVars, purchases, poLines, received, receipts, moved, byHand,
                   inventory, repriced, unposted>>

\* coa_create: one account by hand.  A code that is taken is refused.
CoaCreate(a) ==
    /\ Free
    /\ a \in StockAccounts \ coa
    /\ coa' = coa \cup {a}
    /\ UNCHANGED <<connVars, purchases, poLines, received, receipts, moved, byHand,
                   inventory, repriced, unposted>>

OnHand(l) == Total([k \in Origins |-> Total(moved[l][k])])

PurchasingNext ==
    \/ \E o \in Purchases : PoCreate(o)
    \/ \E c \in Conns :
        \/ \E o \in Purchases : PoGet(c, o)
        \/ PoUpdate(c) \/ PoSetStatus(c) \/ PoDelete(c) \/ PoItemAdd(c)
        \/ \E l \in PoLines : PoItemGet(c, l)
        \/ PoItemUpdate(c) \/ PoItemDelete(c) \/ PoReceive(c)
        \/ Abandon(c) /\ UNCHANGED purchasingVars
    \/ \E l \in PoLines, n \in Deliveries :
        \/ \E p \in Places : StockMovementRecord(l, p, n)
        \/ \E from, to \in Places : StockTransfer(l, from, to, n)
    \/ CoaSeed
    \/ \E a \in StockAccounts : CoaCreate(a)

-----------------------------------------------------------------------------
(***************************************************************************)
(* Properties.                                                             *)
(***************************************************************************)

PurchaseRow ==
    [status : {"none", "draft", "ordered", "cancelled", "deleted"},
     subtotal : Nat, tax : Nat, total : Nat]

\* The tables hold what the columns allow.
PurchasingTypeOK ==
    /\ purchases \in [Purchases -> PurchaseRow]
    /\ poLines \in [PoLines -> [qty : Quantities, price : Prices, total : Nat] \cup {None}]
    /\ received \in [PoLines -> [Places -> Int]]
    /\ receipts \in [PoLines -> Nat] /\ \A l \in PoLines : receipts[l] <= MaxReceipts[l]
    /\ moved \in [PoLines -> [Origins -> [Places -> Int]]]
    /\ byHand \in 0..MaxByHand
    /\ inventory \in [PoLines -> Int]
    /\ repriced \in [PoLines -> BOOLEAN]
    /\ unposted \in [PoLines -> Int]
    /\ coa \subseteq StockAccounts

\* The goods on hand that people did not move by hand are those the receipts say
\* arrived, wherever transfers took them.  What a line's receipts and corrections left
\* in the inventory account is its price for exactly the goods that came while both
\* accounts were in the chart, whatever order goods, corrections and accounts came in,
\* unless its price changed after it was received: goods that came before the accounts
\* stay out of the ledger, and a later correction of them is posted all the same.
InventoryMeetsGoods ==
    \A l \in PoLines :
        LET byReceipt == OnHand(l) - Total(moved[l]["hand"]) IN
        /\ byReceipt = ReceivedQty(l)
        /\ poLines[l] # None /\ ~repriced[l] =>
            inventory[l] = poLines[l].price * (byReceipt - unposted[l])

\* Receipts outlive every attempt to delete their line or order, from however many
\* processes and whatever was read before: goods in stock can be traced to an order.
ReceiptsKeepTheirOrder ==
    \A l \in PoLines : receipts[l] > 0 => poLines[l] # None /\ OrderExists(OrderOf[l])

PurchasingSpec == ConnInit /\ PurchasingInit /\ [][PurchasingNext]_<<connVars, purchasingVars>>
=============================================================================
