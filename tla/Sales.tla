-------------------------------- MODULE Sales --------------------------------
(***************************************************************************)
(* Selling from one book: quotes, sales orders, the stock they move, the   *)
(* journals they post, the invoices raised and the payments recorded.      *)
(*                                                                         *)
(* As in Ledger, a connection reads before its SQLite transaction: GetOrder*)
(* and GetQuote take the row, its lines and the book's lock, and the       *)
(* operation's own action is the transaction.  A transaction writes the    *)
(* WHOLE row back as it was read, with the operation's own columns changed.*)
(*                                                                         *)
(* Orders and quotes are identified by the number allocate_number gave     *)
(* them.  An order is dated in a period that may be closed; invoices,      *)
(* payments and reversals are dated today, in a period that is open.       *)
(***************************************************************************)
EXTENDS Journal

CONSTANTS Conns,            \* connections to the database
          Rows,             \* ids of the lines an order or a quote may hold
          Goods,            \* those whose line names a stock-tracked variant
          Price, Cost,      \* of one unit, per line id
          MaxQty,           \* bound: quantity of one line
          MaxQuotes, MaxOrders, MaxInvoices,
          MaxPayment,       \* bound: one payment, and the payments of an invoice
          MaxJournals,      \* bound: journals in the ledger
          ReversedByHand,   \* sources whose journals people reverse by journal_reverse
          ChartAtStart,     \* the accounts trade posts to that the book begins with
          SeededAccounts,   \* those coa_seed gives a book of its kind and region
          None

\* The accounts trade posts to, each found by its code alone.
TradeAccounts == {"bank", "receivable", "revenue", "cogs", "inventory"}

ASSUME RowsAssumption ==
    /\ IsFiniteSet(Rows) /\ Goods \subseteq Rows
    /\ Price \in [Rows -> Nat] /\ Cost \in [Rows -> Nat]
    /\ ReversedByHand \subseteq Sources \cup {Manual}
    /\ ChartAtStart \subseteq TradeAccounts /\ SeededAccounts \subseteq TradeAccounts
ASSUME BoundsAssumption ==
    /\ MaxQty \in Nat /\ MaxQuotes \in Nat /\ MaxOrders \in Nat /\ MaxInvoices \in Nat
    /\ MaxPayment \in Nat /\ MaxJournals \in Nat
\* The ledger knows the accounts, and the sources trade posts under.
ASSUME TradeAssumption ==
    /\ TradeAccounts \subseteq Accounts
    /\ "ZAR" \in Currencies
    /\ {"sales_cogs", "sales_revenue"} \X (1..MaxOrders) \subseteq Sources
    /\ {"invoice_revenue"} \X (1..MaxInvoices) \subseteq Sources
    /\ {"payment"} \X (1..MaxJournals) \subseteq Sources

VARIABLES quotes,   \* quotes, by number: status and the order they became
          offered,  \* quote_items
          accepted, \* the orders the quote's accept rows in the audit log name
          orders,   \* sales_orders, by number: status and whether a location is set
          lines,    \* sales_order_items
          moved,    \* the order's stock movements, summed
          invoices, \* issued invoices, oldest first, with what was paid on them
          journals, \* the ledger
          chart,    \* the accounts of TradeAccounts the book has
          locked,   \* is the period the orders are dated in closed?
          seen      \* what each connection read before its transaction

quoteVars == <<quotes, offered, accepted>>
orderVars == <<orders, lines>>
bookVars == <<chart, locked>>
vars == <<quoteVars, orderVars, moved, invoices, journals, bookVars, seen>>

OrderIds == 1..MaxOrders
QuoteIds == 1..MaxQuotes
NoOrder == 0
Lines == [Rows -> 0..MaxQty]
NoLines == [r \in Rows |-> 0]

Sum(ls, each) == Total([r \in Rows |-> ls[r] * each[r]])
Units(ls) == Sum(ls, [r \in Rows |-> IF r \in Goods THEN 1 ELSE 0])
CostOf(ls) == Sum(ls, [r \in Rows |-> IF r \in Goods THEN Cost[r] ELSE 0])
GrossOf(ls) == Sum(ls, Price)

Unused(table) == {n \in DOMAIN table : table[n].status = "none"}
NextNumber(table) == CHOOSE n \in Unused(table) : \A m \in Unused(table) : n <= m

Init ==
    /\ quotes = [q \in QuoteIds |-> [status |-> "none", order |-> NoOrder]]
    /\ offered = [q \in QuoteIds |-> NoLines]
    /\ accepted = [q \in QuoteIds |-> {}]
    /\ orders = [o \in OrderIds |-> [status |-> "none", place |-> FALSE]]
    /\ lines = [o \in OrderIds |-> NoLines]
    /\ moved = [o \in OrderIds |-> 0]
    /\ invoices = <<>>
    /\ journals = <<>>
    /\ chart = ChartAtStart
    /\ locked = FALSE
    /\ seen = [c \in Conns |-> None]

-----------------------------------------------------------------------------
(***************************************************************************)
(* Connections.                                                            *)
(***************************************************************************)

Seen(c, kind, id) ==
    seen[c] # None /\ seen[c].kind = kind /\ seen[c].id = id

GetOrder(c, o) ==
    /\ seen[c] = None
    /\ orders[o].status \notin {"none", "deleted"}
    /\ seen' = [seen EXCEPT ![c] = [kind |-> "order", id |-> o, row |-> orders[o],
                                    lines |-> lines[o], locked |-> locked]]
    /\ UNCHANGED <<quoteVars, orderVars, moved, invoices, journals, bookVars>>

GetQuote(c, q) ==
    /\ seen[c] = None
    /\ quotes[q].status \notin {"none", "deleted"}
    /\ seen' = [seen EXCEPT ![c] = [kind |-> "quote", id |-> q, row |-> quotes[q],
                                    lines |-> offered[q], locked |-> locked]]
    /\ UNCHANGED <<quoteVars, orderVars, moved, invoices, journals, bookVars>>

\* The operation was refused, hit SQLITE_BUSY, or its process died.
Abandon(c) ==
    /\ seen[c] # None
    /\ seen' = [seen EXCEPT ![c] = None]
    /\ UNCHANGED <<quoteVars, orderVars, moved, invoices, journals, bookVars>>

Commit(c) == seen' = [seen EXCEPT ![c] = None]

\* UPDATE of a row another connection deleted changes nothing and is no error.
Put(table, id, row) ==
    IF table[id].status = "deleted" THEN table ELSE [table EXCEPT ![id] = row]

\* A line is added (row ids are new), rewritten, or removed (n = 0); rewriting a
\* line that is gone by now changes nothing.
Editable(ls, was, r, n) == was[r] = 0 => n > 0 /\ ls[r] = 0

Edited(ls, was, r, n) ==
    IF was[r] > 0 /\ ls[r] = 0 THEN ls ELSE [ls EXCEPT ![r] = n]

-----------------------------------------------------------------------------
(***************************************************************************)
(* Quotes.                                                                 *)
(***************************************************************************)

QuoteCreate ==
    /\ Unused(quotes) # {}
    /\ quotes' = [quotes EXCEPT ![NextNumber(quotes)].status = "draft"]
    /\ UNCHANGED <<offered, accepted, orderVars, moved, invoices, journals, bookVars, seen>>

QuoteDraft(c, q) == Seen(c, "quote", q) /\ seen[c].row.status = "draft"
QuoteSent(c, q) == Seen(c, "quote", q) /\ seen[c].row.status = "sent"

\* quote_item_add, _update and _remove.
QuoteItemEdit(c, q, r, n) ==
    /\ QuoteDraft(c, q)
    /\ quotes[q].status # "deleted"
    /\ Editable(offered[q], seen[c].lines, r, n)
    /\ offered' = [offered EXCEPT ![q] = Edited(@, seen[c].lines, r, n)]
    /\ Commit(c)
    /\ UNCHANGED <<quotes, accepted, orderVars, moved, invoices, journals, bookVars>>

\* Every header write: the row goes back whole, as it was read.
QuoteWrite(c, q, status) ==
    /\ quotes' = Put(quotes, q, [seen[c].row EXCEPT !.status = status])
    /\ Commit(c)
    /\ UNCHANGED <<offered, accepted, orderVars, moved, invoices, journals, bookVars>>

QuoteUpdate(c, q) == QuoteDraft(c, q) /\ QuoteWrite(c, q, "draft")
QuoteSend(c, q) == QuoteDraft(c, q) /\ seen[c].lines # NoLines /\ QuoteWrite(c, q, "sent")
QuoteDecline(c, q) == QuoteSent(c, q) /\ QuoteWrite(c, q, "declined")
QuoteExpire(c, q) == QuoteSent(c, q) /\ QuoteWrite(c, q, "expired")

QuoteDelete(c, q) ==
    /\ QuoteDraft(c, q)
    /\ quotes' = [quotes EXCEPT ![q].status = "deleted"]
    /\ offered' = [offered EXCEPT ![q] = NoLines]
    /\ Commit(c)
    /\ UNCHANGED <<accepted, orderVars, moved, invoices, journals, bookVars>>

\* Mutation of AcceptedQuote: the quote keeps the status it was read with.
AcceptedButSent(c, o) == [seen[c].row EXCEPT !.order = o]

AcceptedQuote(c, o) == [seen[c].row EXCEPT !.status = "accepted", !.order = o]

\* The quote's lines become a new draft order, with no location yet.
QuoteAccept(c, q) ==
    /\ QuoteSent(c, q)
    /\ seen[c].lines # NoLines
    /\ Unused(orders) # {}
    /\ LET o == NextNumber(orders)
       IN  /\ orders' = [orders EXCEPT ![o] = [status |-> "draft", place |-> FALSE]]
           /\ lines' = [lines EXCEPT ![o] = seen[c].lines]
           /\ quotes' = Put(quotes, q, AcceptedQuote(c, o))
           /\ accepted' = [accepted EXCEPT ![q] = @ \cup {o}]
    /\ Commit(c)
    /\ UNCHANGED <<offered, moved, invoices, journals, bookVars>>

-----------------------------------------------------------------------------
(***************************************************************************)
(* The journals trade posts.                                               *)
(***************************************************************************)

Entry(source, debited, credited, amount) ==
    [source |-> source, reversal_of |-> 0,
     lines |-> << [coa |-> debited, debit |-> amount, credit |-> 0, ccy |-> "ZAR"],
                  [coa |-> credited, debit |-> 0, credit |-> amount, ccy |-> "ZAR"] >>]

\* A journal per amount that is not zero.  Each looks up its own two accounts, in the
\* transaction: a journal whose accounts are not both there is left out, and the
\* operation goes through with the others.
Entries(source, debited, credited, amount) ==
    IF {debited, credited} \subseteq chart /\ amount # 0
    THEN <<Entry(source, debited, credited, amount)>>
    ELSE <<>>

Cogs(o) == <<"sales_cogs", o>>
Revenue(o) == <<"sales_revenue", o>>

\* post_sales_confirm_journals: cost and inventory, then revenue and receivable.
SaleEntries(o, ls) ==
    Entries(Cogs(o), "cogs", "inventory", CostOf(ls))
        \o Entries(Revenue(o), "receivable", "revenue", GrossOf(ls))

LiveOf(source) ==
    {k \in DOMAIN journals : journals[k].source = source /\ ~IsNetReversed(journals, k)}

SourceFree(source) == LiveOf(source) = {}

\* post_journal_in_tx for each journal of one transaction.
Post(entries) ==
    /\ \A i \in DOMAIN entries : SourceFree(entries[i].source)
    /\ Len(journals) + Len(entries) <= MaxJournals
    /\ journals' = journals \o entries

ReversalOfJournal(k) ==
    [source |-> Manual, reversal_of |-> k, lines |-> Flip(journals[k].lines)]

\* Journals in the order they were posted.
InOrder(K) ==
    [i \in 1..Cardinality(K) |-> CHOOSE k \in K : Cardinality({j \in K : j < k}) = i - 1]

\* Mutation of LiveSale: only the cost leg is taken back.
LiveCost(o) == InOrder(LiveOf(Cogs(o)))

\* reverse_sales_confirm_journals: what is still net-live of the order's two
\* sources.  A journal that was reversed and revived is net-live, and reversing
\* it a second time is refused, with everything else in the transaction.
LiveSale(o) == InOrder(LiveOf(Cogs(o))) \o InOrder(LiveOf(Revenue(o)))

ReverseSale(o) ==
    LET live == LiveSale(o)
    IN  /\ \A i \in DOMAIN live : ~IsReversed(journals, live[i])
        /\ Len(journals) + Len(live) <= MaxJournals
        /\ journals' = journals \o [i \in DOMAIN live |-> ReversalOfJournal(live[i])]

-----------------------------------------------------------------------------
(***************************************************************************)
(* Sales orders.                                                           *)
(***************************************************************************)

OrderCreate(place) ==
    /\ Unused(orders) # {}
    /\ orders' = [orders EXCEPT ![NextNumber(orders)] = [status |-> "draft", place |-> place]]
    /\ UNCHANGED <<quoteVars, lines, moved, invoices, journals, bookVars, seen>>

OrderRead(c, o, statuses) == Seen(c, "order", o) /\ seen[c].row.status \in statuses

\* sales_order_update: the location is set or cleared.
OrderUpdate(c, o, place) ==
    /\ OrderRead(c, o, {"draft"})
    /\ orders' = Put(orders, o, [seen[c].row EXCEPT !.place = place])
    /\ Commit(c)
    /\ UNCHANGED <<quoteVars, lines, moved, invoices, journals, bookVars>>

\* The lines cascade and a quote loses its link; an invoice raised from the order
\* cannot lose it (invoices_no_update), so the delete is refused.
OrderDelete(c, o) ==
    /\ OrderRead(c, o, {"draft"})
    /\ \A i \in DOMAIN invoices : invoices[i].order # o
    /\ orders' = [orders EXCEPT ![o].status = "deleted"]
    /\ lines' = [lines EXCEPT ![o] = NoLines]
    /\ quotes' = [q \in QuoteIds |->
                     IF quotes[q].order = o THEN [quotes[q] EXCEPT !.order = NoOrder]
                     ELSE quotes[q]]
    /\ Commit(c)
    /\ UNCHANGED <<offered, accepted, moved, invoices, journals, bookVars>>

\* sales_order_item_add, _update and _remove.
OrderItemEdit(c, o, r, n) ==
    /\ OrderRead(c, o, {"draft"})
    /\ orders[o].status # "deleted"
    /\ Editable(lines[o], seen[c].lines, r, n)
    /\ lines' = [lines EXCEPT ![o] = Edited(@, seen[c].lines, r, n)]
    /\ Commit(c)
    /\ UNCHANGED <<quoteVars, orders, moved, invoices, journals, bookVars>>

\* Goods need a location to leave from.
HasPlace(c) == Units(seen[c].lines) > 0 => seen[c].row.place

\* sales_order_confirm: stock out and the journals the chart allows, or nothing at all.
OrderConfirm(c, o) ==
    /\ OrderRead(c, o, {"draft"})
    /\ seen[c].lines # NoLines
    /\ HasPlace(c)
    /\ SaleEntries(o, seen[c].lines) # <<>> => ~seen[c].locked
    /\ Post(SaleEntries(o, seen[c].lines))
    /\ moved' = [moved EXCEPT ![o] = @ - IF seen[c].row.place THEN Units(seen[c].lines) ELSE 0]
    /\ orders' = Put(orders, o, [seen[c].row EXCEPT !.status = "confirmed"])
    /\ Commit(c)
    /\ UNCHANGED <<quoteVars, lines, invoices, bookVars>>

\* Mutation of Returned: a cancelled draft restocks too.
ReturnedAnyway(c, o) == Units(lines[o])

\* What comes back: the lines now on the order, if it was read as confirmed.
Returned(c, o) == IF seen[c].row.status = "confirmed" THEN Units(lines[o]) ELSE 0

\* sales_order_cancel.  Confirmed goods with no location to return to panic.
OrderCancel(c, o) ==
    /\ OrderRead(c, o, {"draft", "confirmed"})
    /\ Returned(c, o) > 0 => seen[c].row.place
    /\ IF seen[c].row.status = "confirmed" THEN ReverseSale(o) ELSE UNCHANGED journals
    /\ moved' = [moved EXCEPT ![o] = @ + Returned(c, o)]
    /\ orders' = Put(orders, o, [seen[c].row EXCEPT !.status = "cancelled"])
    /\ Commit(c)
    /\ UNCHANGED <<quoteVars, lines, invoices, bookVars>>

OrderMarkPaid(c, o) ==
    /\ OrderRead(c, o, {"confirmed"})
    /\ orders' = Put(orders, o, [seen[c].row EXCEPT !.status = "paid"])
    /\ Commit(c)
    /\ UNCHANGED <<quoteVars, lines, moved, invoices, journals, bookVars>>

-----------------------------------------------------------------------------
(***************************************************************************)
(* Invoices and payments: rows that are only ever inserted.                *)
(***************************************************************************)

\* Mutation of InvoiceEntries: an invoice from an order posts its revenue again.
PostedForEvery(order, ls) ==
    Entries(<<"invoice_revenue", Len(invoices) + 1>>, "receivable", "revenue", GrossOf(ls))

\* A standalone invoice recognises its own revenue.  One raised from an order
\* posts nothing: its revenue was recognised when the order was confirmed.
InvoiceEntries(order, ls) ==
    IF order # NoOrder THEN <<>>
    ELSE Entries(<<"invoice_revenue", Len(invoices) + 1>>, "receivable", "revenue", GrossOf(ls))

\* issue_invoice_in_tx.
Issue(order, ls) ==
    /\ ls # NoLines
    /\ Len(invoices) < MaxInvoices
    /\ invoices' = Append(invoices, [order |-> order, lines |-> ls, paid |-> 0])
    /\ Post(InvoiceEntries(order, ls))

\* An invoice from a confirmed or paid order copies its lines.
InvoiceOrder(c, o) ==
    /\ OrderRead(c, o, {"confirmed", "paid"})
    /\ orders[o].status # "deleted"
    /\ Issue(o, seen[c].lines)
    /\ Commit(c)
    /\ UNCHANGED <<quoteVars, orderVars, moved, bookVars>>

InvoiceAlone(ls) ==
    /\ Issue(NoOrder, ls)
    /\ UNCHANGED <<quoteVars, orderVars, moved, bookVars, seen>>

\* invoice_payment_record: overpaying is allowed; each payment is a new source.
InvoicePay(i, amount) ==
    /\ invoices[i].paid + amount <= MaxPayment
    /\ invoices' = [invoices EXCEPT ![i].paid = @ + amount]
    /\ Post(Entries(<<"payment", Len(journals) + 1>>, "bank", "receivable", amount))
    /\ UNCHANGED <<quoteVars, orderVars, moved, bookVars, seen>>

-----------------------------------------------------------------------------
(***************************************************************************)
(* The book around the trade.                                              *)
(***************************************************************************)

\* coa_seed inserts what is missing of the chart of the book's kind.
CoaSeed ==
    /\ ~(SeededAccounts \subseteq chart)
    /\ chart' = chart \cup SeededAccounts
    /\ UNCHANGED <<quoteVars, orderVars, moved, invoices, journals, locked, seen>>

\* coa_create: one account by hand.  A code that is taken is refused.
CoaCreate(a) ==
    /\ a \in TradeAccounts \ chart
    /\ chart' = chart \cup {a}
    /\ UNCHANGED <<quoteVars, orderVars, moved, invoices, journals, locked, seen>>

\* book_set_lock_date, close_period, reopen_period: the orders' period is closed or opened.
SetLock ==
    /\ locked' = ~locked
    /\ UNCHANGED <<quoteVars, orderVars, moved, invoices, journals, chart, seen>>

\* journal_reverse by a person, of any journal that was not reversed yet.
JournalReverse(k) ==
    /\ journals[k].source \in ReversedByHand
    /\ ~IsReversed(journals, k)
    /\ Len(journals) < MaxJournals
    /\ journals' = Append(journals, ReversalOfJournal(k))
    /\ UNCHANGED <<quoteVars, orderVars, moved, invoices, bookVars, seen>>

QuoteStep(c, q) ==
    \/ GetQuote(c, q) \/ QuoteUpdate(c, q) \/ QuoteSend(c, q) \/ QuoteDecline(c, q)
    \/ QuoteExpire(c, q) \/ QuoteDelete(c, q) \/ QuoteAccept(c, q)
    \/ \E r \in Rows, n \in 0..MaxQty : QuoteItemEdit(c, q, r, n)

OrderStep(c, o) ==
    \/ GetOrder(c, o) \/ OrderDelete(c, o) \/ OrderConfirm(c, o) \/ OrderCancel(c, o)
    \/ OrderMarkPaid(c, o) \/ InvoiceOrder(c, o)
    \/ \E place \in BOOLEAN : OrderUpdate(c, o, place)
    \/ \E r \in Rows, n \in 0..MaxQty : OrderItemEdit(c, o, r, n)

Next ==
    \/ \E c \in Conns : Abandon(c)
    \/ \E c \in Conns, q \in QuoteIds : QuoteStep(c, q)
    \/ \E c \in Conns, o \in OrderIds : OrderStep(c, o)
    \/ QuoteCreate
    \/ \E place \in BOOLEAN : OrderCreate(place)
    \/ \E ls \in Lines : InvoiceAlone(ls)
    \/ \E i \in DOMAIN invoices, amount \in 1..MaxPayment : InvoicePay(i, amount)
    \/ CoaSeed
    \/ \E a \in TradeAccounts : CoaCreate(a)
    \/ SetLock
    \/ \E k \in DOMAIN journals : JournalReverse(k)

Spec == Init /\ [][Next]_vars

-----------------------------------------------------------------------------
(***************************************************************************)
(* Properties.                                                             *)
(***************************************************************************)

Sold(o) == orders[o].status \in {"confirmed", "paid"}

\* The stock of an order is out exactly while the order is confirmed or paid:
\* confirming takes every unit on its lines, cancelling brings every one back, and
\* an order with stock out still names the location it left, which cancelling
\* expects and would panic without.
StockFollowsOrders ==
    \A o \in OrderIds :
        /\ moved[o] = IF Sold(o) THEN -Units(lines[o]) ELSE 0
        /\ moved[o] # 0 => orders[o].place

NetOfSource(source, a) ==
    Total([k \in LiveOf(source) |-> NetOf(journals, {k}, a, "ZAR")])

Posted(source) == \E k \in DOMAIN journals : journals[k].source = source

\* The ledger says what the orders say, whichever legs of a sale the chart of its day
\* could hold: a cost that posted is out of the inventory account in full exactly
\* while the order is sold, revenue is recognised in full or not at all and only for
\* an order that is sold, and cancelling takes back neither more nor less than was
\* posted, even after accounts were added since or people reversed revenue by hand.
LedgerFollowsOrders ==
    \A o \in OrderIds :
        /\ NetOfSource(Cogs(o), "inventory")
               = IF Sold(o) /\ Posted(Cogs(o)) THEN -CostOf(lines[o]) ELSE 0
        /\ NetOfSource(Revenue(o), "receivable")
               \in {0, IF Sold(o) THEN GrossOf(lines[o]) ELSE 0}

\* Revenue is recognised once per sale: at confirmation for an order, however many
\* invoices are raised from it, and at issue for an invoice with no order.
RevenueOncePerSale ==
    -NetOf(journals, DOMAIN journals, "revenue", "ZAR")
        <= Total([o \in OrderIds |-> IF Sold(o) THEN GrossOf(lines[o]) ELSE 0])
           + Total([i \in DOMAIN invoices |->
                       IF invoices[i].order = NoOrder THEN GrossOf(invoices[i].lines) ELSE 0])

\* A quote is accepted once: the audit log names one order made from it, and no
\* later edit, decline or expiry takes the acceptance back.
QuoteBecomesOneOrder ==
    \A q \in QuoteIds :
        /\ Cardinality(accepted[q]) <= 1
        /\ accepted[q] # {} => quotes[q].status = "accepted"

\* sales_order_cancel reverses "whichever of the confirm-time journals are still
\* net-live", so whatever is net-live of a confirmed order can be reversed.
LiveSaleCanBeReversed ==
    \A o \in OrderIds :
        orders[o].status = "confirmed" =>
            \A k \in LiveOf(Cogs(o)) \cup LiveOf(Revenue(o)) : ~IsReversed(journals, k)

=============================================================================
