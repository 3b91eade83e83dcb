----------------------------- MODULE SalesProofs -----------------------------
(***************************************************************************)
(* What holds of a shop for every number of lines, prices, quotes, orders, *)
(* invoices and journals, proved for one connection to the database: two   *)
(* connections overwrite each other's rows, as Ledger's do.                *)
(***************************************************************************)
EXTENDS Sales, JournalProofs

SoleConnection == \A c, d \in Conns : c = d

Statuses == {"none", "draft", "confirmed", "paid", "cancelled", "deleted"}
OrderRow == [status : Statuses, place : BOOLEAN]
QuoteStatuses == {"none", "draft", "sent", "declined", "expired", "accepted", "deleted"}
QuoteRow == [status : QuoteStatuses, order : OrderIds \cup {NoOrder}]

OrdersTyped ==
    /\ orders \in [OrderIds -> OrderRow]
    /\ lines \in [OrderIds -> Lines]
    /\ moved \in [OrderIds -> Int]

QuotesTyped ==
    /\ quotes \in [QuoteIds -> QuoteRow]
    /\ offered \in [QuoteIds -> Lines]
    /\ accepted \in [QuoteIds -> SUBSET OrderIds]

\* What the connection read is what the tables still hold.
ReadOrder(c) ==
    /\ seen[c].kind = "order" /\ seen[c].id \in OrderIds
    /\ orders[seen[c].id].status \notin {"none", "deleted"}
    /\ seen[c].row = orders[seen[c].id]
    /\ seen[c].lines = lines[seen[c].id]

ReadQuote(c) ==
    /\ seen[c].kind = "quote" /\ seen[c].id \in QuoteIds
    /\ quotes[seen[c].id].status \notin {"none", "deleted"}
    /\ seen[c].row = quotes[seen[c].id]
    /\ seen[c].lines = offered[seen[c].id]

ReadsCurrent ==
    /\ DOMAIN seen = Conns
    /\ \A c \in Conns : seen[c] # None => ReadOrder(c) \/ ReadQuote(c)

\* What was quoted and what became of it.
OneOrderEach ==
    \A q \in QuoteIds :
        \/ accepted[q] = {}
        \/ quotes[q].status = "accepted" /\ \E o \in OrderIds : accepted[q] = {o}

ShopInv ==
    /\ OrdersTyped
    /\ QuotesTyped
    /\ ReadsCurrent
    /\ OneOrderEach

\* The units and the money of typed lines are natural numbers.
LEMMA SumTyped ==
    ASSUME NEW ls \in Lines, NEW each \in [Rows -> Nat]
    PROVE  Sum(ls, each) \in Nat
<1> DEFINE f == [r \in Rows |-> ls[r] * each[r]]
           z == [r \in Rows |-> 0]
<1>1. \A r \in Rows : ls[r] \in Nat /\ each[r] \in Nat
  BY BoundsAssumption DEF Lines
<1>2. \A r \in Rows : f[r] \in Int /\ z[r] \in Int /\ z[r] <= f[r] /\ z[r] = 0
  BY <1>1
<1>3. DOMAIN f = Rows /\ DOMAIN z = Rows /\ IsFiniteSet(Rows)
  BY RowsAssumption
<1> HIDE DEF f, z
<1>4. Total(f) \in Int /\ Total(z) = 0 /\ Total(z) <= Total(f)
  <2>1. Total(f) \in Int
    BY <1>2, <1>3, TotalInt
  <2>2. Total(z) = 0
    BY <1>2, <1>3, TotalZero
  <2>3. Total(z) <= Total(f)
    BY <1>2, <1>3, TotalMono
  <2> QED
    BY <2>1, <2>2, <2>3
<1>5. Total(f) \in Nat
  BY <1>4
<1> QED
  BY <1>5 DEF Sum, f

LEMMA UnitsTyped ==
    ASSUME NEW ls \in Lines
    PROVE  Units(ls) \in Nat /\ CostOf(ls) \in Nat /\ GrossOf(ls) \in Nat
<1> DEFINE one == [r \in Rows |-> IF r \in Goods THEN 1 ELSE 0]
           cost == [r \in Rows |-> IF r \in Goods THEN Cost[r] ELSE 0]
<1>1. one \in [Rows -> Nat] /\ cost \in [Rows -> Nat] /\ Price \in [Rows -> Nat]
  BY RowsAssumption
<1> HIDE DEF one, cost
<1>2. Sum(ls, one) \in Nat /\ Sum(ls, cost) \in Nat /\ Sum(ls, Price) \in Nat
  BY <1>1, SumTyped
<1> QED
  BY <1>2 DEF Units, CostOf, GrossOf, one, cost

LEMMA NextNumberIsUnused ==
    ASSUME NEW n \in Nat, NEW table, DOMAIN table = 1..n, Unused(table) # {}
    PROVE  /\ NextNumber(table) \in 1..n
           /\ table[NextNumber(table)].status = "none"
<1> DEFINE U == Unused(table)
<1>1. U \subseteq 1..n
  BY DEF Unused
<1>2. \E m \in U : \A k \in U : m <= k
  <2> DEFINE N == 1..n
             B == {1..m : m \in U}
  <2>1. B \in SUBSET (SUBSET N) /\ B # {}
    BY <1>1 DEF Unused
  <2>2. PICK t \in B : \A u \in B : u \subseteq t => u = t
    <3>1. IsFiniteSet(N)
      BY FS_Interval
    <3> HIDE DEF B, N
    <3> QED
      BY <2>1, <3>1, LeastSubset
  <2>3. PICK m \in U : t = 1..m
    BY <2>2
  <2>4. ASSUME NEW k \in U, k < m PROVE FALSE
    <3>1. k \in Nat /\ m \in Nat /\ m \in 1..m
      BY <1>1
    <3>2. 1..k \in B /\ 1..k \subseteq t
      BY <2>3, <2>4, <3>1
    <3>3. 1..k = 1..m
      BY <2>2, <2>3, <3>2
    <3> QED
      BY <2>4, <3>1, <3>3
  <2> QED
    BY <1>1, <2>3, <2>4
<1>3. NextNumber(table) \in U
  BY <1>2 DEF NextNumber
<1> QED
  BY <1>1, <1>3 DEF Unused

\* What a connection that acts on an order or a quote has read.
LEMMA OrderIsRead ==
    ASSUME ReadsCurrent, NEW c \in Conns, NEW o \in OrderIds, Seen(c, "order", o)
    PROVE  /\ seen[c].row = orders[o] /\ seen[c].lines = lines[o]
           /\ orders[o].status \notin {"none", "deleted"}
BY DEF ReadsCurrent, Seen, ReadOrder, ReadQuote

LEMMA QuoteIsRead ==
    ASSUME ReadsCurrent, NEW c \in Conns, NEW q \in QuoteIds, Seen(c, "quote", q)
    PROVE  /\ seen[c].row = quotes[q] /\ seen[c].lines = offered[q]
           /\ quotes[q].status \notin {"none", "deleted"}
BY DEF ReadsCurrent, Seen, ReadOrder, ReadQuote

\* A connection that is done has read nothing, and there is no other.
LEMMA DoneReading ==
    ASSUME SoleConnection, NEW c \in Conns, DOMAIN seen = Conns,
           seen' = [seen EXCEPT ![c] = None]
    PROVE  ReadsCurrent'
BY DEF SoleConnection, ReadsCurrent

\* What a rewritten row may be.
LEMMA PutIsTyped ==
    ASSUME NEW ids, NEW kinds, NEW table \in [ids -> kinds], NEW id \in ids, NEW row \in kinds
    PROVE  /\ Put(table, id, row) \in [ids -> kinds]
           /\ table[id].status # "deleted" =>
                  /\ Put(table, id, row)[id] = row
                  /\ \A other \in ids \ {id} : Put(table, id, row)[other] = table[other]
BY DEF Put

LEMMA EditedIsTyped ==
    ASSUME NEW ls \in Lines, NEW r \in Rows, NEW n \in 0..MaxQty
    PROVE  Edited(ls, ls, r, n) \in Lines
BY DEF Edited, Lines

LEMMA NoLinesTyped == NoLines \in Lines
BY BoundsAssumption DEF NoLines, Lines

\* A connection that leaves the quotes alone and writes typed orders.
LEMMA OrdersWritten ==
    ASSUME SoleConnection, ShopInv, NEW c \in Conns, Commit(c),
           OrdersTyped', UNCHANGED quoteVars
    PROVE  ShopInv'
<1>1. ReadsCurrent'
  BY DoneReading DEF Commit, ReadsCurrent, ShopInv
<1>2. QuotesTyped' /\ OneOrderEach'
  BY DEF ShopInv, QuotesTyped, OneOrderEach, quoteVars
<1> QED
  BY <1>1, <1>2 DEF ShopInv

LEMMA OrderStepsKeepTheShop ==
    ASSUME SoleConnection, ShopInv, NEW c \in Conns, NEW o \in OrderIds, OrderStep(c, o)
    PROVE  ShopInv'
<1>1. DOMAIN seen = Conns
  BY DEF ShopInv, ReadsCurrent
<1>2. /\ orders \in [OrderIds -> OrderRow] /\ lines \in [OrderIds -> Lines]
      /\ moved \in [OrderIds -> Int]
      /\ orders[o] \in OrderRow /\ lines[o] \in Lines /\ moved[o] \in Int
  BY DEF ShopInv, OrdersTyped
<1>3. Seen(c, "order", o) => seen[c].row = orders[o] /\ seen[c].lines = lines[o]
  BY OrderIsRead DEF ShopInv
<1>4. CASE GetOrder(c, o)
  <2>1. /\ seen'[c].kind = "order" /\ seen'[c].id = o
        /\ seen'[c].row = orders[o] /\ seen'[c].lines = lines[o]
        /\ DOMAIN seen' = Conns
        /\ orders[o].status \notin {"none", "deleted"}
        /\ UNCHANGED <<quoteVars, orderVars, moved>>
    BY <1>1, <1>4 DEF GetOrder
  <2>2. ReadOrder(c)'
    BY <2>1 DEF ReadOrder, orderVars
  <2>3. ReadsCurrent'
    BY <2>1, <2>2 DEF SoleConnection, ReadsCurrent
  <2>4. OrdersTyped' /\ QuotesTyped' /\ OneOrderEach'
    BY <2>1 DEF ShopInv, OrdersTyped, QuotesTyped, OneOrderEach, quoteVars, orderVars
  <2> QED
    BY <2>3, <2>4 DEF ShopInv
<1>5. CASE OrderDelete(c, o)
  <2>1. ReadsCurrent'
    BY <1>1, <1>5, DoneReading DEF OrderDelete, Commit
  <2>2. [orders[o] EXCEPT !.status = "deleted"] \in OrderRow
    BY <1>2 DEF OrderRow, Statuses
  <2>3. /\ orders' = [orders EXCEPT ![o] = [orders[o] EXCEPT !.status = "deleted"]]
        /\ lines' = [lines EXCEPT ![o] = NoLines]
        /\ UNCHANGED <<moved, offered, accepted>>
    BY <1>5 DEF OrderDelete
  <2>4. OrdersTyped'
    BY <1>2, <2>2, <2>3, NoLinesTyped DEF OrdersTyped
  <2>5. \A q \in QuoteIds : quotes[q] \in QuoteRow
    BY DEF ShopInv, QuotesTyped
  <2>6. \A q \in QuoteIds : /\ [quotes[q] EXCEPT !.order = NoOrder] \in QuoteRow
                            /\ [quotes[q] EXCEPT !.order = NoOrder].status = quotes[q].status
    BY <2>5 DEF QuoteRow
  <2>7. quotes' = [q \in QuoteIds |->
                     IF quotes[q].order = o THEN [quotes[q] EXCEPT !.order = NoOrder]
                     ELSE quotes[q]]
    BY <1>5 DEF OrderDelete
  <2>8. /\ quotes' \in [QuoteIds -> QuoteRow]
        /\ \A q \in QuoteIds : quotes'[q].status = quotes[q].status
    BY <2>5, <2>6, <2>7
  <2> QED
    BY <2>1, <2>3, <2>4, <2>8 DEF ShopInv, QuotesTyped, OneOrderEach
<1>6. CASE OrderConfirm(c, o)
  <2> DEFINE row == [orders[o] EXCEPT !.status = "confirmed"]
             out == IF orders[o].place THEN Units(lines[o]) ELSE 0
  <2>1. /\ orders' = Put(orders, o, row)
        /\ moved' = [moved EXCEPT ![o] = @ - out]
        /\ lines' = lines /\ Commit(c) /\ UNCHANGED quoteVars
    BY <1>3, <1>6 DEF OrderConfirm, OrderRead
  <2>2. row \in OrderRow
    BY <1>2 DEF OrderRow, Statuses
  <2>3. out \in Int
    BY <1>2, UnitsTyped
  <2> HIDE DEF row, out
  <2>4. moved' \in [OrderIds -> Int]
    BY <1>2, <2>1, <2>3
  <2>5. OrdersTyped'
    BY <1>2, <2>1, <2>2, <2>4, PutIsTyped DEF OrdersTyped
  <2> QED
    BY <2>1, <2>5, OrdersWritten
<1>7. CASE OrderCancel(c, o)
  <2> DEFINE row == [orders[o] EXCEPT !.status = "cancelled"]
             back == Returned(c, o)
  <2>1. /\ orders' = Put(orders, o, row)
        /\ moved' = [moved EXCEPT ![o] = @ + back]
        /\ lines' = lines /\ Commit(c) /\ UNCHANGED quoteVars
    BY <1>3, <1>7 DEF OrderCancel, OrderRead
  <2>2. row \in OrderRow
    BY <1>2 DEF OrderRow, Statuses
  <2>3. back \in Int
    BY <1>2, UnitsTyped DEF Returned
  <2> HIDE DEF row, back
  <2>4. moved' \in [OrderIds -> Int]
    BY <1>2, <2>1, <2>3
  <2>5. OrdersTyped'
    BY <1>2, <2>1, <2>2, <2>4, PutIsTyped DEF OrdersTyped
  <2> QED
    BY <2>1, <2>5, OrdersWritten
<1>8. CASE OrderMarkPaid(c, o)
  <2> DEFINE row == [orders[o] EXCEPT !.status = "paid"]
  <2>1. /\ orders' = Put(orders, o, row)
        /\ lines' = lines /\ moved' = moved /\ Commit(c) /\ UNCHANGED quoteVars
    BY <1>3, <1>8 DEF OrderMarkPaid, OrderRead
  <2>2. row \in OrderRow
    BY <1>2 DEF OrderRow, Statuses
  <2> HIDE DEF row
  <2>3. OrdersTyped'
    BY <1>2, <2>1, <2>2, PutIsTyped DEF OrdersTyped
  <2> QED
    BY <2>1, <2>3, OrdersWritten
<1>9. CASE InvoiceOrder(c, o)
  <2>1. UNCHANGED <<orders, lines, moved>> /\ Commit(c) /\ UNCHANGED quoteVars
    BY <1>9 DEF InvoiceOrder, orderVars
  <2>2. OrdersTyped'
    BY <1>2, <2>1 DEF OrdersTyped
  <2> QED
    BY <2>1, <2>2, OrdersWritten
<1>10. ASSUME NEW place \in BOOLEAN, OrderUpdate(c, o, place) PROVE ShopInv'
  <2> DEFINE row == [orders[o] EXCEPT !.place = place]
  <2>1. /\ orders' = Put(orders, o, row)
        /\ lines' = lines /\ moved' = moved /\ Commit(c) /\ UNCHANGED quoteVars
    BY <1>3, <1>10 DEF OrderUpdate, OrderRead
  <2>2. row \in OrderRow
    BY <1>2 DEF OrderRow, Statuses
  <2> HIDE DEF row
  <2>3. OrdersTyped'
    BY <1>2, <2>1, <2>2, PutIsTyped DEF OrdersTyped
  <2> QED
    BY <2>1, <2>3, OrdersWritten
<1>11. ASSUME NEW r \in Rows, NEW n \in 0..MaxQty, OrderItemEdit(c, o, r, n) PROVE ShopInv'
  <2> DEFINE ls == Edited(lines[o], lines[o], r, n)
  <2>1. /\ lines' = [lines EXCEPT ![o] = ls]
        /\ orders' = orders /\ moved' = moved /\ Commit(c) /\ UNCHANGED quoteVars
    BY <1>3, <1>11 DEF OrderItemEdit, OrderRead
  <2>2. ls \in Lines
    BY <1>2, EditedIsTyped
  <2> HIDE DEF ls
  <2>3. OrdersTyped'
    BY <1>2, <2>1, <2>2 DEF OrdersTyped
  <2> QED
    BY <2>1, <2>3, OrdersWritten
<1> QED
  BY <1>4, <1>5, <1>6, <1>7, <1>8, <1>9, <1>10, <1>11 DEF OrderStep

\* A header write that is no acceptance, of a quote that was not accepted.
LEMMA QuoteWritten ==
    ASSUME SoleConnection, ShopInv, NEW c \in Conns, NEW q \in QuoteIds,
           NEW status \in QuoteStatuses, QuoteWrite(c, q, status), Seen(c, "quote", q),
           quotes[q].status # "accepted"
    PROVE  ShopInv'
<1> DEFINE row == [quotes[q] EXCEPT !.status = status]
<1>1. /\ quotes' = Put(quotes, q, row) /\ Commit(c)
      /\ UNCHANGED <<offered, accepted, orders, lines, moved>>
  BY QuoteIsRead DEF QuoteWrite, ShopInv, orderVars
<1>2. /\ quotes \in [QuoteIds -> QuoteRow] /\ quotes[q] \in QuoteRow
      /\ quotes[q].status # "deleted"
  BY QuoteIsRead DEF ShopInv, QuotesTyped
<1>3. row \in QuoteRow
  BY <1>2 DEF QuoteRow
<1> HIDE DEF row
<1>4. /\ quotes' \in [QuoteIds -> QuoteRow]
      /\ \A p \in QuoteIds \ {q} : quotes'[p] = quotes[p]
  BY <1>1, <1>2, <1>3, PutIsTyped
<1>5. QuotesTyped' /\ OrdersTyped'
  BY <1>1, <1>4 DEF ShopInv, QuotesTyped, OrdersTyped
<1>6. OneOrderEach'
  <2>1. accepted[q] = {}
    BY DEF ShopInv, OneOrderEach
  <2> QED
    BY <1>1, <1>4, <2>1 DEF ShopInv, OneOrderEach
<1>7. ReadsCurrent'
  BY <1>1, DoneReading DEF Commit, ReadsCurrent, ShopInv
<1> QED
  BY <1>5, <1>6, <1>7 DEF ShopInv

LEMMA QuoteStepsKeepTheShop ==
    ASSUME SoleConnection, ShopInv, NEW c \in Conns, NEW q \in QuoteIds, QuoteStep(c, q)
    PROVE  ShopInv'
<1>1. DOMAIN seen = Conns
  BY DEF ShopInv, ReadsCurrent
<1>2. /\ quotes \in [QuoteIds -> QuoteRow] /\ offered \in [QuoteIds -> Lines]
      /\ accepted \in [QuoteIds -> SUBSET OrderIds]
      /\ quotes[q] \in QuoteRow /\ offered[q] \in Lines
  BY DEF ShopInv, QuotesTyped
<1>3. Seen(c, "quote", q) =>
          seen[c].row = quotes[q] /\ seen[c].lines = offered[q] /\ quotes[q].status # "deleted"
  BY QuoteIsRead DEF ShopInv
<1>4. CASE GetQuote(c, q)
  <2>1. /\ seen'[c].kind = "quote" /\ seen'[c].id = q
        /\ seen'[c].row = quotes[q] /\ seen'[c].lines = offered[q]
        /\ DOMAIN seen' = Conns
        /\ quotes[q].status \notin {"none", "deleted"}
        /\ UNCHANGED <<quoteVars, orderVars, moved>>
    BY <1>1, <1>4 DEF GetQuote
  <2>2. ReadQuote(c)'
    BY <2>1 DEF ReadQuote, quoteVars
  <2>3. ReadsCurrent'
    BY <2>1, <2>2 DEF SoleConnection, ReadsCurrent
  <2>4. OrdersTyped' /\ QuotesTyped' /\ OneOrderEach'
    BY <2>1 DEF ShopInv, OrdersTyped, QuotesTyped, OneOrderEach, quoteVars, orderVars
  <2> QED
    BY <2>3, <2>4 DEF ShopInv
<1>5. CASE QuoteUpdate(c, q) \/ QuoteSend(c, q) \/ QuoteDecline(c, q) \/ QuoteExpire(c, q)
  <2>1. PICK status \in QuoteStatuses : QuoteWrite(c, q, status)
    BY <1>5 DEF QuoteUpdate, QuoteSend, QuoteDecline, QuoteExpire, QuoteStatuses
  <2>2. Seen(c, "quote", q) /\ quotes[q].status # "accepted"
    BY <1>3, <1>5 DEF QuoteUpdate, QuoteSend, QuoteDecline, QuoteExpire, QuoteDraft, QuoteSent
  <2> QED
    BY <2>1, <2>2, QuoteWritten
<1>6. CASE QuoteDelete(c, q)
  <2>1. /\ quotes[q].status # "accepted"
        /\ quotes' = [quotes EXCEPT ![q] = [quotes[q] EXCEPT !.status = "deleted"]]
        /\ offered' = [offered EXCEPT ![q] = NoLines]
        /\ UNCHANGED <<accepted, orders, lines, moved>> /\ Commit(c)
    BY <1>3, <1>6 DEF QuoteDelete, QuoteDraft, orderVars
  <2>2. [quotes[q] EXCEPT !.status = "deleted"] \in QuoteRow
    BY <1>2 DEF QuoteRow, QuoteStatuses
  <2>3. QuotesTyped' /\ OrdersTyped' /\ \A p \in QuoteIds \ {q} : quotes'[p] = quotes[p]
    BY <1>2, <2>1, <2>2, NoLinesTyped DEF ShopInv, QuotesTyped, OrdersTyped
  <2>4. OneOrderEach'
    <3>1. accepted[q] = {}
      BY <2>1 DEF ShopInv, OneOrderEach
    <3> QED
      BY <2>1, <2>3, <3>1 DEF ShopInv, OneOrderEach
  <2>5. ReadsCurrent'
    BY <1>1, <2>1, DoneReading DEF Commit
  <2> QED
    BY <2>3, <2>4, <2>5 DEF ShopInv
<1>7. CASE QuoteAccept(c, q)
  <2> DEFINE o == NextNumber(orders)
             row == [quotes[q] EXCEPT !.status = "accepted", !.order = o]
             fresh == [status |-> "draft", place |-> FALSE]
  <2>1. /\ Unused(orders) # {} /\ quotes[q].status = "sent"
        /\ orders' = [orders EXCEPT ![o] = fresh]
        /\ lines' = [lines EXCEPT ![o] = offered[q]]
        /\ quotes' = Put(quotes, q, row)
        /\ accepted' = [accepted EXCEPT ![q] = @ \cup {o}]
        /\ UNCHANGED <<offered, moved>> /\ Commit(c)
    BY <1>3, <1>7 DEF QuoteAccept, QuoteSent, AcceptedQuote
  <2>2. o \in OrderIds
    <3>1. DOMAIN orders = 1..MaxOrders
      BY DEF ShopInv, OrdersTyped, OrderIds
    <3> QED
      BY <2>1, <3>1, NextNumberIsUnused, BoundsAssumption DEF OrderIds
  <2>3. row \in QuoteRow /\ row.status = "accepted"
    BY <1>2, <2>2 DEF QuoteRow, QuoteStatuses
  <2>4. fresh \in OrderRow
    BY DEF OrderRow, Statuses
  <2> HIDE DEF o, row, fresh
  <2>5. /\ quotes' \in [QuoteIds -> QuoteRow] /\ quotes'[q] = row
        /\ \A p \in QuoteIds \ {q} : quotes'[p] = quotes[p]
    <3>1. quotes[q].status # "deleted" /\ quotes' = Put(quotes, q, row) /\ row \in QuoteRow
      BY <2>1, <2>3
    <3>2. quotes \in [QuoteIds -> QuoteRow]
      BY <1>2
    <3>3. Put(quotes, q, row) = [quotes EXCEPT ![q] = row]
      BY <3>1 DEF Put
    <3> QED
      BY <3>1, <3>2, <3>3
  <2>6. QuotesTyped'
    BY <1>2, <2>1, <2>2, <2>5 DEF QuotesTyped
  <2>7. OrdersTyped'
    BY <1>2, <2>1, <2>2, <2>4 DEF ShopInv, OrdersTyped
  <2>8. OneOrderEach'
    <3>1. accepted[q] = {}
      BY <2>1 DEF ShopInv, OneOrderEach
    <3>2. accepted'[q] = {o} /\ \A p \in QuoteIds \ {q} : accepted'[p] = accepted[p]
      BY <1>2, <2>1, <3>1
    <3> QED
      BY <2>2, <2>3, <2>5, <3>2 DEF ShopInv, OneOrderEach
  <2>9. ReadsCurrent'
    BY <1>1, <2>1, DoneReading DEF Commit
  <2> QED
    BY <2>6, <2>7, <2>8, <2>9 DEF ShopInv
<1>8. ASSUME NEW r \in Rows, NEW n \in 0..MaxQty, QuoteItemEdit(c, q, r, n) PROVE ShopInv'
  <2> DEFINE ls == Edited(offered[q], offered[q], r, n)
  <2>1. /\ offered' = [offered EXCEPT ![q] = ls]
        /\ UNCHANGED <<quotes, accepted, orders, lines, moved>> /\ Commit(c)
    BY <1>3, <1>8 DEF QuoteItemEdit, QuoteDraft, orderVars
  <2>2. ls \in Lines
    BY <1>2, EditedIsTyped
  <2> HIDE DEF ls
  <2>3. QuotesTyped' /\ OrdersTyped' /\ OneOrderEach'
    BY <1>2, <2>1, <2>2 DEF ShopInv, QuotesTyped, OrdersTyped, OneOrderEach
  <2>4. ReadsCurrent'
    BY <1>1, <2>1, DoneReading DEF Commit
  <2> QED
    BY <2>3, <2>4 DEF ShopInv
<1> QED
  BY <1>4, <1>5, <1>6, <1>7, <1>8 DEF QuoteStep

LEMMA ShopStep ==
    ASSUME SoleConnection, ShopInv, Next
    PROVE  ShopInv'
<1>1. /\ orders \in [OrderIds -> OrderRow] /\ quotes \in [QuoteIds -> QuoteRow]
      /\ DOMAIN orders = 1..MaxOrders /\ DOMAIN quotes = 1..MaxQuotes
  BY DEF ShopInv, OrdersTyped, QuotesTyped, OrderIds, QuoteIds
<1>2. CASE \E c \in Conns : Abandon(c)
  <2>1. PICK c \in Conns : Abandon(c)
    BY <1>2
  <2>2. Commit(c) /\ UNCHANGED <<quoteVars, orders, lines, moved>>
    BY <2>1 DEF Abandon, Commit, orderVars
  <2>3. OrdersTyped'
    BY <2>2 DEF ShopInv, OrdersTyped
  <2> QED
    BY <2>2, <2>3, OrdersWritten
<1>3. CASE QuoteCreate
  <2> DEFINE q == NextNumber(quotes)
             row == [quotes[q] EXCEPT !.status = "draft"]
  <2>1. Unused(quotes) # {}
    BY <1>3 DEF QuoteCreate
  <2>2. q \in QuoteIds /\ quotes[q].status = "none"
    BY <1>1, <2>1, NextNumberIsUnused, BoundsAssumption DEF QuoteIds
  <2>3. row \in QuoteRow
    BY <1>1, <2>2 DEF QuoteRow, QuoteStatuses
  <2>4. /\ quotes' = [quotes EXCEPT ![q] = row]
        /\ UNCHANGED <<offered, accepted, orders, lines, moved, seen>>
    BY <1>3 DEF QuoteCreate, orderVars
  <2> HIDE DEF q, row
  <2>5. QuotesTyped' /\ OrdersTyped' /\ \A p \in QuoteIds \ {q} : quotes'[p] = quotes[p]
    BY <2>2, <2>3, <2>4 DEF ShopInv, QuotesTyped, OrdersTyped
  <2>6. OneOrderEach'
    <3>1. accepted[q] = {}
      BY <2>2 DEF ShopInv, OneOrderEach
    <3> QED
      BY <2>4, <2>5, <3>1 DEF ShopInv, OneOrderEach
  <2>7. ReadsCurrent'
    <3>1. ASSUME NEW c \in Conns, seen[c] # None PROVE ReadOrder(c)' \/ ReadQuote(c)'
      <4>1. ReadOrder(c) \/ ReadQuote(c)
        BY <3>1 DEF ShopInv, ReadsCurrent
      <4>2. ReadQuote(c) => seen[c].id # q /\ seen[c].id \in QuoteIds
        BY <2>2 DEF ReadQuote
      <4>3. ReadQuote(c) => ReadQuote(c)'
        BY <2>4, <2>5, <4>2 DEF ReadQuote
      <4>4. ReadOrder(c) => ReadOrder(c)'
        BY <2>4 DEF ReadOrder
      <4> QED
        BY <4>1, <4>3, <4>4
    <3> QED
      BY <2>4, <3>1 DEF ShopInv, ReadsCurrent
  <2> QED
    BY <2>5, <2>6, <2>7 DEF ShopInv
<1>4. ASSUME NEW place \in BOOLEAN, OrderCreate(place) PROVE ShopInv'
  <2> DEFINE o == NextNumber(orders)
             row == [status |-> "draft", place |-> place]
  <2>1. Unused(orders) # {}
    BY <1>4 DEF OrderCreate
  <2>2. o \in OrderIds /\ orders[o].status = "none"
    BY <1>1, <2>1, NextNumberIsUnused, BoundsAssumption DEF OrderIds
  <2>3. row \in OrderRow
    BY DEF OrderRow, Statuses
  <2>4. /\ orders' = [orders EXCEPT ![o] = row]
        /\ UNCHANGED <<quotes, offered, accepted, lines, moved, seen>>
    BY <1>4 DEF OrderCreate, quoteVars
  <2> HIDE DEF o, row
  <2>5. /\ QuotesTyped' /\ OrdersTyped' /\ OneOrderEach'
        /\ \A p \in OrderIds \ {o} : orders'[p] = orders[p]
    BY <2>2, <2>3, <2>4 DEF ShopInv, QuotesTyped, OrdersTyped, OneOrderEach
  <2>6. ReadsCurrent'
    <3>1. ASSUME NEW c \in Conns, seen[c] # None PROVE ReadOrder(c)' \/ ReadQuote(c)'
      <4>1. ReadOrder(c) \/ ReadQuote(c)
        BY <3>1 DEF ShopInv, ReadsCurrent
      <4>2. ReadOrder(c) => seen[c].id # o /\ seen[c].id \in OrderIds
        BY <2>2 DEF ReadOrder
      <4>3. ReadOrder(c) => ReadOrder(c)'
        BY <2>4, <2>5, <4>2 DEF ReadOrder
      <4>4. ReadQuote(c) => ReadQuote(c)'
        BY <2>4 DEF ReadQuote
      <4> QED
        BY <4>1, <4>3, <4>4
    <3> QED
      BY <2>4, <3>1 DEF ShopInv, ReadsCurrent
  <2> QED
    BY <2>5, <2>6 DEF ShopInv
<1>5. ASSUME UNCHANGED <<quotes, offered, accepted, orders, lines, moved, seen>> PROVE ShopInv'
  BY <1>5 DEF ShopInv, OrdersTyped, QuotesTyped, ReadsCurrent, ReadOrder, ReadQuote, OneOrderEach
<1>6. CASE \/ \E ls \in Lines : InvoiceAlone(ls)
           \/ \E i \in DOMAIN invoices, amount \in 1..MaxPayment : InvoicePay(i, amount)
           \/ CoaSeed
           \/ \E a \in TradeAccounts : CoaCreate(a)
           \/ SetLock
           \/ \E k \in DOMAIN journals : JournalReverse(k)
  BY <1>5, <1>6 DEF InvoiceAlone, InvoicePay, CoaSeed, CoaCreate, SetLock, JournalReverse, quoteVars,
     orderVars
<1> QED
  BY <1>2, <1>3, <1>4, <1>6, OrderStepsKeepTheShop, QuoteStepsKeepTheShop DEF Next

LEMMA ShopStarts == Init => ShopInv
<1> SUFFICES ASSUME Init PROVE ShopInv
  OBVIOUS
<1>1. OrdersTyped /\ QuotesTyped
  BY NoLinesTyped DEF Init, OrdersTyped, QuotesTyped, OrderRow, QuoteRow, Statuses, QuoteStatuses
<1>2. ReadsCurrent /\ OneOrderEach
  BY DEF Init, ReadsCurrent, OneOrderEach
<1> QED
  BY <1>1, <1>2 DEF ShopInv

LEMMA ShopHolds == ASSUME SoleConnection PROVE Spec => []ShopInv
<1>1. ShopInv /\ UNCHANGED vars => ShopInv'
  BY DEF ShopInv, OrdersTyped, QuotesTyped, ReadsCurrent, ReadOrder, ReadQuote, OneOrderEach,
         vars, quoteVars, orderVars
<1>2. ShopInv /\ [Next]_vars => ShopInv'
  BY <1>1, ShopStep
<1> QED
  BY <1>2, ShopStarts, PTL DEF Spec

\* With one connection a quote is accepted once, whatever is edited, declined,
\* expired or deleted around it: quote_accept reads a sent quote, and nothing
\* that writes a quote can have read it as sent once it is accepted.
THEOREM QuotesBecomeOneOrder ==
    ASSUME SoleConnection
    PROVE  Spec => []QuoteBecomesOneOrder
<1>1. ShopInv => QuoteBecomesOneOrder
  <2> SUFFICES ASSUME ShopInv, NEW q \in QuoteIds
               PROVE  /\ Cardinality(accepted[q]) <= 1
                      /\ accepted[q] # {} => quotes[q].status = "accepted"
    BY DEF QuoteBecomesOneOrder
  <2>1. CASE accepted[q] = {}
    BY <2>1, FS_EmptySet
  <2>2. ASSUME NEW o \in OrderIds, accepted[q] = {o}, quotes[q].status = "accepted"
        PROVE  Cardinality(accepted[q]) <= 1
    <3>1. Cardinality({o}) = 1
      BY FS_Singleton
    <3> QED
      BY <2>2, <3>1
  <2> QED
    BY <2>1, <2>2 DEF ShopInv, OneOrderEach
<1> QED
  BY <1>1, ShopHolds, PTL

-----------------------------------------------------------------------------
(***************************************************************************)
(* What a step does to the orders, their stock and the books, whoever took *)
(* it and whatever was read for it.                                        *)
(***************************************************************************)
BooksKept == UNCHANGED <<invoices, journals, chart>>
OrdersKept == UNCHANGED <<orders, lines, moved>>

\* One order changes, from one status to another.
Turns(o, from, to) ==
    /\ orders[o].status = from /\ orders'[o].status = to
    /\ \A p \in OrderIds \ {o} :
           orders'[p] = orders[p] /\ lines'[p] = lines[p] /\ moved'[p] = moved[p]

Opens(o) == Turns(o, "none", "draft") /\ moved'[o] = moved[o] /\ BooksKept

Drafts(o) ==
    /\ \E to \in {"draft", "deleted", "cancelled"} : Turns(o, "draft", to)
    /\ moved'[o] = moved[o]
    /\ BooksKept

Confirms(o) ==
    /\ Turns(o, "draft", "confirmed")
    /\ orders'[o].place = orders[o].place /\ lines' = lines
    /\ Units(lines[o]) > 0 => orders[o].place
    /\ moved'[o] = moved[o] - IF orders[o].place THEN Units(lines[o]) ELSE 0
    /\ Post(SaleEntries(o, lines[o]))
    /\ UNCHANGED <<invoices, chart>>

Cancels(o) ==
    /\ Turns(o, "confirmed", "cancelled")
    /\ lines' = lines
    /\ moved'[o] = moved[o] + Units(lines[o])
    /\ ReverseSale(o)
    /\ UNCHANGED <<invoices, chart>>

Pays(o) ==
    /\ Turns(o, "confirmed", "paid")
    /\ orders'[o].place = orders[o].place /\ lines' = lines /\ moved' = moved
    /\ BooksKept

Bills(order, ls) == Issue(order, ls) /\ OrdersKept /\ chart' = chart

Settles ==
    /\ \E i \in DOMAIN invoices, amount \in 1..MaxPayment :
           /\ invoices' = [invoices EXCEPT ![i].paid = @ + amount]
           /\ Post(Entries(<<"payment", Len(journals) + 1>>, "bank", "receivable", amount))
    /\ OrdersKept /\ chart' = chart

\* Accounts are added to the chart.
Seeds == OrdersKept /\ UNCHANGED <<invoices, journals>>

Reverses ==
    /\ \E k \in DOMAIN journals :
           /\ journals[k].source \in ReversedByHand
           /\ ~IsReversed(journals, k)
           /\ Len(journals) < MaxJournals
           /\ journals' = Append(journals, ReversalOfJournal(k))
    /\ OrdersKept /\ UNCHANGED <<invoices, chart>>

TradeStep ==
    \/ OrdersKept /\ BooksKept
    \/ \E o \in OrderIds : Opens(o) \/ Drafts(o) \/ Confirms(o) \/ Cancels(o) \/ Pays(o)
    \/ \E order \in OrderIds \cup {NoOrder}, ls \in Lines : Bills(order, ls)
    \/ Settles \/ Seeds \/ Reverses

LEMMA OrderStepsTrade ==
    ASSUME ShopInv, NEW c \in Conns, NEW o \in OrderIds, OrderStep(c, o)
    PROVE  TradeStep
<1>1. /\ orders \in [OrderIds -> OrderRow] /\ lines \in [OrderIds -> Lines]
      /\ moved \in [OrderIds -> Int]
      /\ orders[o] \in OrderRow /\ lines[o] \in Lines /\ moved[o] \in Int
  BY DEF ShopInv, OrdersTyped
<1>2. Seen(c, "order", o) =>
          /\ seen[c].row = orders[o] /\ seen[c].lines = lines[o]
          /\ orders[o].status \notin {"none", "deleted"}
  BY OrderIsRead DEF ShopInv
<1>3. \A row : orders[o].status # "deleted" /\ orders' = Put(orders, o, row) =>
          orders'[o] = row /\ \A p \in OrderIds \ {o} : orders'[p] = orders[p]
  BY <1>1 DEF Put
<1>4. \A to \in Statuses : LET row == [orders[o] EXCEPT !.status = to]
                           IN  row.status = to /\ row.place = orders[o].place
  BY <1>1 DEF OrderRow
<1>5. CASE GetOrder(c, o)
  BY <1>5 DEF GetOrder, TradeStep, OrdersKept, BooksKept, orderVars, bookVars
<1>6. CASE OrderDelete(c, o)
  <2>1. orders[o].status = "draft"
    BY <1>2, <1>6 DEF OrderDelete, OrderRead
  <2>2. /\ orders' = [orders EXCEPT ![o] = [orders[o] EXCEPT !.status = "deleted"]]
        /\ lines' = [lines EXCEPT ![o] = NoLines]
        /\ moved' = moved /\ BooksKept
    BY <1>6 DEF OrderDelete, BooksKept, bookVars
  <2>3. Turns(o, "draft", "deleted")
    BY <1>1, <1>4, <2>1, <2>2 DEF Turns, Statuses
  <2> QED
    BY <2>2, <2>3 DEF Drafts, TradeStep
<1>7. CASE OrderConfirm(c, o)
  <2> DEFINE row == [orders[o] EXCEPT !.status = "confirmed"]
             out == IF orders[o].place THEN Units(lines[o]) ELSE 0
  <2>1. /\ orders[o].status = "draft"
        /\ Units(lines[o]) > 0 => orders[o].place
        /\ orders' = Put(orders, o, row) /\ lines' = lines
        /\ moved' = [moved EXCEPT ![o] = @ - out]
        /\ Post(SaleEntries(o, lines[o])) /\ UNCHANGED <<invoices, chart>>
    BY <1>2, <1>7 DEF OrderConfirm, OrderRead, HasPlace, bookVars
  <2>2. row.status = "confirmed" /\ row.place = orders[o].place
    BY <1>4 DEF Statuses
  <2> HIDE DEF row, out
  <2>3. orders'[o] = row /\ \A p \in OrderIds \ {o} : orders'[p] = orders[p]
    BY <1>3, <2>1
  <2>4. moved'[o] = moved[o] - out /\ \A p \in OrderIds \ {o} : moved'[p] = moved[p]
    BY <1>1, <2>1
  <2>5. Turns(o, "draft", "confirmed")
    BY <2>1, <2>2, <2>3, <2>4 DEF Turns
  <2> QED
    BY <2>1, <2>2, <2>3, <2>4, <2>5 DEF Confirms, TradeStep, out
<1>8. CASE OrderCancel(c, o)
  <2> DEFINE row == [orders[o] EXCEPT !.status = "cancelled"]
             back == Returned(c, o)
  <2>1. /\ orders[o].status \in {"draft", "confirmed"}
        /\ orders' = Put(orders, o, row) /\ lines' = lines
        /\ moved' = [moved EXCEPT ![o] = @ + back]
        /\ back = IF orders[o].status = "confirmed" THEN Units(lines[o]) ELSE 0
        /\ IF orders[o].status = "confirmed" THEN ReverseSale(o) ELSE UNCHANGED journals
        /\ UNCHANGED <<invoices, chart>>
    BY <1>2, <1>8 DEF OrderCancel, OrderRead, Returned, bookVars
  <2>2. row.status = "cancelled"
    BY <1>4 DEF Statuses
  <2> HIDE DEF row, back
  <2>3. orders'[o] = row /\ \A p \in OrderIds \ {o} : orders'[p] = orders[p]
    BY <1>3, <2>1
  <2>4. moved'[o] = moved[o] + back /\ \A p \in OrderIds \ {o} : moved'[p] = moved[p]
    BY <1>1, <2>1
  <2>5. Turns(o, orders[o].status, "cancelled")
    BY <2>1, <2>2, <2>3, <2>4 DEF Turns
  <2>6. CASE orders[o].status = "confirmed"
    BY <2>1, <2>4, <2>5, <2>6 DEF Cancels, TradeStep
  <2>7. CASE orders[o].status = "draft"
    <3>1. moved'[o] = moved[o] /\ BooksKept /\ Turns(o, "draft", "cancelled")
      BY <1>1, <2>1, <2>4, <2>5, <2>7 DEF BooksKept
    <3> QED
      BY <3>1 DEF Drafts, TradeStep
  <2> QED
    BY <2>1, <2>6, <2>7
<1>9. CASE OrderMarkPaid(c, o)
  <2> DEFINE row == [orders[o] EXCEPT !.status = "paid"]
  <2>1. /\ orders[o].status = "confirmed"
        /\ orders' = Put(orders, o, row) /\ lines' = lines /\ moved' = moved /\ BooksKept
    BY <1>2, <1>9 DEF OrderMarkPaid, OrderRead, BooksKept, bookVars
  <2>2. row.status = "paid" /\ row.place = orders[o].place
    BY <1>4 DEF Statuses
  <2> HIDE DEF row
  <2>3. orders'[o] = row /\ \A p \in OrderIds \ {o} : orders'[p] = orders[p]
    BY <1>3, <2>1
  <2> QED
    BY <2>1, <2>2, <2>3 DEF Turns, Pays, TradeStep
<1>10. CASE InvoiceOrder(c, o)
  <2>1. Bills(o, lines[o])
    BY <1>2, <1>10 DEF InvoiceOrder, OrderRead, Bills, OrdersKept, orderVars, bookVars
  <2> QED
    BY <1>1, <2>1 DEF TradeStep
<1>11. ASSUME NEW place \in BOOLEAN, OrderUpdate(c, o, place) PROVE TradeStep
  <2> DEFINE row == [orders[o] EXCEPT !.place = place]
  <2>1. /\ orders[o].status = "draft"
        /\ orders' = Put(orders, o, row) /\ lines' = lines /\ moved' = moved /\ BooksKept
    BY <1>2, <1>11 DEF OrderUpdate, OrderRead, BooksKept, bookVars
  <2>2. row.status = "draft"
    BY <1>1, <2>1 DEF OrderRow
  <2> HIDE DEF row
  <2>3. orders'[o] = row /\ \A p \in OrderIds \ {o} : orders'[p] = orders[p]
    BY <1>3, <2>1
  <2> QED
    BY <2>1, <2>2, <2>3 DEF Turns, Drafts, TradeStep
<1>12. ASSUME NEW r \in Rows, NEW n \in 0..MaxQty, OrderItemEdit(c, o, r, n) PROVE TradeStep
  <2> DEFINE ls == Edited(lines[o], lines[o], r, n)
  <2>1. /\ orders[o].status = "draft"
        /\ lines' = [lines EXCEPT ![o] = ls] /\ orders' = orders /\ moved' = moved /\ BooksKept
    BY <1>2, <1>12 DEF OrderItemEdit, OrderRead, BooksKept, bookVars
  <2> HIDE DEF ls
  <2> QED
    BY <1>1, <2>1 DEF Turns, Drafts, TradeStep
<1> QED
  BY <1>5, <1>6, <1>7, <1>8, <1>9, <1>10, <1>11, <1>12 DEF OrderStep

LEMMA StepsTrade ==
    ASSUME ShopInv, [Next]_vars
    PROVE  TradeStep
<1>1. /\ orders \in [OrderIds -> OrderRow] /\ lines \in [OrderIds -> Lines]
      /\ DOMAIN orders = 1..MaxOrders
  BY DEF ShopInv, OrdersTyped, OrderIds
<1>2. ASSUME UNCHANGED <<orders, lines, moved, invoices, journals, chart>> PROVE TradeStep
  BY <1>2 DEF TradeStep, OrdersKept, BooksKept
<1>3. ASSUME NEW o \in OrderIds, NEW place \in BOOLEAN, NEW ls \in Lines,
             o = NextNumber(orders), Unused(orders) # {},
             orders' = [orders EXCEPT ![o] = [status |-> "draft", place |-> place]],
             lines' = [lines EXCEPT ![o] = ls], moved' = moved, BooksKept
      PROVE  TradeStep
  <2>1. orders[o].status = "none"
    BY <1>1, <1>3, NextNumberIsUnused, BoundsAssumption
  <2> QED
    BY <1>1, <1>3, <2>1 DEF Turns, Opens, TradeStep
<1>4. Unused(orders) # {} => NextNumber(orders) \in OrderIds
  BY <1>1, NextNumberIsUnused, BoundsAssumption DEF OrderIds
<1>5. CASE UNCHANGED vars
  BY <1>2, <1>5 DEF vars, orderVars, bookVars
<1>6. CASE \E c \in Conns : Abandon(c)
  BY <1>2, <1>6 DEF Abandon, orderVars, bookVars
<1>7. ASSUME NEW c \in Conns, NEW q \in QuoteIds, QuoteStep(c, q) PROVE TradeStep
  <2>1. CASE QuoteAccept(c, q)
    <3>1. Seen(c, "quote", q)
      BY <2>1 DEF QuoteAccept, QuoteSent
    <3>2. seen[c].lines \in Lines
      BY <3>1, QuoteIsRead DEF ShopInv, QuotesTyped
    <3>3. /\ Unused(orders) # {} /\ moved' = moved /\ BooksKept
          /\ orders' = [orders EXCEPT ![NextNumber(orders)] = [status |-> "draft", place |-> FALSE]]
          /\ lines' = [lines EXCEPT ![NextNumber(orders)] = seen[c].lines]
      BY <2>1 DEF QuoteAccept, BooksKept, bookVars
    <3> QED
      BY <1>3, <1>4, <3>2, <3>3
  <2>2. CASE ~QuoteAccept(c, q)
    BY <1>2, <1>7, <2>2 DEF QuoteStep, GetQuote, QuoteUpdate, QuoteSend, QuoteDecline,
       QuoteExpire, QuoteDelete, QuoteItemEdit, QuoteWrite, orderVars, bookVars
  <2> QED
    BY <2>1, <2>2
<1>8. CASE QuoteCreate
  BY <1>2, <1>8 DEF QuoteCreate, orderVars, bookVars
<1>9. ASSUME NEW place \in BOOLEAN, OrderCreate(place) PROVE TradeStep
  <2> DEFINE o == NextNumber(orders)
  <2>1. /\ Unused(orders) # {} /\ moved' = moved /\ BooksKept
        /\ orders' = [orders EXCEPT ![o] = [status |-> "draft", place |-> place]]
        /\ lines' = lines
    BY <1>9 DEF OrderCreate, BooksKept, bookVars
  <2>2. o \in OrderIds /\ lines[o] \in Lines
    BY <1>1, <1>4, <2>1
  <2>3. lines' = [lines EXCEPT ![o] = lines[o]]
    BY <1>1, <2>1
  <2> HIDE DEF o
  <2> QED
    BY <1>3, <2>1, <2>2, <2>3 DEF o
<1>10. ASSUME NEW ls \in Lines, InvoiceAlone(ls) PROVE TradeStep
  <2>1. Bills(NoOrder, ls)
    BY <1>10 DEF InvoiceAlone, Bills, OrdersKept, orderVars, bookVars
  <2> QED
    BY <2>1 DEF TradeStep
<1>11. ASSUME NEW i \in DOMAIN invoices, NEW amount \in 1..MaxPayment, InvoicePay(i, amount)
       PROVE  TradeStep
  <2>1. Settles
    BY <1>11 DEF InvoicePay, Settles, OrdersKept, orderVars, bookVars
  <2> QED
    BY <2>1 DEF TradeStep
<1>12. CASE CoaSeed \/ \E a \in TradeAccounts : CoaCreate(a)
  <2>1. Seeds
    BY <1>12 DEF CoaSeed, CoaCreate, Seeds, OrdersKept, orderVars
  <2> QED
    BY <2>1 DEF TradeStep
<1>13. CASE SetLock
  BY <1>2, <1>13 DEF SetLock, orderVars
<1>14. ASSUME NEW k \in DOMAIN journals, JournalReverse(k) PROVE TradeStep
  <2>1. Reverses
    BY <1>14 DEF JournalReverse, Reverses, OrdersKept, orderVars, bookVars
  <2> QED
    BY <2>1 DEF TradeStep
<1> QED
  BY <1>5, <1>6, <1>7, <1>8, <1>9, <1>10, <1>11, <1>12, <1>13, <1>14, OrderStepsTrade DEF Next

-----------------------------------------------------------------------------
(***************************************************************************)
(* Stock.                                                                  *)
(***************************************************************************)
LEMMA StockStep ==
    ASSUME ShopInv, StockFollowsOrders, TradeStep
    PROVE  StockFollowsOrders'
<1> DEFINE Out(o) == /\ moved[o] = IF Sold(o) THEN -Units(lines[o]) ELSE 0
                     /\ moved[o] # 0 => orders[o].place
<1>1. \A o \in OrderIds : Out(o)
  BY DEF StockFollowsOrders
<1>2. \A o \in OrderIds : Units(lines[o]) \in Nat /\ moved[o] \in Int
  BY UnitsTyped DEF ShopInv, OrdersTyped
<1>3. ASSUME NEW o \in OrderIds, orders'[o] = orders[o], lines'[o] = lines[o],
             moved'[o] = moved[o]
      PROVE  Out(o)'
  BY <1>1, <1>3 DEF Sold
<1>4. ASSUME NEW o \in OrderIds, Opens(o) \/ Drafts(o) \/ Confirms(o) \/ Cancels(o) \/ Pays(o)
      PROVE  StockFollowsOrders'
  <2>1. ASSUME NEW p \in OrderIds \ {o} PROVE Out(p)'
    BY <1>3, <1>4, <2>1 DEF Opens, Drafts, Confirms, Cancels, Pays, Turns
  <2>0. Out(o) /\ Units(lines[o]) \in Nat /\ moved[o] \in Int
    BY <1>1, <1>2
  <2>6. Out(o)'
    <3>2. CASE Opens(o) \/ Drafts(o)
      <4>1. ~Sold(o) /\ ~Sold(o)' /\ moved'[o] = moved[o]
        BY <3>2 DEF Opens, Drafts, Turns, Sold
      <4> QED
        BY <2>0, <4>1
    <3>3. CASE Confirms(o)
      <4>1. ~Sold(o) /\ Sold(o)' /\ lines' = lines /\ orders'[o].place = orders[o].place
        BY <3>3 DEF Confirms, Turns, Sold
      <4>2. /\ Units(lines[o]) > 0 => orders[o].place
            /\ moved'[o] = moved[o] - IF orders[o].place THEN Units(lines[o]) ELSE 0
        BY <3>3 DEF Confirms
      <4>3. moved'[o] = -Units(lines[o])
        BY <2>0, <4>1, <4>2
      <4>4. moved'[o] # 0 => orders'[o].place
        BY <2>0, <4>1, <4>2, <4>3
      <4> QED
        BY <4>1, <4>3, <4>4
    <3>4. CASE Cancels(o)
      <4>1. Sold(o) /\ ~Sold(o)' /\ moved'[o] = moved[o] + Units(lines[o])
        BY <3>4 DEF Cancels, Turns, Sold
      <4>2. moved'[o] = 0
        BY <2>0, <4>1
      <4> QED
        BY <4>1, <4>2
    <3>5. CASE Pays(o)
      <4>1. /\ Sold(o) /\ Sold(o)' /\ moved' = moved /\ lines' = lines
            /\ orders'[o].place = orders[o].place
        BY <3>5 DEF Pays, Turns, Sold
      <4> QED
        BY <2>0, <4>1
    <3> QED
      BY <1>4, <3>2, <3>3, <3>4, <3>5
  <2> QED
    BY <2>1, <2>6 DEF StockFollowsOrders
<1>5. CASE OrdersKept
  BY <1>1, <1>5 DEF OrdersKept, StockFollowsOrders, Sold
<1> QED
  BY <1>4, <1>5 DEF TradeStep, Bills, Settles, Seeds, Reverses

\* With one connection the stock of an order is out exactly while the order is
\* confirmed or paid, and an order with stock out still names the location
\* sales_order_cancel brings it back to: confirming needs a location for goods, and
\* the lines and the location of an order change only while it is a draft.
THEOREM StockIsOutWhileSold ==
    ASSUME SoleConnection
    PROVE  Spec => []StockFollowsOrders
<1>1. Init => StockFollowsOrders
  BY DEF Init, StockFollowsOrders, Sold
<1>2. ShopInv /\ StockFollowsOrders /\ [Next]_vars => StockFollowsOrders'
  BY StepsTrade, StockStep
<1> QED
  BY <1>1, <1>2, ShopHolds, PTL DEF Spec

-----------------------------------------------------------------------------
(***************************************************************************)
(* The journals of a shop.  The invariant is stated of any ledger js, so   *)
(* that a transaction that posts two journals is two steps of the          *)
(* argument.                                                               *)
(***************************************************************************)
\* People reverse the revenue of orders and nothing else.
OnlyRevenueByHand == ReversedByHand \subseteq {Revenue(o) : o \in OrderIds}

Bill(i) == <<"invoice_revenue", i>>
Settling(k) == <<"payment", k>>
Legs == {Cogs(o) : o \in OrderIds} \cup {Revenue(o) : o \in OrderIds}

Row == [source : Sources \cup {Manual}, reversal_of : Nat, lines : Seq(Line)]

\* A reversal undoes an earlier journal of a sale, which no other reversal does and
\* which is no reversal; and a source has one journal.
Shape(js) ==
    /\ js \in Seq(Row)
    /\ \A k \in DOMAIN js :
           IF js[k].source = Manual
           THEN /\ js[k].reversal_of \in DOMAIN js
                /\ js[js[k].reversal_of].source \in Legs
                /\ js[k].lines = Flip(js[js[k].reversal_of].lines)
           ELSE js[k].reversal_of = 0
    /\ \A j, k \in DOMAIN js : j # k =>
           /\ js[j].source = js[k].source => js[j].source = Manual
           /\ js[j].reversal_of = js[k].reversal_of => js[j].reversal_of = 0

\* What the journals say of the orders and the invoices.
TellsSale(row, statuses, ls) ==
    /\ \A o \in OrderIds :
           /\ row.source = Cogs(o) =>
                  /\ statuses[o].status \in {"confirmed", "paid", "cancelled"}
                  /\ row.lines = Entry(Cogs(o), "cogs", "inventory", CostOf(ls[o])).lines
           /\ row.source = Revenue(o) =>
                  /\ statuses[o].status \in {"confirmed", "paid", "cancelled"}
                  /\ row.lines = Entry(Revenue(o), "receivable", "revenue", GrossOf(ls[o])).lines

TellsBill(row, is) ==
    \A i \in 1..MaxInvoices : row.source = Bill(i) =>
        /\ i \in DOMAIN is /\ is[i].order = NoOrder
        /\ row.lines = Entry(Bill(i), "receivable", "revenue", GrossOf(is[i].lines)).lines

TellsPayment(row) ==
    \A k \in 1..MaxJournals : row.source = Settling(k) =>
        \E amount \in Nat : row.lines = Entry(Settling(k), "bank", "receivable", amount).lines

\* Every source there is.
Known(row) ==
    row.source \in {Manual} \cup Legs \cup {Bill(i) : i \in 1..MaxInvoices}
                       \cup {Settling(k) : k \in 1..MaxJournals}

Tells(js, statuses, ls, is) ==
    \A k \in DOMAIN js :
        /\ Known(js[k])
        /\ TellsSale(js[k], statuses, ls)
        /\ TellsBill(js[k], is)
        /\ TellsPayment(js[k])

\* A cancelled order has nothing left in the ledger, and the cost of one that was
\* not cancelled has not been taken back.
Undone(js, statuses) ==
    \A k \in DOMAIN js, o \in OrderIds :
        /\ js[k].source = Cogs(o) =>
               (IsReversed(js, k) <=> statuses[o].status = "cancelled")
        /\ js[k].source = Revenue(o) =>
               (statuses[o].status = "cancelled" => IsReversed(js, k))

LEMMA SourcesDiffer ==
    /\ \A o, p \in OrderIds : o # p => Cogs(o) # Cogs(p) /\ Revenue(o) # Revenue(p)
    /\ \A o, p \in OrderIds : Cogs(o) # Revenue(p)
    /\ \A o \in OrderIds, i \in Nat :
           Bill(i) \notin {Cogs(o), Revenue(o)} /\ Settling(i) \notin {Cogs(o), Revenue(o)}
    /\ \A i, j \in Nat : Bill(i) # Settling(j) /\ (i # j => Bill(i) # Bill(j))
BY DEF Cogs, Revenue, Bill, Settling, OrderIds

LEMMA LegsAreSources == Legs \subseteq Sources /\ Manual \notin Sources
BY TradeAssumption, ManualAssumption DEF Legs, Cogs, Revenue, OrderIds

\* What an entry moves: its amount to the account it debits, from the one it credits.
Swings(row, debited, credited, amount) ==
    \A a : Move(row.lines, a, "ZAR")
           = (IF debited = a THEN amount ELSE 0) - (IF credited = a THEN amount ELSE 0)

LEMMA EntryIsRow ==
    ASSUME NEW source \in Sources, NEW debited \in Accounts, NEW credited \in Accounts,
           NEW amount \in Nat, NEW row, row = Entry(source, debited, credited, amount)
    PROVE  /\ row \in Row /\ row.source = source /\ row.reversal_of = 0
           /\ Len(row.lines) = 2
           /\ Swings(row, debited, credited, amount)
<1> DEFINE l == [coa |-> debited, debit |-> amount, credit |-> 0, ccy |-> "ZAR"]
           m == [coa |-> credited, debit |-> 0, credit |-> amount, ccy |-> "ZAR"]
           ls == <<l, m>>
<1>1. l \in Line /\ m \in Line
  BY TradeAssumption DEF Line
<1>2. /\ l.coa = debited /\ l.debit = amount /\ l.credit = 0 /\ l.ccy = "ZAR"
      /\ m.coa = credited /\ m.debit = 0 /\ m.credit = amount /\ m.ccy = "ZAR"
  OBVIOUS
<1> HIDE DEF l, m
<1>3. ls \in Seq(Line) /\ Len(ls) = 2 /\ ls[1] = l /\ ls[2] = m
  BY <1>1
<1> HIDE DEF ls
<1>4. ASSUME NEW a
      PROVE  Move(ls, a, "ZAR")
                 = (IF debited = a THEN amount ELSE 0) - (IF credited = a THEN amount ELSE 0)
  <2>1. Move(ls, a, "ZAR") = LineMove(ls, a, "ZAR", 1) + LineMove(ls, a, "ZAR", 2)
    BY <1>3, MoveOfTwo
  <2>2. LineMove(ls, a, "ZAR", 1) = IF debited = a THEN amount ELSE 0
    BY <1>2, <1>3 DEF LineMove
  <2>3. LineMove(ls, a, "ZAR", 2) = IF credited = a THEN -amount ELSE 0
    BY <1>2, <1>3 DEF LineMove
  <2> QED
    BY <2>1, <2>2, <2>3
<1>5. row = [source |-> source, reversal_of |-> 0, lines |-> ls]
  BY DEF Entry, ls, l, m
<1>6. row.lines = ls /\ row.source = source /\ row.reversal_of = 0 /\ row \in Row
  BY <1>3, <1>5 DEF Row
<1> QED
  BY <1>3, <1>4, <1>6 DEF Swings

\* No reversal is reversed, so what is reversed once is reversed.
LEMMA NetReversedOnce ==
    ASSUME NEW js, Shape(js), NEW k \in DOMAIN js
    PROVE  IsNetReversed(js, k) <=> IsReversed(js, k)
<1> DEFINE UndoneBy(c) ==
               c = [i \in DOMAIN js |-> IsReversed(js, i) /\ ~c[ReversalOf(js, i)]]
           once == [i \in DOMAIN js |-> IsReversed(js, i)]
           cancelled == CHOOSE c : UndoneBy(c)
<1>1. ASSUME NEW i \in DOMAIN js, IsReversed(js, i)
      PROVE  ReversalOf(js, i) \in DOMAIN js /\ ~IsReversed(js, ReversalOf(js, i))
  <2> DEFINE r == ReversalOf(js, i)
  <2>1. r \in DOMAIN js /\ js[r].reversal_of = i
    BY <1>1 DEF IsReversed, ReversalOf, ReversalsOf
  <2>2. i # 0
    BY DEF Shape
  <2>3. js[r].source = Manual
    BY <2>1, <2>2 DEF Shape
  <2>4. ASSUME NEW s \in DOMAIN js, js[s].reversal_of = r PROVE FALSE
    <3>1. r # 0
      BY <2>1 DEF Shape
    <3>2. js[s].source = Manual
      BY <2>4, <3>1 DEF Shape
    <3>3. js[r].source \in Legs
      BY <2>4, <3>2 DEF Shape
    <3> QED
      BY <2>3, <3>3, LegsAreSources
  <2> QED
    BY <2>1, <2>4 DEF IsReversed, ReversalsOf
<1>2. UndoneBy(once)
  <2>1. ASSUME NEW i \in DOMAIN js
        PROVE  IsReversed(js, i) = (IsReversed(js, i) /\ ~once[ReversalOf(js, i)])
    <3>1. CASE IsReversed(js, i)
      BY <1>1, <3>1
    <3>2. CASE ~IsReversed(js, i)
      <4>1. IsReversed(js, i) = FALSE
        BY <3>2 DEF IsReversed
      <4> QED
        BY <4>1
    <3> QED
      BY <3>1, <3>2
  <2> QED
    BY <2>1
<1>3. UndoneBy(cancelled)
  BY <1>2
<1>4. IsNetReversed(js, k) <=> IsReversed(js, k) /\ ~cancelled[ReversalOf(js, k)]
  BY DEF IsNetReversed
<1> HIDE DEF cancelled
<1>5. IsReversed(js, k) => ~cancelled[ReversalOf(js, k)]
  BY <1>1, <1>3
<1> QED
  BY <1>4, <1>5

LEMMA MoreRows ==
    ASSUME NEW js \in Seq(Row), NEW row \in Row
    PROVE  /\ Append(js, row) \in Seq(Row)
           /\ DOMAIN Append(js, row) = DOMAIN js \cup {Len(js) + 1}
           /\ Len(js) + 1 \notin DOMAIN js /\ Len(js) \in Nat /\ 0 \notin DOMAIN js
           /\ DOMAIN js \subseteq Nat
           /\ Append(js, row)[Len(js) + 1] = row
           /\ \A k \in DOMAIN js : Append(js, row)[k] = js[k] /\ js[k] \in Row
OBVIOUS

\* A journal of a source that has none yet.
LEMMA EntryKeepsShape ==
    ASSUME NEW js, Shape(js), NEW row \in Row, row.source \in Sources, row.reversal_of = 0,
           \A k \in DOMAIN js : js[k].source # row.source
    PROVE  /\ Shape(Append(js, row))
           /\ \A k \in DOMAIN js : IsReversed(Append(js, row), k) <=> IsReversed(js, k)
           /\ ~IsReversed(Append(js, row), Len(js) + 1)
<1> DEFINE more == Append(js, row)
           n == Len(js) + 1
<1>1. /\ more \in Seq(Row) /\ DOMAIN more = DOMAIN js \cup {n} /\ n \notin DOMAIN js
      /\ more[n] = row /\ \A k \in DOMAIN js : more[k] = js[k]
      /\ 0 \notin DOMAIN js /\ n # 0
  BY MoreRows DEF Shape
<1>2. row.source # Manual
  BY ManualAssumption
<1> HIDE DEF more, n
<1>3. \A k \in DOMAIN js : js[k].source # Manual => js[k].reversal_of = 0
  BY DEF Shape
<1>4. \A k \in DOMAIN js : js[k].source = Manual => js[k].reversal_of \in DOMAIN js
  BY DEF Shape
<1>5. Shape(more)
  <2>1. ASSUME NEW k \in DOMAIN more
        PROVE  IF more[k].source = Manual
               THEN /\ more[k].reversal_of \in DOMAIN more
                    /\ more[more[k].reversal_of].source \in Legs
                    /\ more[k].lines = Flip(more[more[k].reversal_of].lines)
               ELSE more[k].reversal_of = 0
    <3>1. CASE k = n
      BY <1>1, <1>2, <3>1
    <3>2. CASE k \in DOMAIN js
      BY <1>1, <1>4, <3>2 DEF Shape
    <3> QED
      BY <1>1, <3>1, <3>2
  <2>2. ASSUME NEW j \in DOMAIN more, NEW k \in DOMAIN more, j # k
        PROVE  /\ more[j].source = more[k].source => more[j].source = Manual
               /\ more[j].reversal_of = more[k].reversal_of => more[j].reversal_of = 0
    <3>1. CASE j = n /\ k \in DOMAIN js
      BY <1>1, <3>1
    <3>2. CASE k = n /\ j \in DOMAIN js
      BY <1>1, <3>2
    <3>3. CASE j \in DOMAIN js /\ k \in DOMAIN js
      BY <1>1, <2>2, <3>3 DEF Shape
    <3> QED
      BY <1>1, <2>2, <3>1, <3>2, <3>3
  <2> QED
    BY <1>1, <2>1, <2>2 DEF Shape
<1>6. \A k \in DOMAIN js : IsReversed(more, k) <=> IsReversed(js, k)
  BY <1>1 DEF IsReversed, ReversalsOf
<1>7. ~IsReversed(more, n)
  BY <1>1, <1>3, <1>4 DEF IsReversed, ReversalsOf
<1> QED
  BY <1>5, <1>6, <1>7 DEF more, n

\* The reversal of a journal of a sale that was not reversed yet.
LEMMA ReversalKeepsShape ==
    ASSUME NEW js, Shape(js), NEW of \in DOMAIN js, js[of].source \in Legs,
           ~IsReversed(js, of), NEW row,
           row = [source |-> Manual, reversal_of |-> of, lines |-> Flip(js[of].lines)]
    PROVE  /\ row \in Row
           /\ Shape(Append(js, row))
           /\ \A k \in DOMAIN js :
                  IsReversed(Append(js, row), k) <=> IsReversed(js, k) \/ k = of
           /\ ~IsReversed(Append(js, row), Len(js) + 1)
<1> DEFINE more == Append(js, row)
           n == Len(js) + 1
<1>0. js \in Seq(Row) /\ js[of] \in Row
  BY DEF Shape
<1>2. /\ row \in Row /\ row.source = Manual /\ row.reversal_of = of
      /\ row.lines = Flip(js[of].lines)
  <2>1. Flip(js[of].lines) \in Seq(Line)
    BY <1>0, FlipIsLines DEF Row
  <2> QED
    BY <1>0, <2>1 DEF Row
<1>1. /\ more \in Seq(Row) /\ DOMAIN more = DOMAIN js \cup {n} /\ n \notin DOMAIN js
      /\ more[n] = row /\ \A k \in DOMAIN js : more[k] = js[k]
      /\ 0 \notin DOMAIN js /\ n # 0
  BY <1>0, <1>2, MoreRows
<1> HIDE DEF more, n
<1>3. \A k \in DOMAIN js : js[k].reversal_of \in DOMAIN js \cup {0}
  BY DEF Shape
<1>4. \A k \in DOMAIN js : js[k].reversal_of # of
  BY DEF IsReversed, ReversalsOf
<1>5. Shape(more)
  <2>1. ASSUME NEW k \in DOMAIN more
        PROVE  IF more[k].source = Manual
               THEN /\ more[k].reversal_of \in DOMAIN more
                    /\ more[more[k].reversal_of].source \in Legs
                    /\ more[k].lines = Flip(more[more[k].reversal_of].lines)
               ELSE more[k].reversal_of = 0
    <3>1. CASE k = n
      BY <1>1, <1>2, <3>1
    <3>2. CASE k \in DOMAIN js
      BY <1>1, <1>3, <3>2 DEF Shape
    <3> QED
      BY <1>1, <3>1, <3>2
  <2>2. ASSUME NEW j \in DOMAIN more, NEW k \in DOMAIN more, j # k
        PROVE  /\ more[j].source = more[k].source => more[j].source = Manual
               /\ more[j].reversal_of = more[k].reversal_of => more[j].reversal_of = 0
    <3>1. CASE j = n /\ k \in DOMAIN js
      BY <1>1, <1>2, <1>4, <3>1
    <3>2. CASE k = n /\ j \in DOMAIN js
      BY <1>1, <1>2, <1>4, <3>2
    <3>3. CASE j \in DOMAIN js /\ k \in DOMAIN js
      BY <1>1, <2>2, <3>3 DEF Shape
    <3> QED
      BY <1>1, <2>2, <3>1, <3>2, <3>3
  <2> QED
    BY <1>1, <2>1, <2>2 DEF Shape
<1>6. \A k \in DOMAIN js : IsReversed(more, k) <=> IsReversed(js, k) \/ k = of
  BY <1>1, <1>2 DEF IsReversed, ReversalsOf
<1>7. ~IsReversed(more, n)
  BY <1>1, <1>2, <1>3 DEF IsReversed, ReversalsOf
<1> QED
  BY <1>2, <1>5, <1>6, <1>7 DEF more, n

-----------------------------------------------------------------------------
(***************************************************************************)
(* What the ledger nets to, against what the orders and the invoices say.  *)
(***************************************************************************)
Revenued(js, a) == NetOf(js, DOMAIN js, a, "ZAR")

Live(js, source) == \E k \in DOMAIN js : js[k].source = source /\ ~IsReversed(js, k)

Earning(js, ls) == [o \in OrderIds |-> IF Live(js, Revenue(o)) THEN GrossOf(ls[o]) ELSE 0]

Billing(js, is) ==
    [i \in DOMAIN is |-> IF Live(js, Bill(i)) THEN GrossOf(is[i].lines) ELSE 0]

\* The revenue account holds what live sales and invoices with no order earned.
Earned(js, ls, is) ==
    Revenued(js, "revenue") = -(Total(Earning(js, ls)) + Total(Billing(js, is)))

Invoice == [order : OrderIds \cup {NoOrder}, lines : Lines, paid : Int]

LEMMA AmountsTyped ==
    ASSUME NEW js, NEW ls \in [OrderIds -> Lines], NEW is \in Seq(Invoice)
    PROVE  /\ IsFiniteSet(OrderIds) /\ IsFiniteSet(DOMAIN is)
           /\ DOMAIN Earning(js, ls) = OrderIds /\ DOMAIN Billing(js, is) = DOMAIN is
           /\ \A o \in OrderIds : /\ GrossOf(ls[o]) \in Nat /\ CostOf(ls[o]) \in Nat
                                  /\ Earning(js, ls)[o] \in Int
                                  /\ Earning(js, ls)[o]
                                         = IF Live(js, Revenue(o)) THEN GrossOf(ls[o]) ELSE 0
           /\ \A i \in DOMAIN is : /\ GrossOf(is[i].lines) \in Nat
                                   /\ is[i] \in Invoice
                                   /\ Billing(js, is)[i] \in Int
                                   /\ Billing(js, is)[i]
                                         = IF Live(js, Bill(i)) THEN GrossOf(is[i].lines) ELSE 0
           /\ Total(Earning(js, ls)) \in Int /\ Total(Billing(js, is)) \in Int
<1>1. IsFiniteSet(OrderIds)
  BY FS_Interval, BoundsAssumption DEF OrderIds
<1>2. IsFiniteSet(DOMAIN is)
  <2>1. DOMAIN is = 1..Len(is) /\ Len(is) \in Nat
    OBVIOUS
  <2> QED
    BY <2>1, FS_Interval
<1>3. \A o \in OrderIds : GrossOf(ls[o]) \in Nat /\ CostOf(ls[o]) \in Nat
  BY UnitsTyped
<1>4. \A i \in DOMAIN is : is[i] \in Invoice /\ is[i].lines \in Lines
  <2>1. \A i \in DOMAIN is : is[i] \in Invoice
    OBVIOUS
  <2> QED
    BY <2>1 DEF Invoice
<1>5. \A i \in DOMAIN is : GrossOf(is[i].lines) \in Nat
  BY <1>4, UnitsTyped
<1>6. /\ DOMAIN Earning(js, ls) = OrderIds
      /\ \A o \in OrderIds : /\ Earning(js, ls)[o] \in Int
                             /\ Earning(js, ls)[o]
                                   = IF Live(js, Revenue(o)) THEN GrossOf(ls[o]) ELSE 0
  BY <1>3 DEF Earning
<1>7. /\ DOMAIN Billing(js, is) = DOMAIN is
      /\ \A i \in DOMAIN is : /\ Billing(js, is)[i] \in Int
                              /\ Billing(js, is)[i]
                                    = IF Live(js, Bill(i)) THEN GrossOf(is[i].lines) ELSE 0
  BY <1>5 DEF Billing
<1>8. Total(Earning(js, ls)) \in Int
  BY <1>1, <1>6, TotalInt
<1>9. Total(Billing(js, is)) \in Int
  BY <1>2, <1>7, TotalInt
<1> QED
  BY <1>1, <1>2, <1>3, <1>4, <1>5, <1>6, <1>7, <1>8, <1>9

\* Nothing that is earned comes or goes.
LEMMA EarnedSame ==
    ASSUME NEW js, NEW more, NEW ls \in [OrderIds -> Lines], NEW is \in Seq(Invoice),
           Earned(js, ls, is),
           \A o \in OrderIds : Live(more, Revenue(o)) <=> Live(js, Revenue(o)),
           \A i \in DOMAIN is : Live(more, Bill(i)) <=> Live(js, Bill(i)),
           Revenued(more, "revenue") = Revenued(js, "revenue")
    PROVE  Earned(more, ls, is)
<1>1. Total(Earning(more, ls)) = Total(Earning(js, ls))
  <2>1. /\ DOMAIN Earning(js, ls) = OrderIds /\ DOMAIN Earning(more, ls) = OrderIds
        /\ IsFiniteSet(OrderIds)
    BY AmountsTyped
  <2>2. \A o \in OrderIds : Earning(more, ls)[o] = Earning(js, ls)[o]
    BY DEF Earning
  <2> QED
    BY <2>1, <2>2, TotalSame
<1>2. Total(Billing(more, is)) = Total(Billing(js, is))
  <2>1. /\ DOMAIN Billing(js, is) = DOMAIN is /\ DOMAIN Billing(more, is) = DOMAIN is
        /\ IsFiniteSet(DOMAIN is)
    BY AmountsTyped
  <2>2. \A i \in DOMAIN is : Billing(more, is)[i] = Billing(js, is)[i]
    BY DEF Billing
  <2> QED
    BY <2>1, <2>2, TotalSame
<1> QED
  BY <1>1, <1>2 DEF Earned

\* The revenue of one order comes, or goes.
LEMMA EarnedByOrder ==
    ASSUME NEW js, NEW more, NEW ls \in [OrderIds -> Lines], NEW is \in Seq(Invoice),
           Earned(js, ls, is), NEW o \in OrderIds,
           \A p \in OrderIds : p # o => (Live(more, Revenue(p)) <=> Live(js, Revenue(p))),
           \A i \in DOMAIN is : Live(more, Bill(i)) <=> Live(js, Bill(i)),
           Revenued(js, "revenue") \in Int,
           Revenued(more, "revenue")
               = Revenued(js, "revenue") + (Earning(js, ls)[o] - Earning(more, ls)[o])
    PROVE  Earned(more, ls, is)
<1> DEFINE f == Earning(js, ls)
           h == Earning(more, ls)
<1>1. Total(h) = Total(f) + (h[o] - f[o]) /\ Total(f) \in Int
  <2>1. DOMAIN f = OrderIds /\ DOMAIN h = OrderIds /\ IsFiniteSet(OrderIds)
    BY AmountsTyped
  <2>2. \A p \in OrderIds : f[p] \in Int /\ h[p] \in Int
    BY AmountsTyped
  <2>3. \A p \in OrderIds : p # o => h[p] = f[p]
    BY DEF Earning
  <2> HIDE DEF f, h
  <2> QED
    BY <2>1, <2>2, <2>3, TotalChange
<1>2. Total(Billing(more, is)) = Total(Billing(js, is)) /\ Total(Billing(js, is)) \in Int
  <2>1. /\ DOMAIN Billing(js, is) = DOMAIN is /\ DOMAIN Billing(more, is) = DOMAIN is
        /\ IsFiniteSet(DOMAIN is) /\ Total(Billing(js, is)) \in Int
    BY AmountsTyped
  <2>2. \A i \in DOMAIN is : Billing(more, is)[i] = Billing(js, is)[i]
    BY DEF Billing
  <2> QED
    BY <2>1, <2>2, TotalSame
<1>3. f[o] \in Int /\ h[o] \in Int
  BY AmountsTyped
<1>4. /\ Revenued(js, "revenue") = -(Total(f) + Total(Billing(js, is)))
      /\ Revenued(more, "revenue") = Revenued(js, "revenue") + (f[o] - h[o])
  BY DEF Earned
<1> HIDE DEF f, h
<1>5. Revenued(more, "revenue") = -(Total(h) + Total(Billing(more, is)))
  BY <1>1, <1>2, <1>3, <1>4
<1> QED
  BY <1>5 DEF Earned, h

LEMMA BillingChange ==
    ASSUME NEW js, NEW more, NEW ls \in [OrderIds -> Lines], NEW is \in Seq(Invoice),
           NEW i \in DOMAIN is,
           \A p \in DOMAIN is : p # i => Billing(more, is)[p] = Billing(js, is)[p]
    PROVE  /\ Total(Billing(more, is))
                  = Total(Billing(js, is)) + (Billing(more, is)[i] - Billing(js, is)[i])
           /\ Total(Billing(js, is)) \in Int
<1> DEFINE f == Billing(js, is)
           h == Billing(more, is)
           D == DOMAIN is
<1>1. DOMAIN f = D /\ DOMAIN h = D /\ IsFiniteSet(D) /\ i \in D
  BY AmountsTyped
<1>2. \A p \in D : f[p] \in Int /\ h[p] \in Int
  BY AmountsTyped
<1>3. \A p \in D : p # i => h[p] = f[p]
  OBVIOUS
<1> HIDE DEF f, h, D
<1>4. Total(h) = Total(f) + (h[i] - f[i]) /\ Total(f) \in Int
  BY <1>1, <1>2, <1>3, TotalChange
<1> QED
  BY <1>4 DEF f, h

\* The revenue of one invoice comes.
LEMMA EarnedByBill ==
    ASSUME NEW js, NEW more, NEW ls \in [OrderIds -> Lines], NEW is \in Seq(Invoice),
           Earned(js, ls, is), NEW i \in DOMAIN is,
           \A p \in OrderIds : Live(more, Revenue(p)) <=> Live(js, Revenue(p)),
           \A j \in DOMAIN is : j # i => (Live(more, Bill(j)) <=> Live(js, Bill(j))),
           Revenued(js, "revenue") \in Int,
           Revenued(more, "revenue")
               = Revenued(js, "revenue") + (Billing(js, is)[i] - Billing(more, is)[i])
    PROVE  Earned(more, ls, is)
<1> DEFINE f == Billing(js, is)
           h == Billing(more, is)
<1>1. Total(h) = Total(f) + (h[i] - f[i]) /\ Total(f) \in Int
  <2>1. \A p \in DOMAIN is : p # i => h[p] = f[p]
    BY DEF Billing
  <2> QED
    BY <2>1, BillingChange
<1>2. Total(Earning(more, ls)) = Total(Earning(js, ls)) /\ Total(Earning(js, ls)) \in Int
  <2>1. /\ DOMAIN Earning(js, ls) = OrderIds /\ DOMAIN Earning(more, ls) = OrderIds
        /\ IsFiniteSet(OrderIds) /\ Total(Earning(js, ls)) \in Int
    BY AmountsTyped
  <2>2. \A o \in OrderIds : Earning(more, ls)[o] = Earning(js, ls)[o]
    BY DEF Earning
  <2> QED
    BY <2>1, <2>2, TotalSame
<1>3. f[i] \in Int /\ h[i] \in Int
  BY AmountsTyped
<1>4. /\ Revenued(js, "revenue") = -(Total(Earning(js, ls)) + Total(f))
      /\ Revenued(more, "revenue") = Revenued(js, "revenue") + (f[i] - h[i])
  BY DEF Earned
<1> HIDE DEF f, h
<1>5. Revenued(more, "revenue") = -(Total(Earning(more, ls)) + Total(h))
  BY <1>1, <1>2, <1>3, <1>4
<1> QED
  BY <1>5 DEF Earned, h

Books(js, statuses, ls, is) ==
    /\ Shape(js)
    /\ Tells(js, statuses, ls, is)
    /\ Earned(js, ls, is)

RevenueIn(js) == Revenued(js, "revenue")

LEMMA RowsHoldLines == \A row \in Row : row.lines \in Seq(Line)
BY DEF Row

LEMMA RevenueAppended ==
    ASSUME NEW js \in Seq(Row), NEW row \in Row
    PROVE  /\ Revenued(js, "revenue") \in Int
           /\ Revenued(Append(js, row), "revenue")
                  = Revenued(js, "revenue") + Move(row.lines, "revenue", "ZAR")
<1>1. PICK R : R = Row
  OBVIOUS
<1>2. js \in Seq(R) /\ row \in R /\ \A r \in R : r.lines \in Seq(Line)
  BY <1>1, RowsHoldLines
<1>3. PICK a, c : a = "revenue" /\ c = "ZAR"
  OBVIOUS
<1>4. /\ NetOf(Append(js, row), DOMAIN Append(js, row), a, c)
             = NetOf(js, DOMAIN js, a, c) + Move(row.lines, a, c)
      /\ NetOf(js, DOMAIN js, a, c) \in Int
  BY <1>2, NetOfAppended
<1> QED
  BY <1>3, <1>4 DEF Revenued

LEMMA EntryPosted ==
    ASSUME NEW js, Shape(js), NEW row \in Row, row.source \in Sources, row.reversal_of = 0,
           \A k \in DOMAIN js : js[k].source # row.source
    PROVE  /\ Shape(Append(js, row))
           /\ \A s : Live(Append(js, row), s) <=> Live(js, s) \/ s = row.source
           /\ Revenued(js, "revenue") \in Int
           /\ Revenued(Append(js, row), "revenue")
                  = Revenued(js, "revenue") + Move(row.lines, "revenue", "ZAR")
<1> DEFINE more == Append(js, row)
           n == Len(js) + 1
<1>1. /\ DOMAIN more = DOMAIN js \cup {n} /\ more[n] = row
      /\ \A k \in DOMAIN js : more[k] = js[k]
  BY MoreRows DEF Shape
<1>2. /\ Shape(more)
      /\ \A k \in DOMAIN js : IsReversed(more, k) <=> IsReversed(js, k)
      /\ ~IsReversed(more, n)
  BY EntryKeepsShape
<1>3. /\ Revenued(js, "revenue") \in Int
      /\ Revenued(more, "revenue") = Revenued(js, "revenue") + Move(row.lines, "revenue", "ZAR")
  <2>1. js \in Seq(Row)
    BY DEF Shape
  <2> QED
    BY <2>1, RevenueAppended
<1> HIDE DEF more, n
<1>4. \A s : Live(more, s) <=> Live(js, s) \/ s = row.source
  BY <1>1, <1>2 DEF Live
<1> QED
  BY <1>2, <1>3, <1>4 DEF more

LEMMA ReversalPosted ==
    ASSUME NEW js, Shape(js), NEW of \in DOMAIN js, js[of].source \in Legs,
           ~IsReversed(js, of), NEW row,
           row = [source |-> Manual, reversal_of |-> of, lines |-> Flip(js[of].lines)]
    PROVE  /\ Shape(Append(js, row))
           /\ \A s \in Sources :
                  Live(Append(js, row), s) <=> Live(js, s) /\ s # js[of].source
           /\ Revenued(js, "revenue") \in Int
           /\ Revenued(Append(js, row), "revenue")
                  = Revenued(js, "revenue") - Move(js[of].lines, "revenue", "ZAR")
<1> DEFINE more == Append(js, row)
           n == Len(js) + 1
<1>0. js \in Seq(Row) /\ js[of].lines \in Seq(Line)
  <2>1. js \in Seq(Row) /\ js[of] \in Row
    BY DEF Shape
  <2> QED
    BY <2>1, RowsHoldLines
<1>2. /\ row \in Row /\ Shape(more)
      /\ \A k \in DOMAIN js : IsReversed(more, k) <=> IsReversed(js, k) \/ k = of
  BY ReversalKeepsShape
<1>1. /\ DOMAIN more = DOMAIN js \cup {n} /\ more[n] = row
      /\ \A k \in DOMAIN js : more[k] = js[k]
  BY <1>0, <1>2, MoreRows
<1>3. /\ Revenued(js, "revenue") \in Int
      /\ Revenued(more, "revenue") = Revenued(js, "revenue") + Move(row.lines, "revenue", "ZAR")
  BY <1>0, <1>2, RevenueAppended
<1>5. /\ Move(row.lines, "revenue", "ZAR") = -Move(js[of].lines, "revenue", "ZAR")
      /\ Move(js[of].lines, "revenue", "ZAR") \in Int
  <2>1. row.lines = Flip(js[of].lines)
    OBVIOUS
  <2> QED
    BY <1>0, <2>1, FlipMovesBack, MoveIsInt
<1>6. row.source = Manual
  OBVIOUS
<1>7. \A k \in DOMAIN js : js[k].source = js[of].source => k = of
  BY LegsAreSources DEF Shape
<1> HIDE DEF more, n
<1>4. ASSUME NEW s \in Sources
      PROVE  Live(more, s) <=> Live(js, s) /\ s # js[of].source
  <2>1. s # Manual
    BY LegsAreSources
  <2> QED
    BY <1>1, <1>2, <1>6, <1>7, <2>1 DEF Live
<1> QED
  BY <1>2, <1>3, <1>4, <1>5 DEF more

LEMMA BillSource ==
    /\ \A o \in OrderIds : Cogs(o) \in Sources /\ Revenue(o) \in Sources
    /\ \A i \in 1..MaxInvoices : Bill(i) \in Sources
    /\ \A k \in 1..MaxJournals : Settling(k) \in Sources
BY TradeAssumption DEF Cogs, Revenue, Bill, Settling, OrderIds

\* A row appended to a ledger that tells the truth.
LEMMA TellsMore ==
    ASSUME NEW js \in Seq(Row), NEW row \in Row, NEW statuses, NEW ls, NEW is,
           Tells(js, statuses, ls, is), Known(row), TellsSale(row, statuses, ls),
           TellsBill(row, is), TellsPayment(row)
    PROVE  Tells(Append(js, row), statuses, ls, is)
BY MoreRows DEF Tells

LEMMA PostCogs ==
    ASSUME NEW js, NEW statuses, NEW ls \in [OrderIds -> Lines], NEW is \in Seq(Invoice),
           Books(js, statuses, ls, is), Len(is) <= MaxInvoices,
           NEW o \in OrderIds, statuses[o].status \in {"confirmed", "paid", "cancelled"},
           \A k \in DOMAIN js : js[k].source # Cogs(o),
           NEW row, row = Entry(Cogs(o), "cogs", "inventory", CostOf(ls[o]))
    PROVE  /\ Books(Append(js, row), statuses, ls, is)
           /\ \A s : Live(Append(js, row), s) <=> Live(js, s) \/ s = Cogs(o)
           /\ row \in Row /\ row.source = Cogs(o) /\ row.reversal_of = 0
<1>1. CostOf(ls[o]) \in Nat
  BY UnitsTyped
<1>2. Cogs(o) \in Sources
  BY BillSource
<1>3. /\ row \in Row /\ row.source = Cogs(o) /\ row.reversal_of = 0
      /\ Move(row.lines, "revenue", "ZAR") = 0
  <2>1. PICK d \in Accounts, c \in Accounts : d = "cogs" /\ c = "inventory"
    BY TradeAssumption DEF TradeAccounts
  <2>0. PICK s \in Sources, amount \in Nat : s = Cogs(o) /\ amount = CostOf(ls[o])
    BY <1>1, <1>2
  <2>2. row = Entry(s, d, c, amount)
    BY <2>0, <2>1
  <2>3. /\ row \in Row /\ row.source = s /\ row.reversal_of = 0
        /\ Swings(row, d, c, amount)
    BY <2>2, EntryIsRow
  <2>4. Move(row.lines, "revenue", "ZAR")
            = (IF d = "revenue" THEN amount ELSE 0) - (IF c = "revenue" THEN amount ELSE 0)
    BY <2>3 DEF Swings
  <2> QED
    BY <1>1, <2>0, <2>1, <2>3, <2>4
<1>4. Shape(js) /\ js \in Seq(Row) /\ Tells(js, statuses, ls, is) /\ Earned(js, ls, is)
  BY DEF Books, Shape
<1>5. /\ Shape(Append(js, row))
      /\ \A s : Live(Append(js, row), s) <=> Live(js, s) \/ s = Cogs(o)
      /\ RevenueIn(Append(js, row)) = RevenueIn(js)
  BY <1>2, <1>3, <1>4, EntryPosted DEF RevenueIn
<1>6. Tells(Append(js, row), statuses, ls, is)
  <2>1. Known(row)
    BY <1>3 DEF Known, Legs
  <2>2. TellsSale(row, statuses, ls)
    BY <1>3, SourcesDiffer DEF TellsSale
  <2>3. TellsBill(row, is) /\ TellsPayment(row)
    BY <1>3, SourcesDiffer DEF TellsBill, TellsPayment
  <2> QED
    BY <1>3, <1>4, <2>1, <2>2, <2>3, TellsMore
<1>7. Earned(Append(js, row), ls, is)
  <2>1. \A p \in OrderIds : Live(Append(js, row), Revenue(p)) <=> Live(js, Revenue(p))
    BY <1>5, SourcesDiffer
  <2>2. \A i \in DOMAIN is : Live(Append(js, row), Bill(i)) <=> Live(js, Bill(i))
    BY <1>5, SourcesDiffer
  <2> QED
    BY <1>4, <1>5, <2>1, <2>2, EarnedSame DEF RevenueIn
<1> QED
  BY <1>3, <1>5, <1>6, <1>7 DEF Books

LEMMA PostRevenue ==
    ASSUME NEW js, NEW statuses, NEW ls \in [OrderIds -> Lines], NEW is \in Seq(Invoice),
           Books(js, statuses, ls, is), Len(is) <= MaxInvoices,
           NEW o \in OrderIds, statuses[o].status \in {"confirmed", "paid", "cancelled"},
           \A k \in DOMAIN js : js[k].source # Revenue(o),
           NEW row, row = Entry(Revenue(o), "receivable", "revenue", GrossOf(ls[o]))
    PROVE  /\ Books(Append(js, row), statuses, ls, is)
           /\ \A s : Live(Append(js, row), s) <=> Live(js, s) \/ s = Revenue(o)
           /\ row \in Row /\ row.source = Revenue(o) /\ row.reversal_of = 0
<1>1. GrossOf(ls[o]) \in Nat
  BY UnitsTyped
<1>2. Revenue(o) \in Sources
  BY BillSource
<1>3. /\ row \in Row /\ row.source = Revenue(o) /\ row.reversal_of = 0
      /\ Move(row.lines, "revenue", "ZAR") = 0 - GrossOf(ls[o])
  <2>1. PICK d \in Accounts, c \in Accounts : d = "receivable" /\ c = "revenue"
    BY TradeAssumption DEF TradeAccounts
  <2>0. PICK s \in Sources, amount \in Nat : s = Revenue(o) /\ amount = GrossOf(ls[o])
    BY <1>1, <1>2
  <2>2. row = Entry(s, d, c, amount)
    BY <2>0, <2>1
  <2>3. /\ row \in Row /\ row.source = s /\ row.reversal_of = 0
        /\ Swings(row, d, c, amount)
    BY <2>2, EntryIsRow
  <2>4. Move(row.lines, "revenue", "ZAR")
            = (IF d = "revenue" THEN amount ELSE 0) - (IF c = "revenue" THEN amount ELSE 0)
    BY <2>3 DEF Swings
  <2> QED
    BY <1>1, <2>0, <2>1, <2>3, <2>4
<1>4. Shape(js) /\ js \in Seq(Row) /\ Tells(js, statuses, ls, is) /\ Earned(js, ls, is)
  BY DEF Books, Shape
<1>5. /\ Shape(Append(js, row))
      /\ \A s : Live(Append(js, row), s) <=> Live(js, s) \/ s = Revenue(o)
      /\ RevenueIn(js) \in Int
      /\ RevenueIn(Append(js, row)) = RevenueIn(js) + (0 - GrossOf(ls[o]))
  BY <1>2, <1>3, <1>4, EntryPosted DEF RevenueIn
<1>6. Tells(Append(js, row), statuses, ls, is)
  <2>1. Known(row)
    BY <1>3 DEF Known, Legs
  <2>2. TellsSale(row, statuses, ls)
    BY <1>3, SourcesDiffer DEF TellsSale
  <2>3. TellsBill(row, is) /\ TellsPayment(row)
    BY <1>3, SourcesDiffer DEF TellsBill, TellsPayment
  <2> QED
    BY <1>3, <1>4, <2>1, <2>2, <2>3, TellsMore
<1>7. Earned(Append(js, row), ls, is)
  <2>1. \A p \in OrderIds : p # o =>
            (Live(Append(js, row), Revenue(p)) <=> Live(js, Revenue(p)))
    BY <1>5, SourcesDiffer
  <2>2. \A i \in DOMAIN is : Live(Append(js, row), Bill(i)) <=> Live(js, Bill(i))
    BY <1>5, SourcesDiffer
  <2>3. Live(Append(js, row), Revenue(o)) /\ ~Live(js, Revenue(o))
    BY <1>5 DEF Live
  <2>4. Earning(js, ls)[o] = 0 /\ Earning(Append(js, row), ls)[o] = GrossOf(ls[o])
    BY <2>3, AmountsTyped
  <2> QED
    BY <1>4, <1>5, <2>1, <2>2, <2>4, EarnedByOrder DEF RevenueIn
<1> QED
  BY <1>3, <1>5, <1>6, <1>7 DEF Books

LEMMA PostBill ==
    ASSUME NEW js, NEW statuses, NEW ls \in [OrderIds -> Lines], NEW is \in Seq(Invoice),
           Books(js, statuses, ls, is), Len(is) <= MaxInvoices,
           NEW i \in DOMAIN is, is[i].order = NoOrder,
           \A k \in DOMAIN js : js[k].source # Bill(i),
           NEW row, row = Entry(Bill(i), "receivable", "revenue", GrossOf(is[i].lines))
    PROVE  /\ Books(Append(js, row), statuses, ls, is)
           /\ \A s : Live(Append(js, row), s) <=> Live(js, s) \/ s = Bill(i)
           /\ row \in Row /\ row.source = Bill(i) /\ row.reversal_of = 0
<1>1. GrossOf(is[i].lines) \in Nat
  BY AmountsTyped
<1>2. i \in Nat /\ i \in 1..MaxInvoices /\ Bill(i) \in Sources
  <2>1. i \in 1..Len(is) /\ Len(is) \in Nat
    OBVIOUS
  <2>2. i \in 1..MaxInvoices
    BY <2>1, BoundsAssumption
  <2> QED
    BY <2>1, <2>2, BillSource
<1>3. /\ row \in Row /\ row.source = Bill(i) /\ row.reversal_of = 0
      /\ Move(row.lines, "revenue", "ZAR") = 0 - GrossOf(is[i].lines)
  <2>1. PICK d \in Accounts, c \in Accounts : d = "receivable" /\ c = "revenue"
    BY TradeAssumption DEF TradeAccounts
  <2>0. PICK s \in Sources, amount \in Nat : s = Bill(i) /\ amount = GrossOf(is[i].lines)
    BY <1>1, <1>2
  <2>2. row = Entry(s, d, c, amount)
    BY <2>0, <2>1
  <2>3. /\ row \in Row /\ row.source = s /\ row.reversal_of = 0
        /\ Swings(row, d, c, amount)
    BY <2>2, EntryIsRow
  <2>4. Move(row.lines, "revenue", "ZAR")
            = (IF d = "revenue" THEN amount ELSE 0) - (IF c = "revenue" THEN amount ELSE 0)
    BY <2>3 DEF Swings
  <2> QED
    BY <1>1, <2>0, <2>1, <2>3, <2>4
<1>4. Shape(js) /\ js \in Seq(Row) /\ Tells(js, statuses, ls, is) /\ Earned(js, ls, is)
  BY DEF Books, Shape
<1>5. /\ Shape(Append(js, row))
      /\ \A s : Live(Append(js, row), s) <=> Live(js, s) \/ s = Bill(i)
      /\ RevenueIn(js) \in Int
      /\ RevenueIn(Append(js, row)) = RevenueIn(js) + (0 - GrossOf(is[i].lines))
  BY <1>2, <1>3, <1>4, EntryPosted DEF RevenueIn
<1>6. Tells(Append(js, row), statuses, ls, is)
  <2>1. Known(row)
    BY <1>2, <1>3 DEF Known
  <2>2. TellsBill(row, is)
    <3>1. ASSUME NEW j \in 1..MaxInvoices, row.source = Bill(j) PROVE j = i
      BY <1>2, <1>3, <3>1 DEF Bill
    <3>2. row.lines = Entry(Bill(i), "receivable", "revenue", GrossOf(is[i].lines)).lines
      OBVIOUS
    <3> QED
      BY <3>1, <3>2 DEF TellsBill
  <2>3. TellsSale(row, statuses, ls) /\ TellsPayment(row)
    BY <1>2, <1>3, SourcesDiffer DEF TellsSale, TellsPayment
  <2> QED
    BY <1>3, <1>4, <2>1, <2>2, <2>3, TellsMore
<1>7. Earned(Append(js, row), ls, is)
  <2>1. \A p \in OrderIds : Live(Append(js, row), Revenue(p)) <=> Live(js, Revenue(p))
    BY <1>2, <1>5, SourcesDiffer
  <2>2. \A j \in DOMAIN is : j # i =>
            (Live(Append(js, row), Bill(j)) <=> Live(js, Bill(j)))
    <3>1. \A j \in DOMAIN is : j \in Nat
      OBVIOUS
    <3> QED
      BY <1>2, <1>5, <3>1, SourcesDiffer
  <2>3. Live(Append(js, row), Bill(i)) /\ ~Live(js, Bill(i))
    BY <1>5 DEF Live
  <2>4. Billing(js, is)[i] = 0 /\ Billing(Append(js, row), is)[i] = GrossOf(is[i].lines)
    BY <2>3, AmountsTyped
  <2> QED
    BY <1>4, <1>5, <2>1, <2>2, <2>4, EarnedByBill DEF RevenueIn
<1> QED
  BY <1>3, <1>5, <1>6, <1>7 DEF Books

Paying(js, row, n, amount) ==
    /\ n \in 1..MaxJournals /\ amount \in Nat
    /\ \A k \in DOMAIN js : js[k].source # Settling(n)
    /\ row = Entry(Settling(n), "bank", "receivable", amount)

LEMMA PostPayment ==
    ASSUME NEW js, NEW statuses, NEW ls \in [OrderIds -> Lines], NEW is \in Seq(Invoice),
           Books(js, statuses, ls, is), NEW row, NEW n, NEW amount,
           Paying(js, row, n, amount)
    PROVE  Books(Append(js, row), statuses, ls, is)
<1>1. /\ n \in 1..MaxJournals /\ amount \in Nat
      /\ \A k \in DOMAIN js : js[k].source # Settling(n)
      /\ row = Entry(Settling(n), "bank", "receivable", amount)
  BY DEF Paying
<1>2. n \in Nat /\ Settling(n) \in Sources
  BY <1>1, BillSource
<1>3. /\ row \in Row /\ row.source = Settling(n) /\ row.reversal_of = 0
      /\ Move(row.lines, "revenue", "ZAR") = 0
  <2>1. PICK d \in Accounts, c \in Accounts : d = "bank" /\ c = "receivable"
    BY TradeAssumption DEF TradeAccounts
  <2>0. PICK s \in Sources : s = Settling(n)
    BY <1>2
  <2>2. row = Entry(s, d, c, amount)
    BY <1>1, <2>0, <2>1
  <2>3. /\ row \in Row /\ row.source = s /\ row.reversal_of = 0
        /\ Swings(row, d, c, amount)
    BY <1>1, <2>2, EntryIsRow
  <2>4. Move(row.lines, "revenue", "ZAR")
            = (IF d = "revenue" THEN amount ELSE 0) - (IF c = "revenue" THEN amount ELSE 0)
    BY <2>3 DEF Swings
  <2> QED
    BY <1>1, <2>0, <2>1, <2>3, <2>4
<1>4. Shape(js) /\ js \in Seq(Row) /\ Tells(js, statuses, ls, is) /\ Earned(js, ls, is)
  BY DEF Books, Shape
<1>5. /\ Shape(Append(js, row))
      /\ \A s : Live(Append(js, row), s) <=> Live(js, s) \/ s = Settling(n)
      /\ RevenueIn(Append(js, row)) = RevenueIn(js)
  BY <1>1, <1>2, <1>3, <1>4, EntryPosted DEF RevenueIn
<1>6. Tells(Append(js, row), statuses, ls, is)
  <2>1. Known(row)
    BY <1>1, <1>3 DEF Known
  <2>2. TellsPayment(row)
    <3>1. ASSUME NEW k \in 1..MaxJournals, row.source = Settling(k) PROVE k = n
      BY <1>2, <1>3, <3>1 DEF Settling
    <3> QED
      BY <1>1, <3>1 DEF TellsPayment
  <2>3. TellsSale(row, statuses, ls) /\ TellsBill(row, is)
    BY <1>2, <1>3, SourcesDiffer DEF TellsSale, TellsBill
  <2> QED
    BY <1>3, <1>4, <2>1, <2>2, <2>3, TellsMore
<1>7. Earned(Append(js, row), ls, is)
  <2>1. \A p \in OrderIds : Live(Append(js, row), Revenue(p)) <=> Live(js, Revenue(p))
    BY <1>2, <1>5, SourcesDiffer
  <2>2. \A i \in DOMAIN is : Live(Append(js, row), Bill(i)) <=> Live(js, Bill(i))
    <3>1. \A j \in DOMAIN is : j \in Nat
      OBVIOUS
    <3> QED
      BY <1>2, <1>5, <3>1, SourcesDiffer
  <2> QED
    BY <1>4, <1>5, <2>1, <2>2, EarnedSame DEF RevenueIn
<1> QED
  BY <1>3, <1>5, <1>6, <1>7 DEF Books

\* What the journals of a sale moved, for as long as their order is not a draft.
LEMMA LegsMoved ==
    ASSUME NEW js, NEW statuses, NEW ls \in [OrderIds -> Lines], NEW is \in Seq(Invoice),
           Books(js, statuses, ls, is), NEW k \in DOMAIN js, NEW o \in OrderIds
    PROVE  /\ js[k].source = Cogs(o) =>
                  /\ Move(js[k].lines, "revenue", "ZAR") = 0
                  /\ Move(js[k].lines, "inventory", "ZAR") = -CostOf(ls[o])
           /\ js[k].source = Revenue(o) =>
                  /\ Move(js[k].lines, "revenue", "ZAR") = -GrossOf(ls[o])
                  /\ Move(js[k].lines, "receivable", "ZAR") = GrossOf(ls[o])
<1>1. GrossOf(ls[o]) \in Nat /\ CostOf(ls[o]) \in Nat
  BY UnitsTyped
<1>2. TellsSale(js[k], statuses, ls)
  BY DEF Books, Tells
<1>3. CASE js[k].source = Cogs(o)
  <2>1. PICK d \in Accounts, c \in Accounts : d = "cogs" /\ c = "inventory"
    BY TradeAssumption DEF TradeAccounts
  <2>0. PICK s \in Sources, amount \in Nat : s = Cogs(o) /\ amount = CostOf(ls[o])
    BY <1>1, BillSource
  <2>2. PICK row : row = Entry(s, d, c, amount)
    OBVIOUS
  <2>3. Swings(row, d, c, amount)
    BY <2>2, EntryIsRow
  <2>4. js[k].lines = row.lines
    BY <1>2, <1>3, <2>0, <2>1, <2>2 DEF TellsSale
  <2>5. /\ Move(row.lines, "revenue", "ZAR")
               = (IF d = "revenue" THEN amount ELSE 0) - (IF c = "revenue" THEN amount ELSE 0)
        /\ Move(row.lines, "inventory", "ZAR")
               = (IF d = "inventory" THEN amount ELSE 0) - (IF c = "inventory" THEN amount ELSE 0)
    BY <2>3 DEF Swings
  <2> QED
    BY <1>1, <1>3, <2>0, <2>1, <2>4, <2>5, SourcesDiffer
<1>4. CASE js[k].source = Revenue(o)
  <2>1. PICK d \in Accounts, c \in Accounts : d = "receivable" /\ c = "revenue"
    BY TradeAssumption DEF TradeAccounts
  <2>0. PICK s \in Sources, amount \in Nat : s = Revenue(o) /\ amount = GrossOf(ls[o])
    BY <1>1, BillSource
  <2>2. PICK row : row = Entry(s, d, c, amount)
    OBVIOUS
  <2>3. Swings(row, d, c, amount)
    BY <2>2, EntryIsRow
  <2>4. js[k].lines = row.lines
    BY <1>2, <1>4, <2>0, <2>1, <2>2 DEF TellsSale
  <2>5. /\ Move(row.lines, "revenue", "ZAR")
               = (IF d = "revenue" THEN amount ELSE 0) - (IF c = "revenue" THEN amount ELSE 0)
        /\ Move(row.lines, "receivable", "ZAR")
               = (IF d = "receivable" THEN amount ELSE 0) - (IF c = "receivable" THEN amount ELSE 0)
    BY <2>3 DEF Swings
  <2> QED
    BY <1>1, <1>4, <2>0, <2>1, <2>4, <2>5, SourcesDiffer
<1> QED
  BY <1>3, <1>4

\* Taking back one leg of a sale.
LEMMA ReverseLeg ==
    ASSUME NEW js, NEW statuses, NEW ls \in [OrderIds -> Lines], NEW is \in Seq(Invoice),
           Books(js, statuses, ls, is), Len(is) <= MaxInvoices, NEW of \in DOMAIN js, js[of].source \in Legs,
           ~IsReversed(js, of), NEW row,
           row = [source |-> Manual, reversal_of |-> of, lines |-> Flip(js[of].lines)]
    PROVE  /\ Books(Append(js, row), statuses, ls, is)
           /\ \A k \in DOMAIN js :
                  IsReversed(Append(js, row), k) <=> IsReversed(js, k) \/ k = of
           /\ row \in Row /\ row.source = Manual
<1>1. Shape(js) /\ js \in Seq(Row) /\ Tells(js, statuses, ls, is) /\ Earned(js, ls, is)
  BY DEF Books, Shape
<1>2. /\ row \in Row /\ row.source = Manual
      /\ \A k \in DOMAIN js : IsReversed(Append(js, row), k) <=> IsReversed(js, k) \/ k = of
  <2>1. row.source = Manual
    OBVIOUS
  <2> QED
    BY <1>1, <2>1, ReversalKeepsShape
<1>3. /\ Shape(Append(js, row))
      /\ \A s \in Sources :
             Live(Append(js, row), s) <=> Live(js, s) /\ s # js[of].source
      /\ RevenueIn(js) \in Int
      /\ RevenueIn(Append(js, row)) = RevenueIn(js) - Move(js[of].lines, "revenue", "ZAR")
  BY <1>1, ReversalPosted DEF RevenueIn
<1>4. Tells(Append(js, row), statuses, ls, is)
  <2>1. Known(row)
    BY <1>2 DEF Known
  <2>2. \A o \in OrderIds : Manual # Cogs(o) /\ Manual # Revenue(o)
    BY LegsAreSources DEF Legs
  <2>3. TellsSale(row, statuses, ls)
    BY <1>2, <2>2 DEF TellsSale
  <2>4. TellsBill(row, is) /\ TellsPayment(row)
    BY <1>2, BillSource, LegsAreSources DEF TellsBill, TellsPayment
  <2> QED
    BY <1>1, <1>2, <2>1, <2>3, <2>4, TellsMore
<1>6. PICK o \in OrderIds : js[of].source = Cogs(o) \/ js[of].source = Revenue(o)
  BY DEF Legs
<1>7. GrossOf(ls[o]) \in Nat
  BY UnitsTyped
<1>8. \A i \in DOMAIN is : i \in 1..MaxInvoices /\ i \in Nat
  <2>1. \A i \in DOMAIN is : i \in 1..Len(is) /\ i \in Nat
    OBVIOUS
  <2> QED
    BY <2>1, BoundsAssumption
<1>9. \A i \in DOMAIN is : Live(Append(js, row), Bill(i)) <=> Live(js, Bill(i))
  BY <1>3, <1>6, <1>8, BillSource, SourcesDiffer
<1>10. Earned(Append(js, row), ls, is)
  <2>1. CASE js[of].source = Cogs(o)
    <3>1. RevenueIn(Append(js, row)) = RevenueIn(js)
      BY <1>3, <2>1, LegsMoved
    <3>2. \A p \in OrderIds : Live(Append(js, row), Revenue(p)) <=> Live(js, Revenue(p))
      BY <1>3, <2>1, BillSource, SourcesDiffer
    <3> QED
      BY <1>1, <1>9, <3>1, <3>2, EarnedSame DEF RevenueIn
  <2>2. CASE js[of].source = Revenue(o)
    <3>1. RevenueIn(Append(js, row)) = RevenueIn(js) + (GrossOf(ls[o]) - 0)
      BY <1>3, <1>7, <2>2, LegsMoved
    <3>2. \A p \in OrderIds : p # o =>
              (Live(Append(js, row), Revenue(p)) <=> Live(js, Revenue(p)))
      BY <1>3, <2>2, BillSource, SourcesDiffer
    <3>3. Live(js, Revenue(o)) /\ ~Live(Append(js, row), Revenue(o))
      BY <1>3, <2>2, BillSource DEF Live
    <3>4. Earning(js, ls)[o] = GrossOf(ls[o]) /\ Earning(Append(js, row), ls)[o] = 0
      BY <3>3, AmountsTyped
    <3> QED
      BY <1>1, <1>3, <1>9, <3>1, <3>2, <3>4, EarnedByOrder DEF RevenueIn
  <2> QED
    BY <1>6, <2>1, <2>2
<1> QED
  BY <1>2, <1>3, <1>4, <1>10 DEF Books

PostedIn(js, source) == \E k \in DOMAIN js : js[k].source = source

\* A journal of a new source undoes nothing.
LEMMA UndoneEntry ==
    ASSUME NEW js, Shape(js), NEW row \in Row, row.source \in Sources, row.reversal_of = 0,
           \A k \in DOMAIN js : js[k].source # row.source,
           NEW statuses, Undone(js, statuses),
           \A o \in OrderIds : row.source \in {Cogs(o), Revenue(o)} =>
               statuses[o].status # "cancelled"
    PROVE  /\ Undone(Append(js, row), statuses)
           /\ \A s : PostedIn(Append(js, row), s) <=> PostedIn(js, s) \/ s = row.source
<1> DEFINE more == Append(js, row)
           n == Len(js) + 1
<1>1. /\ DOMAIN more = DOMAIN js \cup {n} /\ more[n] = row
      /\ \A k \in DOMAIN js : more[k] = js[k]
  BY MoreRows DEF Shape
<1>2. /\ \A k \in DOMAIN js : IsReversed(more, k) <=> IsReversed(js, k)
      /\ ~IsReversed(more, n)
  BY EntryKeepsShape
<1> HIDE DEF more, n
<1>3. Undone(more, statuses)
  <2> SUFFICES ASSUME NEW k \in DOMAIN more, NEW o \in OrderIds
               PROVE  /\ more[k].source = Cogs(o) =>
                             (IsReversed(more, k) <=> statuses[o].status = "cancelled")
                      /\ more[k].source = Revenue(o) =>
                             (statuses[o].status = "cancelled" => IsReversed(more, k))
    BY DEF Undone
  <2>1. CASE k = n
    BY <1>1, <1>2, <2>1
  <2>2. CASE k \in DOMAIN js
    BY <1>1, <1>2, <2>2 DEF Undone
  <2> QED
    BY <1>1, <2>1, <2>2
<1>4. \A s : PostedIn(more, s) <=> PostedIn(js, s) \/ s = row.source
  BY <1>1 DEF PostedIn
<1> QED
  BY <1>3, <1>4 DEF more

LEMMA NothingConcat ==
    ASSUME NEW js \in Seq(Row), NEW row \in Row
    PROVE  js \o <<>> = js /\ js \o <<row>> = Append(js, row)
OBVIOUS

LEMMA CogsIsPosted ==
    ASSUME NEW js, NEW statuses, NEW ls \in [OrderIds -> Lines], NEW is \in Seq(Invoice),
           Books(js, statuses, ls, is), Len(is) <= MaxInvoices,
           NEW o \in OrderIds, statuses[o].status = "confirmed", ~PostedIn(js, Cogs(o))
    PROVE  \A r : r = Entry(Cogs(o), "cogs", "inventory", CostOf(ls[o])) =>
               /\ Books(Append(js, r), statuses, ls, is)
               /\ r \in Row /\ r.source = Cogs(o) /\ r.reversal_of = 0
<1>1. statuses[o].status \in {"confirmed", "paid", "cancelled"}
  OBVIOUS
<1>2. \A k \in DOMAIN js : js[k].source # Cogs(o)
  BY DEF PostedIn
<1>3. \A r : r = Entry(Cogs(o), "cogs", "inventory", CostOf(ls[o])) => Books(Append(js, r), statuses, ls, is)
  BY <1>1, <1>2, PostCogs
<1>4. ASSUME NEW r, r = Entry(Cogs(o), "cogs", "inventory", CostOf(ls[o]))
      PROVE  r \in Row /\ r.source = Cogs(o) /\ r.reversal_of = 0
  <2>1. PICK s \in Sources, d \in Accounts, c \in Accounts, amount \in Nat :
            s = Cogs(o) /\ d = "cogs" /\ c = "inventory" /\ amount = CostOf(ls[o])
    BY TradeAssumption, BillSource, UnitsTyped DEF TradeAccounts
  <2>2. r = Entry(s, d, c, amount)
    BY <1>4, <2>1
  <2> QED
    BY <2>1, <2>2, EntryIsRow
<1> QED
  BY <1>3, <1>4

LEMMA CogsPosted ==
    ASSUME NEW js, NEW statuses, NEW ls \in [OrderIds -> Lines], NEW is \in Seq(Invoice),
           Books(js, statuses, ls, is), Undone(js, statuses), Len(is) <= MaxInvoices,
           NEW o \in OrderIds, statuses[o].status = "confirmed", ~PostedIn(js, Cogs(o)),
           NEW more, more = js \o Entries(Cogs(o), "cogs", "inventory", CostOf(ls[o]))
    PROVE  /\ Books(more, statuses, ls, is) /\ Undone(more, statuses)
           /\ \A s : PostedIn(more, s)
                  => PostedIn(js, s) \/ s = Cogs(o)
<1>1. Shape(js) /\ js \in Seq(Row)
  BY DEF Books, Shape
<1>3. \A k \in DOMAIN js : js[k].source # Cogs(o)
  BY DEF PostedIn
<1>8. \A r : r = Entry(Cogs(o), "cogs", "inventory", CostOf(ls[o])) =>
          /\ Books(Append(js, r), statuses, ls, is)
          /\ r \in Row /\ r.source = Cogs(o) /\ r.reversal_of = 0
  BY CogsIsPosted
<1>2. PICK row : row = Entry(Cogs(o), "cogs", "inventory", CostOf(ls[o]))
  OBVIOUS
<1>4. /\ Books(Append(js, row), statuses, ls, is)
      /\ row \in Row /\ row.source = Cogs(o) /\ row.reversal_of = 0
  BY <1>2, <1>8
<1>5. /\ Undone(Append(js, row), statuses)
      /\ \A s : PostedIn(Append(js, row), s) <=> PostedIn(js, s) \/ s = Cogs(o)
  <2>1. \A p \in OrderIds : row.source \in {Cogs(p), Revenue(p)} =>
               statuses[p].status # "cancelled"
    BY <1>4, SourcesDiffer
  <2>2. row.source \in Sources
    BY <1>4, BillSource
  <2> QED
    BY <1>1, <1>3, <1>4, <2>1, <2>2, UndoneEntry
<1>6. more \in {js, Append(js, row)}
  BY <1>1, <1>2, <1>4, NothingConcat DEF Entries
<1> QED
  BY <1>4, <1>5, <1>6

LEMMA RevenueIsPosted ==
    ASSUME NEW js, NEW statuses, NEW ls \in [OrderIds -> Lines], NEW is \in Seq(Invoice),
           Books(js, statuses, ls, is), Len(is) <= MaxInvoices,
           NEW o \in OrderIds, statuses[o].status = "confirmed", ~PostedIn(js, Revenue(o))
    PROVE  \A r : r = Entry(Revenue(o), "receivable", "revenue", GrossOf(ls[o])) =>
               /\ Books(Append(js, r), statuses, ls, is)
               /\ r \in Row /\ r.source = Revenue(o) /\ r.reversal_of = 0
<1>1. statuses[o].status \in {"confirmed", "paid", "cancelled"}
  OBVIOUS
<1>2. \A k \in DOMAIN js : js[k].source # Revenue(o)
  BY DEF PostedIn
<1>3. \A r : r = Entry(Revenue(o), "receivable", "revenue", GrossOf(ls[o])) => Books(Append(js, r), statuses, ls, is)
  BY <1>1, <1>2, PostRevenue
<1>4. ASSUME NEW r, r = Entry(Revenue(o), "receivable", "revenue", GrossOf(ls[o]))
      PROVE  r \in Row /\ r.source = Revenue(o) /\ r.reversal_of = 0
  <2>1. PICK s \in Sources, d \in Accounts, c \in Accounts, amount \in Nat :
            s = Revenue(o) /\ d = "receivable" /\ c = "revenue" /\ amount = GrossOf(ls[o])
    BY TradeAssumption, BillSource, UnitsTyped DEF TradeAccounts
  <2>2. r = Entry(s, d, c, amount)
    BY <1>4, <2>1
  <2> QED
    BY <2>1, <2>2, EntryIsRow
<1> QED
  BY <1>3, <1>4

LEMMA RevenuePosted ==
    ASSUME NEW js, NEW statuses, NEW ls \in [OrderIds -> Lines], NEW is \in Seq(Invoice),
           Books(js, statuses, ls, is), Undone(js, statuses), Len(is) <= MaxInvoices,
           NEW o \in OrderIds, statuses[o].status = "confirmed", ~PostedIn(js, Revenue(o)),
           NEW more, more = js \o Entries(Revenue(o), "receivable", "revenue", GrossOf(ls[o]))
    PROVE  Books(more, statuses, ls, is) /\ Undone(more, statuses)
<1>1. Shape(js) /\ js \in Seq(Row)
  BY DEF Books, Shape
<1>3. \A k \in DOMAIN js : js[k].source # Revenue(o)
  BY DEF PostedIn
<1>8. \A r : r = Entry(Revenue(o), "receivable", "revenue", GrossOf(ls[o])) =>
          /\ Books(Append(js, r), statuses, ls, is)
          /\ r \in Row /\ r.source = Revenue(o) /\ r.reversal_of = 0
  BY RevenueIsPosted
<1>2. PICK row : row = Entry(Revenue(o), "receivable", "revenue", GrossOf(ls[o]))
  OBVIOUS
<1>4. /\ Books(Append(js, row), statuses, ls, is)
      /\ row \in Row /\ row.source = Revenue(o) /\ row.reversal_of = 0
  BY <1>2, <1>8
<1>5. Undone(Append(js, row), statuses)
  <2>1. \A p \in OrderIds : row.source \in {Cogs(p), Revenue(p)} =>
               statuses[p].status # "cancelled"
    BY <1>4, SourcesDiffer
  <2>2. row.source \in Sources
    BY <1>4, BillSource
  <2> QED
    BY <1>1, <1>3, <1>4, <2>1, <2>2, UndoneEntry
<1>6. more \in {js, Append(js, row)}
  BY <1>1, <1>2, <1>4, NothingConcat DEF Entries
<1> QED
  BY <1>4, <1>5, <1>6

PostsOnly(js, more, source) == \A s : PostedIn(more, s) => PostedIn(js, s) \/ s = source

\* post_sales_confirm_journals: each leg of a sale that has an amount and its accounts.
LEMMA SalePosted ==
    ASSUME NEW js, NEW statuses, NEW ls \in [OrderIds -> Lines], NEW is \in Seq(Invoice),
           Books(js, statuses, ls, is), Undone(js, statuses), Len(is) <= MaxInvoices,
           NEW o \in OrderIds, statuses[o].status = "confirmed",
           ~PostedIn(js, Cogs(o)), ~PostedIn(js, Revenue(o)),
           NEW more, more = js \o SaleEntries(o, ls[o])
    PROVE  Books(more, statuses, ls, is) /\ Undone(more, statuses)
<1> DEFINE a == Entries(Cogs(o), "cogs", "inventory", CostOf(ls[o]))
           b == Entries(Revenue(o), "receivable", "revenue", GrossOf(ls[o]))
<1> HIDE DEF a, b
<1>1. PICK one : one = js \o Entries(Cogs(o), "cogs", "inventory", CostOf(ls[o]))
  OBVIOUS
<1>2. /\ Books(one, statuses, ls, is) /\ Undone(one, statuses)
      /\ ~PostedIn(one, Revenue(o))
  <2>1. \A m : m = js \o Entries(Cogs(o), "cogs", "inventory", CostOf(ls[o]))
            => Books(m, statuses, ls, is)
    BY CogsPosted
  <2>2. \A m : m = js \o Entries(Cogs(o), "cogs", "inventory", CostOf(ls[o]))
            => Undone(m, statuses)
    BY CogsPosted
  <2>3. \A m : m = js \o Entries(Cogs(o), "cogs", "inventory", CostOf(ls[o]))
            => PostsOnly(js, m, Cogs(o))
    BY CogsPosted DEF PostsOnly
  <2>4. PostsOnly(js, one, Cogs(o))
    BY <1>1, <2>3
  <2>5. ~PostedIn(one, Revenue(o))
    BY <2>4, SourcesDiffer DEF PostsOnly
  <2> QED
    BY <1>1, <2>1, <2>2, <2>5
<1>4. PICK two : two = one \o Entries(Revenue(o), "receivable", "revenue", GrossOf(ls[o]))
  OBVIOUS
<1>5. Books(two, statuses, ls, is) /\ Undone(two, statuses)
  <2>1. \A m : m = one \o Entries(Revenue(o), "receivable", "revenue", GrossOf(ls[o]))
            => Books(m, statuses, ls, is)
    BY <1>2, RevenuePosted
  <2>2. \A m : m = one \o Entries(Revenue(o), "receivable", "revenue", GrossOf(ls[o]))
            => Undone(m, statuses)
    BY <1>2, RevenuePosted
  <2> QED
    BY <1>4, <2>1, <2>2
<1>6. more = two
  <2>1. js \in Seq(Row)
    BY DEF Books, Shape
  <2>2. PICK r : r = Entry(Cogs(o), "cogs", "inventory", CostOf(ls[o]))
    OBVIOUS
  <2>3. PICK q : q = Entry(Revenue(o), "receivable", "revenue", GrossOf(ls[o]))
    OBVIOUS
  <2>4. a \in {<<>>, <<r>>} /\ b \in {<<>>, <<q>>}
    BY <2>2, <2>3 DEF Entries, a, b
  <2>5. more = js \o (a \o b)
    BY DEF SaleEntries, a, b
  <2>6. two = (js \o a) \o b
    BY <1>1, <1>4 DEF a, b
  <2>7. PICK A : r \in A /\ q \in A /\ js \in Seq(A)
    <3>1. r \in Row \cup {r, q} /\ q \in Row \cup {r, q}
      OBVIOUS
    <3>2. js \in Seq(Row \cup {r, q})
      BY <2>1
    <3> QED
      BY <3>1, <3>2
  <2>8. a \in Seq(A) /\ b \in Seq(A)
    <3>1. \A x \in A : <<x>> \in Seq(A)
      OBVIOUS
    <3>2. <<>> \in Seq(A)
      OBVIOUS
    <3> QED
      BY <2>4, <2>7, <3>1, <3>2
  <2>9. js \o (a \o b) = (js \o a) \o b
    BY <2>7, <2>8
  <2> QED
    BY <2>5, <2>6, <2>9
<1> QED
  BY <1>5, <1>6

Told(js, statuses, ls, is) ==
    /\ Books(js, statuses, ls, is)
    /\ Undone(js, statuses)

\* An order that has no journal yet may change as it likes; one that is sold and
\* stays sold keeps its lines.
LEMMA OrderTurned ==
    ASSUME NEW js, NEW s1, NEW ls1 \in [OrderIds -> Lines], NEW is,
           NEW s2, NEW ls2 \in [OrderIds -> Lines], Told(js, s1, ls1, is),
           NEW o \in OrderIds,
           \A p \in OrderIds \ {o} : s2[p] = s1[p] /\ ls2[p] = ls1[p],
           \/ s1[o].status \notin {"confirmed", "paid", "cancelled"}
           \/ /\ s1[o].status \in {"confirmed", "paid"}
              /\ s2[o].status \in {"confirmed", "paid"}
              /\ ls2[o] = ls1[o]
    PROVE  Told(js, s2, ls2, is)
<1>1. /\ Shape(js) /\ Tells(js, s1, ls1, is) /\ Earned(js, ls1, is)
      /\ Undone(js, s1)
  BY DEF Told, Books
<1>2. s1[o].status \notin {"confirmed", "paid", "cancelled"} =>
          /\ \A k \in DOMAIN js : js[k].source # Cogs(o) /\ js[k].source # Revenue(o)
          /\ ~PostedIn(js, Cogs(o)) /\ ~PostedIn(js, Revenue(o)) /\ ~Live(js, Revenue(o))
  BY <1>1 DEF Tells, TellsSale, PostedIn, Live
<1>3. Tells(js, s2, ls2, is)
  <2>1. ASSUME NEW k \in DOMAIN js PROVE TellsSale(js[k], s2, ls2)
    <3>1. TellsSale(js[k], s1, ls1)
      BY <1>1 DEF Tells
    <3>2. ASSUME NEW p \in OrderIds
          PROVE  /\ js[k].source = Cogs(p) =>
                        /\ s2[p].status \in {"confirmed", "paid", "cancelled"}
                        /\ js[k].lines = Entry(Cogs(p), "cogs", "inventory", CostOf(ls2[p])).lines
                 /\ js[k].source = Revenue(p) =>
                        /\ s2[p].status \in {"confirmed", "paid", "cancelled"}
                        /\ js[k].lines = Entry(Revenue(p), "receivable", "revenue", GrossOf(ls2[p])).lines
      <4>1. CASE p # o
        <5>1. s2[p] = s1[p] /\ ls2[p] = ls1[p]
          BY <4>1
        <5> QED
          BY <3>1, <5>1 DEF TellsSale
      <4>2. CASE p = o /\ s1[o].status \notin {"confirmed", "paid", "cancelled"}
        BY <1>2, <4>2
      <4>3. CASE p = o /\ s2[o].status \in {"confirmed", "paid"} /\ ls2[o] = ls1[o]
        BY <3>1, <4>3 DEF TellsSale
      <4> QED
        BY <4>1, <4>2, <4>3
    <3> QED
      BY <3>2 DEF TellsSale
  <2> QED
    BY <1>1, <2>1 DEF Tells
<1>4. Undone(js, s2)
  <2>1. ASSUME NEW k \in DOMAIN js, NEW p \in OrderIds
        PROVE  /\ js[k].source = Cogs(p) => (IsReversed(js, k) <=> s2[p].status = "cancelled")
               /\ js[k].source = Revenue(p) => (s2[p].status = "cancelled" => IsReversed(js, k))
    <3>1. CASE p # o
      BY <1>1, <3>1 DEF Undone
    <3>2. CASE p = o /\ s1[o].status \notin {"confirmed", "paid", "cancelled"}
      BY <1>2, <3>2
    <3>3. CASE p = o /\ s1[o].status \in {"confirmed", "paid"} /\ s2[o].status \in {"confirmed", "paid"}
      BY <1>1, <3>3 DEF Undone
    <3> QED
      BY <3>1, <3>2, <3>3
  <2> QED
    BY <2>1 DEF Undone
<1>6. Earned(js, ls2, is)
  <2>1. ASSUME NEW p \in OrderIds
        PROVE  (IF Live(js, Revenue(p)) THEN GrossOf(ls2[p]) ELSE 0)
                   = (IF Live(js, Revenue(p)) THEN GrossOf(ls1[p]) ELSE 0)
    <3>1. ls2[p] = ls1[p] \/ ~Live(js, Revenue(p))
      BY <1>2
    <3> QED
      BY <3>1
  <2>2. Earning(js, ls2) = Earning(js, ls1)
    BY <2>1 DEF Earning
  <2> QED
    BY <1>1, <2>2 DEF Earned
<1> QED
  BY <1>1, <1>3, <1>4, <1>6 DEF Told, Books

\* sales_order_confirm posts the journals of an order that has none.
LEMMA SaleTold ==
    ASSUME NEW js, NEW statuses, NEW ls \in [OrderIds -> Lines], NEW is \in Seq(Invoice),
           Told(js, statuses, ls, is), Len(is) <= MaxInvoices,
           NEW o \in OrderIds, statuses[o].status = "confirmed",
           ~PostedIn(js, Cogs(o)), ~PostedIn(js, Revenue(o))
    PROVE  Told(js \o SaleEntries(o, ls[o]), statuses, ls, is)
<1>1. Books(js, statuses, ls, is) /\ Undone(js, statuses)
  BY DEF Told
<1>2. PICK more : more = js \o SaleEntries(o, ls[o])
  OBVIOUS
<1>3. \A m : m = js \o SaleEntries(o, ls[o]) => Books(m, statuses, ls, is)
  BY <1>1, SalePosted
<1>4. \A m : m = js \o SaleEntries(o, ls[o]) => Undone(m, statuses)
  BY <1>1, SalePosted
<1>5. Books(more, statuses, ls, is) /\ Undone(more, statuses)
  BY <1>2, <1>3, <1>4
<1> QED
  BY <1>2, <1>5 DEF Told

-----------------------------------------------------------------------------
(***************************************************************************)
(* Cancelling a sale takes back what is left of it.                        *)
(***************************************************************************)
Gone(js, s) == \A k \in DOMAIN js : js[k].source = s => IsReversed(js, k)

UndoneBut(js, statuses, o) ==
    \A k \in DOMAIN js, p \in OrderIds \ {o} :
        /\ js[k].source = Cogs(p) =>
               (IsReversed(js, k) <=> statuses[p].status = "cancelled")
        /\ js[k].source = Revenue(p) =>
               (statuses[p].status = "cancelled" => IsReversed(js, k))

Taken(js, k) == [source |-> Manual, reversal_of |-> k, lines |-> Flip(js[k].lines)]

LegTaken(js, more, o, of) ==
    /\ of \in DOMAIN js /\ js[of].source \in {Cogs(o), Revenue(o)} /\ ~IsReversed(js, of)
    /\ more = Append(js, Taken(js, of))

\* What taking back of leaves as it was.
Leaves(js, more, of) ==
    /\ Gone(more, js[of].source)
    /\ \A s \in Sources : Gone(js, s) => Gone(more, s)
    /\ DOMAIN js \subseteq DOMAIN more
    /\ \A k \in DOMAIN js : more[k] = js[k]
    /\ \A k \in DOMAIN js : IsReversed(more, k) <=> IsReversed(js, k) \/ k = of

LEMMA TakenIsBooked ==
    ASSUME NEW js, NEW statuses, NEW ls \in [OrderIds -> Lines], NEW is \in Seq(Invoice),
           Books(js, statuses, ls, is), Len(is) <= MaxInvoices, NEW of \in DOMAIN js,
           js[of].source \in Legs, ~IsReversed(js, of)
    PROVE  Books(Append(js, Taken(js, of)), statuses, ls, is)
<1>1. \A r : r = [source |-> Manual, reversal_of |-> of, lines |-> Flip(js[of].lines)]
          => Books(Append(js, r), statuses, ls, is)
  BY ReverseLeg
<1> QED
  BY <1>1 DEF Taken

LEMMA LegGone ==
    ASSUME NEW js, NEW statuses, NEW ls \in [OrderIds -> Lines], NEW is \in Seq(Invoice),
           Books(js, statuses, ls, is), Len(is) <= MaxInvoices,
           NEW o \in OrderIds, UndoneBut(js, statuses, o),
           NEW of, NEW more, LegTaken(js, more, o, of)
    PROVE  Books(more, statuses, ls, is) /\ UndoneBut(more, statuses, o) /\ Leaves(js, more, of)
<1>0. /\ of \in DOMAIN js /\ js[of].source \in {Cogs(o), Revenue(o)} /\ ~IsReversed(js, of)
      /\ more = Append(js, Taken(js, of))
  BY DEF LegTaken
<1>1. js[of].source \in Legs /\ Shape(js) /\ js \in Seq(Row)
  BY <1>0 DEF Legs, Books, Shape
<1>2. \A r : r = [source |-> Manual, reversal_of |-> of, lines |-> Flip(js[of].lines)] =>
          /\ r \in Row
          /\ \A k \in DOMAIN js : IsReversed(Append(js, r), k) <=> IsReversed(js, k) \/ k = of
  BY <1>0, <1>1, ReversalKeepsShape
<1>3. PICK row : row = Taken(js, of)
  OBVIOUS
<1>4. row \in Row /\ row.source = Manual /\ more = Append(js, row)
  BY <1>0, <1>2, <1>3 DEF Taken
<1>5. /\ DOMAIN more = DOMAIN js \cup {Len(js) + 1} /\ more[Len(js) + 1].source = Manual
      /\ \A k \in DOMAIN js : more[k] = js[k]
  BY <1>1, <1>4, MoreRows
<1>6. \A k \in DOMAIN js : IsReversed(more, k) <=> IsReversed(js, k) \/ k = of
  BY <1>0, <1>2 DEF Taken
<1>7. Books(more, statuses, ls, is)
  BY <1>0, <1>1, TakenIsBooked
<1>8. \A p \in OrderIds : Cogs(p) # Manual /\ Revenue(p) # Manual
  BY BillSource, LegsAreSources
<1>9. UndoneBut(more, statuses, o)
  <2> SUFFICES ASSUME NEW k \in DOMAIN more, NEW p \in OrderIds \ {o}
               PROVE  /\ more[k].source = Cogs(p) =>
                             (IsReversed(more, k) <=> statuses[p].status = "cancelled")
                      /\ more[k].source = Revenue(p) =>
                             (statuses[p].status = "cancelled" => IsReversed(more, k))
    BY DEF UndoneBut
  <2>1. CASE k \notin DOMAIN js
    BY <1>5, <1>8, <2>1
  <2>2. CASE k \in DOMAIN js /\ k # of
    BY <1>5, <1>6, <2>2 DEF UndoneBut
  <2>3. CASE k = of
    BY <1>0, <1>5, <2>3, SourcesDiffer
  <2> QED
    BY <2>1, <2>2, <2>3
<1>10. Gone(more, js[of].source)
  <2>1. \A k \in DOMAIN js : js[k].source = js[of].source => k = of
    BY <1>0, <1>1, LegsAreSources DEF Shape
  <2>2. js[of].source # Manual
    BY <1>1, LegsAreSources
  <2> QED
    BY <1>5, <1>6, <2>1, <2>2 DEF Gone
<1>11. \A s \in Sources : Gone(js, s) => Gone(more, s)
  BY <1>5, <1>6, LegsAreSources DEF Gone
<1> QED
  BY <1>5, <1>6, <1>7, <1>9, <1>10, <1>11 DEF Leaves

\* With nothing left of it in the ledger an order is as good as cancelled.
LEMMA CancelledTold ==
    ASSUME NEW js, NEW s1, NEW s2, NEW ls \in [OrderIds -> Lines], NEW is,
           Books(js, s1, ls, is), NEW o \in OrderIds, UndoneBut(js, s1, o),
           Gone(js, Cogs(o)), Gone(js, Revenue(o)),
           s2[o].status = "cancelled", \A p \in OrderIds \ {o} : s2[p] = s1[p]
    PROVE  Told(js, s2, ls, is)
<1>1. Tells(js, s2, ls, is)
  <2>1. ASSUME NEW k \in DOMAIN js PROVE TellsSale(js[k], s2, ls)
    <3>1. TellsSale(js[k], s1, ls)
      BY DEF Books, Tells
    <3>2. \A p \in OrderIds : s1[p].status \in {"confirmed", "paid", "cancelled"} =>
              s2[p].status \in {"confirmed", "paid", "cancelled"}
      OBVIOUS
    <3> QED
      BY <3>1, <3>2 DEF TellsSale
  <2> QED
    BY <2>1 DEF Books, Tells
<1>2. Undone(js, s2)
  <2>1. ASSUME NEW k \in DOMAIN js, NEW p \in OrderIds
        PROVE  /\ js[k].source = Cogs(p) => (IsReversed(js, k) <=> s2[p].status = "cancelled")
               /\ js[k].source = Revenue(p) => (s2[p].status = "cancelled" => IsReversed(js, k))
    <3>1. CASE p # o
      BY <3>1 DEF UndoneBut
    <3>2. CASE p = o
      BY <3>2 DEF Gone
    <3> QED
      BY <3>1, <3>2
  <2> QED
    BY <2>1 DEF Undone
<1> QED
  BY <1>1, <1>2 DEF Told, Books

\* A person takes back the revenue of a sale.
LEMMA RevenueTakenBack ==
    ASSUME NEW js, NEW statuses, NEW ls \in [OrderIds -> Lines], NEW is \in Seq(Invoice),
           Told(js, statuses, ls, is), Len(is) <= MaxInvoices, NEW o \in OrderIds,
           NEW of \in DOMAIN js, js[of].source = Revenue(o), ~IsReversed(js, of),
           NEW more, more = Append(js, Taken(js, of))
    PROVE  Told(more, statuses, ls, is)
<1>1. Books(js, statuses, ls, is) /\ Undone(js, statuses)
  BY DEF Told
<1>2. UndoneBut(js, statuses, o) /\ js[of].source \in {Cogs(o), Revenue(o)}
  BY <1>1 DEF Undone, UndoneBut
<1>3. /\ Books(more, statuses, ls, is) /\ UndoneBut(more, statuses, o)
      /\ Gone(more, Revenue(o))
      /\ DOMAIN js \subseteq DOMAIN more
      /\ \A k \in DOMAIN js : more[k] = js[k]
      /\ \A k \in DOMAIN js : IsReversed(more, k) <=> IsReversed(js, k) \/ k = of
  <2>1. LegTaken(js, more, o, of)
    BY <1>2 DEF LegTaken
  <2>2. Books(more, statuses, ls, is) /\ UndoneBut(more, statuses, o) /\ Leaves(js, more, of)
    BY <1>1, <1>2, <2>1, LegGone
  <2> QED
    BY <2>2 DEF Leaves
<1>4. \A k \in DOMAIN more : more[k].source = Cogs(o) => k \in DOMAIN js
  <2>1. js \in Seq(Row)
    BY <1>1 DEF Books, Shape
  <2>2. DOMAIN more = DOMAIN js \cup {Len(js) + 1} /\ more[Len(js) + 1] = Taken(js, of)
    BY <2>1
  <2>3. Taken(js, of).source = Manual
    BY DEF Taken
  <2> QED
    BY <2>2, <2>3, BillSource, LegsAreSources
<1>5. Undone(more, statuses)
  <2>1. ASSUME NEW k \in DOMAIN more, NEW p \in OrderIds
        PROVE  /\ more[k].source = Cogs(p) =>
                      (IsReversed(more, k) <=> statuses[p].status = "cancelled")
               /\ more[k].source = Revenue(p) =>
                      (statuses[p].status = "cancelled" => IsReversed(more, k))
    <3>1. CASE p # o
      BY <1>3, <3>1 DEF UndoneBut
    <3>2. CASE p = o
      <4>1. more[k].source = Revenue(o) => IsReversed(more, k)
        BY <1>3 DEF Gone
      <4>2. ASSUME more[k].source = Cogs(o)
            PROVE  IsReversed(more, k) <=> statuses[o].status = "cancelled"
        <5>1. k \in DOMAIN js /\ js[k].source = Cogs(o) /\ k # of
          BY <1>3, <1>4, <4>2, SourcesDiffer
        <5> QED
          BY <1>1, <1>3, <5>1 DEF Undone
      <4> QED
        BY <3>2, <4>1, <4>2
    <3> QED
      BY <3>1, <3>2
  <2> QED
    BY <2>1 DEF Undone
<1> QED
  BY <1>3, <1>5 DEF Told

LEMMA NoneInOrder == InOrder({}) = <<>>
<1>1. Cardinality({}) = 0
  BY FS_EmptySet
<1> QED
  BY <1>1 DEF InOrder

LEMMA OneInOrder == ASSUME NEW k \in Int PROVE InOrder({k}) = <<k>>
<1>1. Cardinality({k}) = 1 /\ Cardinality({}) = 0
  BY FS_Singleton, FS_EmptySet
<1>2. {j \in {k} : j < k} = {}
  OBVIOUS
<1>3. (CHOOSE x \in {k} : Cardinality({j \in {k} : j < x}) = 1 - 1) = k
  BY <1>1, <1>2
<1> QED
  BY <1>1, <1>3 DEF InOrder

LiveIn(js, source) == {k \in DOMAIN js : js[k].source = source /\ ~IsReversed(js, k)}

\* A source has one journal, so at most one that is still live.
LEMMA LiveInOne ==
    ASSUME NEW js, Shape(js), NEW source \in Sources
    PROVE  \/ LiveIn(js, source) = {} /\ InOrder(LiveIn(js, source)) = <<>> /\ Gone(js, source)
           \/ \E k \in DOMAIN js :
                  /\ LiveIn(js, source) = {k} /\ InOrder(LiveIn(js, source)) = <<k>>
                  /\ js[k].source = source /\ ~IsReversed(js, k)
<1>1. CASE LiveIn(js, source) = {}
  <2>1. Gone(js, source)
    BY <1>1 DEF LiveIn, Gone
  <2> QED
    BY <1>1, <2>1, NoneInOrder
<1>2. CASE LiveIn(js, source) # {}
  <2>1. PICK k \in DOMAIN js : js[k].source = source /\ ~IsReversed(js, k)
    BY <1>2 DEF LiveIn
  <2>2. \A j \in DOMAIN js : js[j].source = source => j = k
    BY <2>1, LegsAreSources DEF Shape
  <2>3. LiveIn(js, source) = {k}
    BY <2>1, <2>2 DEF LiveIn
  <2>4. k \in Int
    <3>1. js \in Seq(Row)
      BY DEF Shape
    <3> QED
      BY <3>1
  <2>5. InOrder({k}) = <<k>>
    BY <2>4, OneInOrder
  <2> QED
    BY <2>1, <2>3, <2>5
<1> QED
  BY <1>1, <1>2

TakenAll(js, live) == [i \in DOMAIN live |-> Taken(js, live[i])]

LEMMA ListsTaken ==
    ASSUME NEW js \in Seq(Row), NEW a, Taken(js, a) \in Row
    PROVE  /\ js \o TakenAll(js, <<>>) = js
           /\ js \o TakenAll(js, <<a>>) = Append(js, Taken(js, a))
<1>1. PICK r : r = Taken(js, a)
  OBVIOUS
<1>2. TakenAll(js, <<>>) = <<>> /\ TakenAll(js, <<a>>) = <<r>>
  BY <1>1 DEF TakenAll
<1>3. js \o <<>> = js /\ js \o <<r>> = Append(js, r)
  BY <1>1
<1> QED
  BY <1>1, <1>2, <1>3

LEMMA TwoTaken ==
    ASSUME NEW js \in Seq(Row), NEW a, NEW b, Taken(js, a) \in Row, Taken(js, b) \in Row
    PROVE  js \o TakenAll(js, <<a, b>>) = Append(Append(js, Taken(js, a)), Taken(js, b))
<1>1. PICK r, q : r = Taken(js, a) /\ q = Taken(js, b)
  OBVIOUS
<1>2. TakenAll(js, <<a, b>>) = <<r, q>>
  BY <1>1 DEF TakenAll
<1>3. js \o <<r, q>> = Append(Append(js, r), q)
  BY <1>1
<1> QED
  BY <1>1, <1>2, <1>3

LEMMA ListsOfTwo ==
    ASSUME NEW A, NEW a \in A, NEW b \in A
    PROVE  <<a>> \o <<>> = <<a>> /\ <<>> \o <<b>> = <<b>> /\ <<a>> \o <<b>> = <<a, b>>
<1>1. <<a>> \in Seq(A) /\ <<b>> \in Seq(A) /\ <<a, b>> \in Seq(A) /\ <<>> \in Seq(A)
  OBVIOUS
<1>2. <<a>> \o <<b>> = <<a, b>>
  <2> DEFINE c == <<a>> \o <<b>>
             d == <<a, b>>
  <2>1. c \in Seq(A) /\ Len(c) = 2 /\ c[1] = a /\ c[2] = b
    BY <1>1
  <2>2. d \in Seq(A) /\ Len(d) = 2 /\ d[1] = a /\ d[2] = b
    BY <1>1
  <2> HIDE DEF c, d
  <2>3. c = d
    BY <2>1, <2>2
  <2> QED
    BY <2>3 DEF c, d
<1>3. <<a>> \o <<>> = <<a>> /\ <<>> \o <<b>> = <<b>>
  BY <1>1
<1> QED
  BY <1>2, <1>3

\* reverse_sales_confirm_journals.
LEMMA SaleTakenBack ==
    ASSUME NEW js, NEW s1, NEW s2, NEW ls \in [OrderIds -> Lines], NEW is \in Seq(Invoice),
           Told(js, s1, ls, is), Len(is) <= MaxInvoices, NEW o \in OrderIds,
           s2[o].status = "cancelled", \A p \in OrderIds \ {o} : s2[p] = s1[p],
           NEW live, live = InOrder(LiveIn(js, Cogs(o))) \o InOrder(LiveIn(js, Revenue(o))),
           NEW more, more = js \o TakenAll(js, live)
    PROVE  Told(more, s2, ls, is)
<1>1. /\ Books(js, s1, ls, is) /\ Undone(js, s1)
      /\ Shape(js) /\ js \in Seq(Row)
  BY DEF Told, Books, Shape
<1>2. UndoneBut(js, s1, o)
  BY <1>1 DEF Undone, UndoneBut
<1>3. Cogs(o) \in Sources /\ Revenue(o) \in Sources
  BY BillSource
<1>4. \A k \in DOMAIN js : Taken(js, k) \in Row
  <2> SUFFICES ASSUME NEW k \in DOMAIN js PROVE Taken(js, k) \in Row
    OBVIOUS
  <2>1. js[k] \in Row /\ k \in Nat
    BY <1>1
  <2>2. Flip(js[k].lines) \in Seq(Line)
    BY <2>1, RowsHoldLines, FlipIsLines
  <2> QED
    BY <2>1, <2>2 DEF Taken, Row
<1>8. \A a, b \in DOMAIN js :
          /\ js \o TakenAll(js, <<>>) = js
          /\ js \o TakenAll(js, <<a>>) = Append(js, Taken(js, a))
          /\ js \o TakenAll(js, <<a, b>>) = Append(Append(js, Taken(js, a)), Taken(js, b))
          /\ <<a>> \o <<>> = <<a>> /\ <<>> \o <<b>> = <<b>>
          /\ <<a>> \o <<b>> = <<a, b>>
  <2> SUFFICES ASSUME NEW a \in DOMAIN js, NEW b \in DOMAIN js
               PROVE  /\ js \o TakenAll(js, <<>>) = js
                      /\ js \o TakenAll(js, <<a>>) = Append(js, Taken(js, a))
                      /\ js \o TakenAll(js, <<a, b>>)
                             = Append(Append(js, Taken(js, a)), Taken(js, b))
                      /\ <<a>> \o <<>> = <<a>> /\ <<>> \o <<b>> = <<b>>
                      /\ <<a>> \o <<b>> = <<a, b>>
    OBVIOUS
  <2>1. Taken(js, a) \in Row /\ Taken(js, b) \in Row
    BY <1>4
  <2>2. js \in Seq(Row)
    BY <1>1
  <2>3. js \o TakenAll(js, <<>>) = js
    BY <2>1, <2>2, ListsTaken
  <2>4. js \o TakenAll(js, <<a>>) = Append(js, Taken(js, a))
    BY <2>1, <2>2, ListsTaken
  <2>5. js \o TakenAll(js, <<a, b>>) = Append(Append(js, Taken(js, a)), Taken(js, b))
    BY <2>1, <2>2, TwoTaken
  <2>6. <<a>> \o <<>> = <<a>> /\ <<>> \o <<b>> = <<b>> /\ <<a>> \o <<b>> = <<a, b>>
    BY ListsOfTwo
  <2> QED
    BY <2>3, <2>4, <2>5, <2>6, Zenon
<1>9. js \o TakenAll(js, <<>>) = js /\ <<>> \o <<>> = <<>>
  <2>1. TakenAll(js, <<>>) = <<>>
    BY DEF TakenAll
  <2> QED
    BY <1>1, <2>1
<1>5. ASSUME NEW x, Books(x, s1, ls, is), UndoneBut(x, s1, o), Gone(x, Cogs(o)),
             Gone(x, Revenue(o))
      PROVE  Told(x, s2, ls, is)
  BY <1>5, CancelledTold
<1>6. CASE InOrder(LiveIn(js, Cogs(o))) = <<>> /\ Gone(js, Cogs(o))
  <2>1. CASE InOrder(LiveIn(js, Revenue(o))) = <<>> /\ Gone(js, Revenue(o))
    <3>1. live = <<>>
      BY <1>6, <1>9, <2>1
    <3>2. more = js
      BY <1>9, <3>1
    <3> QED
      BY <1>1, <1>2, <1>5, <1>6, <2>1, <3>2
  <2>2. ASSUME NEW b \in DOMAIN js, InOrder(LiveIn(js, Revenue(o))) = <<b>>,
               js[b].source = Revenue(o), ~IsReversed(js, b)
        PROVE  Told(more, s2, ls, is)
    <3>1. live = <<b>>
      BY <1>6, <1>8, <2>2
    <3>2. more = Append(js, Taken(js, b))
      BY <1>8, <3>1
    <3>4. LegTaken(js, more, o, b)
      BY <2>2, <3>2 DEF LegTaken
    <3>3. /\ Books(more, s1, ls, is) /\ UndoneBut(more, s1, o)
          /\ Gone(more, js[b].source) /\ \A s \in Sources : Gone(js, s) => Gone(more, s)
      <4>1. Books(more, s1, ls, is) /\ UndoneBut(more, s1, o) /\ Leaves(js, more, b)
        BY <1>1, <1>2, <3>4, LegGone
      <4> QED
        BY <4>1 DEF Leaves
    <3> QED
      BY <1>3, <1>5, <1>6, <2>2, <3>3
  <2> QED
    BY <1>1, <1>3, <2>1, <2>2, LiveInOne
<1>7. ASSUME NEW a \in DOMAIN js, InOrder(LiveIn(js, Cogs(o))) = <<a>>,
             js[a].source = Cogs(o), ~IsReversed(js, a)
      PROVE  Told(more, s2, ls, is)
  <2>0. PICK one : one = Append(js, Taken(js, a))
    OBVIOUS
  <2>3. /\ Books(one, s1, ls, is) /\ UndoneBut(one, s1, o)
        /\ Gone(one, js[a].source) /\ \A s \in Sources : Gone(js, s) => Gone(one, s)
        /\ DOMAIN js \subseteq DOMAIN one /\ \A k \in DOMAIN js : one[k] = js[k]
        /\ \A k \in DOMAIN js : IsReversed(one, k) <=> IsReversed(js, k) \/ k = a
    <3>1. LegTaken(js, one, o, a)
      BY <1>7, <2>0 DEF LegTaken
    <3>2. Books(one, s1, ls, is) /\ UndoneBut(one, s1, o) /\ Leaves(js, one, a)
      BY <1>1, <1>2, <3>1, LegGone
    <3> QED
      BY <3>2 DEF Leaves
  <2>1. CASE InOrder(LiveIn(js, Revenue(o))) = <<>> /\ Gone(js, Revenue(o))
    <3>1. live = <<a>>
      BY <1>7, <1>8, <2>1
    <3>2. more = one
      BY <1>7, <1>8, <2>0, <3>1
    <3> QED
      BY <1>3, <1>5, <1>7, <2>1, <2>3, <3>2
  <2>2. ASSUME NEW b \in DOMAIN js, InOrder(LiveIn(js, Revenue(o))) = <<b>>,
               js[b].source = Revenue(o), ~IsReversed(js, b)
        PROVE  Told(more, s2, ls, is)
    <3>1. live = <<a, b>>
      BY <1>7, <1>8, <2>2
    <3>2. more = Append(Append(js, Taken(js, a)), Taken(js, b))
      BY <1>7, <1>8, <2>2, <3>1
    <3>3. Taken(js, b) = Taken(one, b)
      BY <2>3 DEF Taken
    <3>4. more = Append(one, Taken(one, b))
      BY <2>0, <3>2, <3>3
    <3>5. b \in DOMAIN one /\ one[b].source = Revenue(o) /\ ~IsReversed(one, b)
      <4>1. a # b
        BY <1>7, <2>2, SourcesDiffer
      <4> QED
        BY <2>2, <2>3, <4>1
    <3>6. /\ Books(more, s1, ls, is) /\ UndoneBut(more, s1, o)
          /\ Gone(more, one[b].source) /\ \A s \in Sources : Gone(one, s) => Gone(more, s)
      <4>1. LegTaken(one, more, o, b)
        BY <3>4, <3>5 DEF LegTaken
      <4>2. Books(more, s1, ls, is) /\ UndoneBut(more, s1, o) /\ Leaves(one, more, b)
        BY <2>3, <4>1, LegGone
      <4> QED
        BY <4>2 DEF Leaves
    <3> QED
      BY <1>3, <1>5, <1>7, <2>3, <3>5, <3>6
  <2> QED
    BY <1>1, <1>3, <2>1, <2>2, LiveInOne
<1> QED
  BY <1>1, <1>3, <1>6, <1>7, LiveInOne

-----------------------------------------------------------------------------
(***************************************************************************)
(* Invoices and payments.                                                  *)
(***************************************************************************)
\* An invoice that has no journal yet.
LEMMA BillRaised ==
    ASSUME NEW js, NEW statuses, NEW ls \in [OrderIds -> Lines], NEW is \in Seq(Invoice),
           Told(js, statuses, ls, is), Len(is) < MaxInvoices, NEW inv \in Invoice
    PROVE  /\ Told(js, statuses, ls, Append(is, inv))
           /\ ~PostedIn(js, Bill(Len(is) + 1))
<1> DEFINE more == Append(is, inv)
           n == Len(is) + 1
           S == DOMAIN is
           f == Billing(js, more)
           e == Billing(js, is)
<1>1. /\ more \in Seq(Invoice) /\ DOMAIN more = S \cup {n} /\ n \notin S /\ n \in Nat
      /\ \A i \in S : more[i] = is[i] /\ i \in Nat
      /\ n \in 1..MaxInvoices
  BY BoundsAssumption
<1>2. /\ Books(js, statuses, ls, is) /\ Undone(js, statuses)
      /\ Shape(js) /\ Tells(js, statuses, ls, is) /\ Earned(js, ls, is)
  BY DEF Told, Books
<1>3. ~PostedIn(js, Bill(n))
  BY <1>1, <1>2 DEF PostedIn, Tells, TellsBill
<1>4. ~Live(js, Bill(n))
  BY <1>3 DEF PostedIn, Live
<1>5. Tells(js, statuses, ls, more)
  <2>1. \A k \in DOMAIN js : TellsBill(js[k], is) => TellsBill(js[k], more)
    BY <1>1 DEF TellsBill
  <2> HIDE DEF more
  <2> QED
    BY <1>2, <2>1 DEF Tells
<1>6. Total(f) = Total(e)
  <2>1. IsFiniteSet(S) /\ DOMAIN f = S \cup {n} /\ DOMAIN e = S
    BY <1>1, AmountsTyped
  <2>2. \A y \in S \cup {n} : f[y] \in Int
    BY <1>1, AmountsTyped
  <2>3. \A y \in S : e[y] = f[y]
    BY <1>1 DEF Billing
  <2>4. f[n] = 0
    BY <1>1, <1>4 DEF Billing
  <2>5. n \notin S
    BY <1>1
  <2>6. Total(e) \in Int
    BY AmountsTyped
  <2> HIDE DEF f, e, S, n
  <2>7. Grown(f, e, S, n)
    BY <2>1, <2>2, <2>3, <2>5 DEF Grown
  <2>8. Total(f) = f[n] + Total(e)
    BY <2>7, TotalGrown
  <2> QED
    BY <2>4, <2>6, <2>8
<1>7. Earned(js, ls, more)
  BY <1>2, <1>6 DEF Earned
<1> QED
  BY <1>1, <1>2, <1>3, <1>5, <1>7 DEF Told, Books

\* A payment on an invoice changes nothing the ledger tells.
LEMMA BillPaid ==
    ASSUME NEW js, NEW statuses, NEW ls \in [OrderIds -> Lines], NEW is \in Seq(Invoice),
           Told(js, statuses, ls, is), NEW i \in DOMAIN is, NEW amount \in Int
    PROVE  /\ [is EXCEPT ![i].paid = @ + amount] \in Seq(Invoice)
           /\ Len([is EXCEPT ![i].paid = @ + amount]) = Len(is)
           /\ Told(js, statuses, ls, [is EXCEPT ![i].paid = @ + amount])
<1> DEFINE more == [is EXCEPT ![i].paid = @ + amount]
<1>1. is \in [1..Len(is) -> Invoice] /\ Len(is) \in Nat /\ DOMAIN is = 1..Len(is)
  OBVIOUS
<1>2. [is[i] EXCEPT !.paid = @ + amount] \in Invoice
  BY <1>1 DEF Invoice
<1>3. more \in [1..Len(is) -> Invoice]
  BY <1>1, <1>2
<1>4. more \in Seq(Invoice) /\ Len(more) = Len(is) /\ DOMAIN more = DOMAIN is
  BY <1>1, <1>3
<1>5. \A j \in DOMAIN is : more[j].order = is[j].order /\ more[j].lines = is[j].lines
  BY <1>1 DEF Invoice
<1> HIDE DEF more
<1>6. /\ Books(js, statuses, ls, is) /\ Undone(js, statuses)
      /\ Shape(js) /\ Tells(js, statuses, ls, is) /\ Earned(js, ls, is)
  BY DEF Told, Books
<1>7. Tells(js, statuses, ls, more)
  <2>1. \A k \in DOMAIN js : TellsBill(js[k], is) => TellsBill(js[k], more)
    BY <1>4, <1>5 DEF TellsBill
  <2> QED
    BY <1>6, <2>1 DEF Tells
<1>8. Earned(js, ls, more)
  <2>1. Billing(js, more) = Billing(js, is)
    BY <1>4, <1>5 DEF Billing
  <2> QED
    BY <1>6, <2>1 DEF Earned
<1> QED
  BY <1>4, <1>6, <1>7, <1>8 DEF Told, Books, more

\* A journal that is none of a sale's.
LEMMA EntryTold ==
    ASSUME NEW js, NEW statuses, NEW ls, NEW is, Told(js, statuses, ls, is),
           NEW row \in Row, row.source \in Sources, row.reversal_of = 0,
           \A o \in OrderIds : row.source # Cogs(o) /\ row.source # Revenue(o),
           ~PostedIn(js, row.source), Books(Append(js, row), statuses, ls, is)
    PROVE  Told(Append(js, row), statuses, ls, is)
<1>1. Shape(js) /\ Undone(js, statuses)
  BY DEF Told, Books
<1>2. \A k \in DOMAIN js : js[k].source # row.source
  BY DEF PostedIn
<1>3. \A o \in OrderIds : row.source \in {Cogs(o), Revenue(o)} =>
          statuses[o].status # "cancelled"
  OBVIOUS
<1>4. Undone(Append(js, row), statuses)
  BY <1>1, <1>2, <1>3, UndoneEntry
<1> QED
  BY <1>4 DEF Told

LEMMA BillTold ==
    ASSUME NEW js, NEW statuses, NEW ls \in [OrderIds -> Lines], NEW is \in Seq(Invoice),
           Told(js, statuses, ls, is), Len(is) <= MaxInvoices, NEW i \in DOMAIN is,
           is[i].order = NoOrder, ~PostedIn(js, Bill(i))
    PROVE  Told(js \o Entries(Bill(i), "receivable", "revenue", GrossOf(is[i].lines)),
                statuses, ls, is)
<1>1. Books(js, statuses, ls, is) /\ js \in Seq(Row)
  BY DEF Told, Books, Shape
<1>2. \A k \in DOMAIN js : js[k].source # Bill(i)
  BY DEF PostedIn
<1>3. i \in Nat /\ Bill(i) \in Sources /\ GrossOf(is[i].lines) \in Nat
  <2>1. i \in 1..Len(is) /\ Len(is) \in Nat
    OBVIOUS
  <2>2. i \in 1..MaxInvoices
    BY <2>1, BoundsAssumption
  <2> QED
    BY <2>1, <2>2, BillSource, AmountsTyped
<1>4. \A r : r = Entry(Bill(i), "receivable", "revenue", GrossOf(is[i].lines))
          => Books(Append(js, r), statuses, ls, is)
  BY <1>1, <1>2, PostBill
<1>5. PICK row : row = Entry(Bill(i), "receivable", "revenue", GrossOf(is[i].lines))
  OBVIOUS
<1>6. row \in Row /\ row.source = Bill(i) /\ row.reversal_of = 0
  <2>1. PICK s \in Sources, d \in Accounts, c \in Accounts, amount \in Nat :
            s = Bill(i) /\ d = "receivable" /\ c = "revenue" /\ amount = GrossOf(is[i].lines)
    BY <1>3, TradeAssumption DEF TradeAccounts
  <2>2. row = Entry(s, d, c, amount)
    BY <1>5, <2>1
  <2> QED
    BY <2>1, <2>2, EntryIsRow
<1>7. \A o \in OrderIds : Bill(i) # Cogs(o) /\ Bill(i) # Revenue(o)
  BY <1>3, SourcesDiffer
<1>8. Books(Append(js, row), statuses, ls, is)
  BY <1>4, <1>5
<1>9. Told(Append(js, row), statuses, ls, is)
  BY <1>3, <1>6, <1>7, <1>8, EntryTold
<1>10. js \o Entries(Bill(i), "receivable", "revenue", GrossOf(is[i].lines))
           \in {js, Append(js, row)}
  BY <1>1, <1>5, <1>6, NothingConcat DEF Entries
<1> QED
  BY <1>9, <1>10

LEMMA PaymentTold ==
    ASSUME NEW js, NEW statuses, NEW ls \in [OrderIds -> Lines], NEW is \in Seq(Invoice),
           Told(js, statuses, ls, is), NEW n \in 1..MaxJournals, NEW amount \in Nat,
           ~PostedIn(js, Settling(n))
    PROVE  Told(js \o Entries(Settling(n), "bank", "receivable", amount), statuses, ls, is)
<1>1. Books(js, statuses, ls, is) /\ js \in Seq(Row)
  BY DEF Told, Books, Shape
<1>2. \A k \in DOMAIN js : js[k].source # Settling(n)
  BY DEF PostedIn
<1>3. n \in Nat /\ Settling(n) \in Sources
  BY BillSource
<1>5. PICK row : row = Entry(Settling(n), "bank", "receivable", amount)
  OBVIOUS
<1>4. Paying(js, row, n, amount)
  BY <1>2, <1>5 DEF Paying
<1>6. row \in Row /\ row.source = Settling(n) /\ row.reversal_of = 0
  <2>1. PICK s \in Sources, d \in Accounts, c \in Accounts :
            s = Settling(n) /\ d = "bank" /\ c = "receivable"
    BY <1>3, TradeAssumption DEF TradeAccounts
  <2>2. row = Entry(s, d, c, amount)
    BY <1>5, <2>1
  <2> QED
    BY <2>1, <2>2, EntryIsRow
<1>7. \A o \in OrderIds : Settling(n) # Cogs(o) /\ Settling(n) # Revenue(o)
  BY <1>3, SourcesDiffer
<1>8. Books(Append(js, row), statuses, ls, is)
  BY <1>1, <1>4, PostPayment
<1>9. Told(Append(js, row), statuses, ls, is)
  BY <1>3, <1>6, <1>7, <1>8, EntryTold
<1>10. js \o Entries(Settling(n), "bank", "receivable", amount) \in {js, Append(js, row)}
  BY <1>1, <1>5, <1>6, NothingConcat DEF Entries
<1> QED
  BY <1>9, <1>10

-----------------------------------------------------------------------------
(***************************************************************************)
(* The ledger of the shop.                                                 *)
(***************************************************************************)
LedgerInv ==
    /\ invoices \in Seq(Invoice) /\ Len(invoices) <= MaxInvoices
    /\ Told(journals, orders, lines, invoices)

LEMMA LedgerStarts == Init => LedgerInv
<1> SUFFICES ASSUME Init PROVE LedgerInv
  OBVIOUS
<1>1. /\ invoices = <<>> /\ journals = <<>>
      /\ lines \in [OrderIds -> Lines]
  BY NoLinesTyped DEF Init
<1>2. invoices \in Seq(Invoice) /\ Len(invoices) <= MaxInvoices
  BY <1>1, BoundsAssumption
<1>3. DOMAIN journals = {} /\ DOMAIN invoices = {} /\ journals \in Seq(Row)
  BY <1>1
<1>4. Shape(journals) /\ Tells(journals, orders, lines, invoices)
  BY <1>3 DEF Shape, Tells
<1>5. Undone(journals, orders)
  BY <1>3 DEF Undone
<1>6. Revenued(journals, "revenue") = 0
  BY <1>3, TotalEmpty DEF Revenued, NetOf
<1>7. \A s : ~Live(journals, s)
  BY <1>3 DEF Live
<1>8. Total(Earning(journals, lines)) = 0
  <2>1. /\ DOMAIN Earning(journals, lines) = OrderIds /\ IsFiniteSet(OrderIds)
        /\ \A o \in OrderIds : Earning(journals, lines)[o] = 0
    BY <1>1, <1>2, <1>7, AmountsTyped
  <2> QED
    BY <2>1, TotalZero
<1>9. Total(Billing(journals, invoices)) = 0
  <2>1. DOMAIN Billing(journals, invoices) = {}
    BY <1>3 DEF Billing
  <2> QED
    BY <2>1, TotalEmpty
<1>10. Earned(journals, lines, invoices)
  BY <1>6, <1>8, <1>9 DEF Earned
<1> QED
  BY <1>2, <1>4, <1>5, <1>10 DEF LedgerInv, Told, Books

\* Journals that are none of a sale's are never reversed.
LEMMA OthersAreLive ==
    ASSUME NEW js, Shape(js), NEW source, source \notin Legs,
           {k \in DOMAIN js : js[k].source = source /\ ~IsNetReversed(js, k)} = {}
    PROVE  ~PostedIn(js, source)
<1> SUFFICES ASSUME NEW k \in DOMAIN js, js[k].source = source PROVE FALSE
  BY DEF PostedIn
<1>1. ~IsReversed(js, k)
  <2> SUFFICES ASSUME NEW r \in DOMAIN js, js[r].reversal_of = k PROVE FALSE
    BY DEF IsReversed, ReversalsOf
  <2>1. k # 0
    BY DEF Shape
  <2>2. js[r].source = Manual
    BY <2>1 DEF Shape
  <2>3. js[k].source \in Legs
    BY <2>2 DEF Shape
  <2> QED
    BY <2>3
<1>2. ~IsNetReversed(js, k)
  BY <1>1, NetReversedOnce
<1> QED
  BY <1>2

LEMMA LiveOfIs ==
    ASSUME LedgerInv, NEW source
    PROVE  LiveOf(source) = LiveIn(journals, source)
<1>1. Shape(journals)
  BY DEF LedgerInv, Told, Books
<1>2. \A k \in DOMAIN journals : IsNetReversed(journals, k) <=> IsReversed(journals, k)
  BY <1>1, NetReversedOnce
<1> QED
  BY <1>2 DEF LiveOf, LiveIn

LEMMA DraftHasNoJournal ==
    ASSUME LedgerInv, NEW o \in OrderIds,
           orders[o].status \notin {"confirmed", "paid", "cancelled"}
    PROVE  ~PostedIn(journals, Cogs(o)) /\ ~PostedIn(journals, Revenue(o))
<1>1. Tells(journals, orders, lines, invoices)
  BY DEF LedgerInv, Told, Books
<1> QED
  BY <1>1 DEF Tells, TellsSale, PostedIn

\* The orders change and the ledger does not.
LEMMA TurnTold ==
    ASSUME LedgerInv, ShopInv, ShopInv', NEW o \in OrderIds,
           Opens(o) \/ Drafts(o) \/ Pays(o) \/ Confirms(o)
    PROVE  Told(journals, orders', lines', invoices)
<1>1. lines \in [OrderIds -> Lines] /\ lines' \in [OrderIds -> Lines]
  BY DEF ShopInv, OrdersTyped
<1>2. Told(journals, orders, lines, invoices)
  BY DEF LedgerInv
<1>3. \A p \in OrderIds \ {o} : orders'[p] = orders[p] /\ lines'[p] = lines[p]
  BY DEF Opens, Drafts, Pays, Confirms, Turns
<1>4. \/ orders[o].status \notin {"confirmed", "paid", "cancelled"}
      \/ /\ orders[o].status \in {"confirmed", "paid"}
         /\ orders'[o].status \in {"confirmed", "paid"}
         /\ lines'[o] = lines[o]
  BY DEF Opens, Drafts, Pays, Confirms, Turns
<1>5. PICK O, L : O = orders' /\ L = lines'
  OBVIOUS
<1>6. L \in [OrderIds -> Lines]
  BY <1>1, <1>5
<1>7. \A p \in OrderIds \ {o} : O[p] = orders[p] /\ L[p] = lines[p]
  BY <1>3, <1>5
<1>8. \/ orders[o].status \notin {"confirmed", "paid", "cancelled"}
      \/ /\ orders[o].status \in {"confirmed", "paid"}
         /\ O[o].status \in {"confirmed", "paid"}
         /\ L[o] = lines[o]
  BY <1>4, <1>5
<1>9. Told(journals, O, L, invoices)
  BY <1>1, <1>2, <1>6, <1>7, <1>8, OrderTurned
<1> QED
  BY <1>5, <1>9

LEMMA ConfirmTold ==
    ASSUME LedgerInv, ShopInv, ShopInv', NEW o \in OrderIds, Confirms(o)
    PROVE  Told(journals', orders', lines', invoices)
<1>1. Told(journals, orders', lines', invoices)
  BY TurnTold
<1>2. /\ lines' \in [OrderIds -> Lines] /\ lines' = lines /\ orders'[o].status = "confirmed"
      /\ orders[o].status = "draft" /\ journals' = journals \o SaleEntries(o, lines[o])
  BY DEF ShopInv, OrdersTyped, Confirms, Turns, Post
<1>3. ~PostedIn(journals, Cogs(o)) /\ ~PostedIn(journals, Revenue(o))
  BY <1>2, DraftHasNoJournal
<1>4. invoices \in Seq(Invoice) /\ Len(invoices) <= MaxInvoices
  BY DEF LedgerInv
<1>5. PICK O, L : O = orders' /\ L = lines'
  OBVIOUS
<1>6. /\ L \in [OrderIds -> Lines] /\ O[o].status = "confirmed"
      /\ Told(journals, O, L, invoices)
  BY <1>1, <1>2, <1>5
<1>7. Told(journals \o SaleEntries(o, L[o]), O, L, invoices)
  BY <1>3, <1>4, <1>6, SaleTold
<1> QED
  BY <1>2, <1>5, <1>7

LEMMA CancelTold ==
    ASSUME LedgerInv, ShopInv, NEW o \in OrderIds, Cancels(o)
    PROVE  Told(journals', orders', lines', invoices)
<1>1. /\ lines \in [OrderIds -> Lines] /\ lines' = lines /\ orders'[o].status = "cancelled"
      /\ \A p \in OrderIds \ {o} : orders'[p] = orders[p]
  BY DEF ShopInv, OrdersTyped, Cancels, Turns
<1>2. /\ invoices \in Seq(Invoice) /\ Len(invoices) <= MaxInvoices
      /\ Told(journals, orders, lines, invoices)
  BY DEF LedgerInv
<1>3. PICK live : live = InOrder(LiveIn(journals, Cogs(o))) \o InOrder(LiveIn(journals, Revenue(o)))
  OBVIOUS
<1>4. LiveSale(o) = live
  BY <1>3, LiveOfIs DEF LiveSale
<1>5. journals' = journals \o TakenAll(journals, live)
  BY <1>4 DEF Cancels, ReverseSale, TakenAll, Taken, ReversalOfJournal
<1>6. PICK O, more : O = orders' /\ more = journals \o TakenAll(journals, live)
  OBVIOUS
<1>7. O[o].status = "cancelled" /\ \A p \in OrderIds \ {o} : O[p] = orders[p]
  BY <1>1, <1>6
<1>8. more = journals \o TakenAll(journals, live)
  BY <1>6
<1>9. Told(more, O, lines, invoices)
  BY <1>1, <1>2, <1>3, <1>7, <1>8, SaleTakenBack
<1> QED
  BY <1>1, <1>5, <1>6, <1>9

LEMMA IssueTold ==
    ASSUME LedgerInv, ShopInv, NEW order \in OrderIds \cup {NoOrder}, NEW ls \in Lines,
           Bills(order, ls)
    PROVE  /\ Told(journals', orders, lines, invoices')
           /\ invoices' \in Seq(Invoice) /\ Len(invoices') <= MaxInvoices
<1> DEFINE n == Len(invoices) + 1
           inv == [order |-> order, lines |-> ls, paid |-> 0]
<1>1. /\ lines \in [OrderIds -> Lines] /\ invoices \in Seq(Invoice)
      /\ Told(journals, orders, lines, invoices)
  BY DEF ShopInv, OrdersTyped, LedgerInv
<1>2. /\ Len(invoices) < MaxInvoices /\ invoices' = Append(invoices, inv)
      /\ journals' = journals \o InvoiceEntries(order, ls)
  BY DEF Bills, Issue, Post
<1>3. inv \in Invoice /\ inv.order = order /\ inv.lines = ls
  BY DEF Invoice
<1> HIDE DEF inv
<1>4. PICK I : I = Append(invoices, inv)
  OBVIOUS
<1>5. Told(journals, orders, lines, I) /\ ~PostedIn(journals, Bill(n))
  BY <1>1, <1>2, <1>3, <1>4, BillRaised
<1>6. /\ I \in Seq(Invoice) /\ Len(I) = n /\ Len(I) <= MaxInvoices /\ n \in DOMAIN I
      /\ I[n] = inv
  BY <1>1, <1>2, <1>3, <1>4, BoundsAssumption
<1>7. journals \in Seq(Row)
  BY <1>1 DEF Told, Books, Shape
<1>8. Told(journals', orders, lines, I)
  <2>1. CASE order # NoOrder
    <3>1. journals' = journals
      BY <1>2, <1>7, <2>1 DEF InvoiceEntries
    <3> QED
      BY <1>5, <3>1
  <2>2. CASE order = NoOrder
    <3>1. journals' = journals \o Entries(Bill(n), "receivable", "revenue", GrossOf(I[n].lines))
      BY <1>2, <1>3, <1>6, <2>2 DEF InvoiceEntries, Bill
    <3>2. I[n].order = NoOrder
      BY <1>3, <1>6, <2>2
    <3> HIDE DEF n
    <3>3. Told(journals \o Entries(Bill(n), "receivable", "revenue", GrossOf(I[n].lines)),
               orders, lines, I)
      BY <1>1, <1>5, <1>6, <3>2, BillTold
    <3> QED
      BY <3>1, <3>3
  <2> QED
    BY <2>1, <2>2
<1> QED
  BY <1>2, <1>4, <1>6, <1>8

LEMMA SettleTold ==
    ASSUME LedgerInv, ShopInv, Settles
    PROVE  /\ Told(journals', orders, lines, invoices')
           /\ invoices' \in Seq(Invoice) /\ Len(invoices') <= MaxInvoices
<1> DEFINE n == Len(journals) + 1
<1>1. /\ lines \in [OrderIds -> Lines] /\ invoices \in Seq(Invoice)
      /\ Len(invoices) <= MaxInvoices /\ Told(journals, orders, lines, invoices)
  BY DEF ShopInv, OrdersTyped, LedgerInv
<1>2. PICK i \in DOMAIN invoices, amount \in 1..MaxPayment :
          /\ invoices' = [invoices EXCEPT ![i].paid = @ + amount]
          /\ Post(Entries(<<"payment", n>>, "bank", "receivable", amount))
  BY DEF Settles
<1>3. amount \in Nat /\ amount \in Int /\ amount # 0
  BY BoundsAssumption
<1>4. PICK I : I = [invoices EXCEPT ![i].paid = @ + amount]
  OBVIOUS
<1>5. I \in Seq(Invoice) /\ Len(I) = Len(invoices) /\ Told(journals, orders, lines, I)
  <2>1. PICK x \in Int : x = amount
    BY <1>3
  <2>2. [invoices EXCEPT ![i].paid = @ + x] \in Seq(Invoice)
    BY <1>1, BillPaid
  <2>3. Len([invoices EXCEPT ![i].paid = @ + x]) = Len(invoices)
    BY <1>1, BillPaid
  <2>4. Told(journals, orders, lines, [invoices EXCEPT ![i].paid = @ + x])
    BY <1>1, BillPaid
  <2>5. I = [invoices EXCEPT ![i].paid = @ + x]
    BY <1>4, <2>1
  <2> QED
    BY <2>2, <2>3, <2>4, <2>5
<1>6. Shape(journals) /\ journals \in Seq(Row) /\ Len(journals) \in Nat
  <2>1. Shape(journals)
    BY <1>1 DEF Told, Books
  <2>2. journals \in Seq(Row)
    BY <2>1 DEF Shape
  <2> QED
    BY <2>1, <2>2
<1>7. Told(journals', orders, lines, I)
  <2>1. CASE ~({"bank", "receivable"} \subseteq chart)
    <3>1. journals' = journals
      BY <1>2, <1>6, <2>1 DEF Post, Entries
    <3> QED
      BY <1>5, <3>1
  <2>2. CASE {"bank", "receivable"} \subseteq chart
    <3>1. PICK row : row = Entry(Settling(n), "bank", "receivable", amount)
      OBVIOUS
    <3>2. Entries(Settling(n), "bank", "receivable", amount) = <<row>>
      BY <1>3, <2>2, <3>1 DEF Entries
    <3>3. row.source = Settling(n)
      BY <3>1 DEF Entry
    <3>4. /\ SourceFree(Settling(n)) /\ Len(journals) + 1 <= MaxJournals
          /\ journals' = journals \o Entries(Settling(n), "bank", "receivable", amount)
      <4>1. Post(<<row>>)
        BY <1>2, <3>2 DEF Settling
      <4>2. Len(<<row>>) = 1 /\ 1 \in DOMAIN <<row>> /\ <<row>>[1] = row
        OBVIOUS
      <4>3. SourceFree(row.source) /\ Len(journals) + 1 <= MaxJournals /\ journals' = journals \o <<row>>
        BY <4>1, <4>2 DEF Post
      <4> QED
        BY <3>2, <3>3, <4>3
    <3>5. n \in 1..MaxJournals /\ n \in Nat
      BY <1>6, <3>4, BoundsAssumption
    <3>6. Settling(n) \notin Legs
      BY <3>5, SourcesDiffer DEF Legs
    <3> HIDE DEF n
    <3>7. ~PostedIn(journals, Settling(n))
      BY <1>6, <3>4, <3>6, OthersAreLive DEF SourceFree, LiveOf
    <3>8. Told(journals \o Entries(Settling(n), "bank", "receivable", amount), orders, lines, I)
      BY <1>1, <1>3, <1>5, <3>5, <3>7, PaymentTold
    <3> QED
      BY <3>4, <3>8
  <2> QED
    BY <2>1, <2>2
<1> QED
  BY <1>1, <1>2, <1>4, <1>5, <1>7

LEMMA ReverseTold ==
    ASSUME OnlyRevenueByHand, LedgerInv, ShopInv, Reverses
    PROVE  Told(journals', orders, lines, invoices)
<1>1. /\ lines \in [OrderIds -> Lines] /\ invoices \in Seq(Invoice)
      /\ Len(invoices) <= MaxInvoices /\ Told(journals, orders, lines, invoices)
  BY DEF ShopInv, OrdersTyped, LedgerInv
<1>2. PICK k \in DOMAIN journals : /\ journals[k].source \in ReversedByHand
                                   /\ ~IsReversed(journals, k)
                                   /\ journals' = Append(journals, ReversalOfJournal(k))
  BY DEF Reverses
<1>3. PICK o \in OrderIds : journals[k].source = Revenue(o)
  BY <1>2 DEF OnlyRevenueByHand
<1>4. journals' = Append(journals, Taken(journals, k))
  BY <1>2 DEF ReversalOfJournal, Taken
<1>5. PICK more : more = Append(journals, Taken(journals, k))
  OBVIOUS
<1>6. Told(more, orders, lines, invoices)
  BY <1>1, <1>2, <1>3, <1>5, RevenueTakenBack
<1> QED
  BY <1>4, <1>5, <1>6

LEMMA LedgerStep ==
    ASSUME OnlyRevenueByHand, LedgerInv, ShopInv, ShopInv', TradeStep
    PROVE  LedgerInv'
<1>1. /\ invoices \in Seq(Invoice) /\ Len(invoices) <= MaxInvoices
      /\ Told(journals, orders, lines, invoices)
  BY DEF LedgerInv
<1>2. ASSUME invoices' = invoices, Told(journals', orders', lines', invoices) PROVE LedgerInv'
  BY <1>1, <1>2 DEF LedgerInv
<1>3. CASE OrdersKept /\ BooksKept
  BY <1>1, <1>2, <1>3 DEF OrdersKept, BooksKept
<1>4. ASSUME NEW o \in OrderIds, Opens(o) \/ Drafts(o) \/ Pays(o) PROVE LedgerInv'
  <2>1. invoices' = invoices /\ journals' = journals
    BY <1>4 DEF Opens, Drafts, Pays, BooksKept
  <2>2. Told(journals, orders', lines', invoices)
    BY <1>4, TurnTold
  <2> QED
    BY <1>2, <2>1, <2>2
<1>5. ASSUME NEW o \in OrderIds, Confirms(o) PROVE LedgerInv'
  BY <1>2, <1>5, ConfirmTold DEF Confirms
<1>6. ASSUME NEW o \in OrderIds, Cancels(o) PROVE LedgerInv'
  BY <1>2, <1>6, CancelTold DEF Cancels
<1>7. ASSUME NEW order \in OrderIds \cup {NoOrder}, NEW ls \in Lines, Bills(order, ls)
      PROVE  LedgerInv'
  <2>1. orders' = orders /\ lines' = lines
    BY <1>7 DEF Bills, OrdersKept
  <2> QED
    BY <1>7, <2>1, IssueTold DEF LedgerInv
<1>8. CASE Settles
  <2>1. orders' = orders /\ lines' = lines
    BY <1>8 DEF Settles, OrdersKept
  <2> QED
    BY <1>8, <2>1, SettleTold DEF LedgerInv
<1>9. CASE Seeds
  BY <1>1, <1>2, <1>9 DEF Seeds, OrdersKept
<1>10. CASE Reverses
  <2>1. orders' = orders /\ lines' = lines /\ invoices' = invoices
    BY <1>10 DEF Reverses, OrdersKept
  <2>2. Told(journals', orders, lines, invoices)
    BY <1>10, ReverseTold
  <2> QED
    BY <1>2, <2>1, <2>2
<1> QED
  BY <1>3, <1>4, <1>5, <1>6, <1>7, <1>8, <1>9, <1>10 DEF TradeStep

LEMMA LedgerHolds ==
    ASSUME SoleConnection, OnlyRevenueByHand
    PROVE  Spec => []LedgerInv
<1>1. Init => LedgerInv
  BY LedgerStarts
<1>2. LedgerInv /\ ShopInv /\ ShopInv' /\ [Next]_vars => LedgerInv'
  BY StepsTrade, LedgerStep
<1> QED
  BY <1>1, <1>2, ShopHolds, PTL DEF Spec

\* What is live of one leg moves the amount of the leg, and of nothing moves nothing.
LEMMA NetOfLive ==
    ASSUME LedgerInv, NEW source \in Sources, NEW a, NEW amount \in Int,
           \A k \in DOMAIN journals : journals[k].source = source =>
               Move(journals[k].lines, a, "ZAR") = amount
    PROVE  NetOfSource(source, a) = IF LiveOf(source) = {} THEN 0 ELSE amount
<1>1. Shape(journals) /\ journals \in Seq(Row)
  BY DEF LedgerInv, Told, Books, Shape
<1>2. LiveOf(source) = LiveIn(journals, source)
  BY LiveOfIs
<1> DEFINE L == LiveOf(source)
           f == [k \in L |-> NetOf(journals, {k}, a, "ZAR")]
<1>3. NetOfSource(source, a) = Total(f) /\ DOMAIN f = L
  BY DEF NetOfSource
<1>4. CASE L = {}
  <2> HIDE DEF f
  <2>1. Total(f) = 0
    BY <1>3, <1>4, TotalEmpty
  <2> QED
    BY <1>3, <1>4, <2>1
<1>5. ASSUME NEW k \in DOMAIN journals, L = {k}, journals[k].source = source
      PROVE  NetOfSource(source, a) = amount
  <2>1. journals[k].lines \in Seq(Line)
    BY <1>1, RowsHoldLines
  <2>2. f[k] = amount
    BY <1>5, <2>1, NetOfOne
  <2> HIDE DEF f
  <2>3. Total(f) = amount
    BY <1>3, <1>5, <2>2, TotalOne
  <2> QED
    BY <1>3, <2>3
<1> QED
  BY <1>1, <1>2, <1>4, <1>5, LiveInOne

LEMMA LegsAgree ==
    ASSUME ShopInv, LedgerInv
    PROVE  LedgerFollowsOrders
<1>1. /\ lines \in [OrderIds -> Lines] /\ invoices \in Seq(Invoice)
      /\ Books(journals, orders, lines, invoices) /\ Undone(journals, orders)
      /\ Tells(journals, orders, lines, invoices)
  BY DEF ShopInv, OrdersTyped, LedgerInv, Told, Books
<1> SUFFICES ASSUME NEW o \in OrderIds
             PROVE  /\ NetOfSource(Cogs(o), "inventory")
                           = IF Sold(o) /\ Posted(Cogs(o)) THEN -CostOf(lines[o]) ELSE 0
                    /\ NetOfSource(Revenue(o), "receivable")
                           \in {0, IF Sold(o) THEN GrossOf(lines[o]) ELSE 0}
  BY DEF LedgerFollowsOrders
<1>3. /\ GrossOf(lines[o]) \in Nat /\ CostOf(lines[o]) \in Nat
      /\ Cogs(o) \in Sources /\ Revenue(o) \in Sources
  BY <1>1, UnitsTyped, BillSource
<1>4. \A k \in DOMAIN journals : TellsSale(journals[k], orders, lines)
  BY <1>1 DEF Tells
<1>5. /\ LiveOf(Cogs(o)) = LiveIn(journals, Cogs(o))
      /\ LiveOf(Revenue(o)) = LiveIn(journals, Revenue(o))
  BY LiveOfIs
<1>6. NetOfSource(Cogs(o), "inventory")
          = IF Sold(o) /\ Posted(Cogs(o)) THEN -CostOf(lines[o]) ELSE 0
  <2>1. \A k \in DOMAIN journals : journals[k].source = Cogs(o) =>
            Move(journals[k].lines, "inventory", "ZAR") = -CostOf(lines[o])
    BY <1>1, LegsMoved
  <2>2. NetOfSource(Cogs(o), "inventory")
            = IF LiveOf(Cogs(o)) = {} THEN 0 ELSE -CostOf(lines[o])
    <3>0. PICK a : a = "inventory"
      OBVIOUS
    <3>1. PICK s \in Sources, x \in Int : s = Cogs(o) /\ x = -CostOf(lines[o])
      BY <1>3
    <3>2. \A k \in DOMAIN journals : journals[k].source = s =>
              Move(journals[k].lines, a, "ZAR") = x
      BY <2>1, <3>0, <3>1
    <3>3. NetOfSource(s, a) = IF LiveOf(s) = {} THEN 0 ELSE x
      BY <3>2, NetOfLive
    <3> QED
      BY <3>0, <3>1, <3>3
  <2>3. LiveOf(Cogs(o)) # {} <=> Sold(o) /\ Posted(Cogs(o))
    <3>1. ASSUME NEW k \in LiveOf(Cogs(o)) PROVE Sold(o) /\ Posted(Cogs(o))
      <4>1. k \in DOMAIN journals /\ journals[k].source = Cogs(o) /\ ~IsReversed(journals, k)
        BY <1>5, <3>1 DEF LiveIn
      <4>2. orders[o].status \in {"confirmed", "paid", "cancelled"}
        BY <1>4, <4>1 DEF TellsSale
      <4>3. orders[o].status # "cancelled"
        BY <1>1, <4>1 DEF Undone
      <4> QED
        BY <4>1, <4>2, <4>3 DEF Sold, Posted
    <3>2. ASSUME Sold(o), Posted(Cogs(o)) PROVE LiveOf(Cogs(o)) # {}
      <4>1. PICK k \in DOMAIN journals : journals[k].source = Cogs(o)
        BY <3>2 DEF Posted
      <4>2. ~IsReversed(journals, k)
        BY <1>1, <3>2, <4>1 DEF Undone, Sold
      <4> QED
        BY <1>5, <4>1, <4>2 DEF LiveIn
    <3> QED
      BY <3>1, <3>2
  <2> QED
    BY <2>2, <2>3
<1>7. NetOfSource(Revenue(o), "receivable") \in {0, IF Sold(o) THEN GrossOf(lines[o]) ELSE 0}
  <2>1. \A k \in DOMAIN journals : journals[k].source = Revenue(o) =>
            Move(journals[k].lines, "receivable", "ZAR") = GrossOf(lines[o])
    BY <1>1, LegsMoved
  <2>2. NetOfSource(Revenue(o), "receivable")
            = IF LiveOf(Revenue(o)) = {} THEN 0 ELSE GrossOf(lines[o])
    <3>0. PICK a : a = "receivable"
      OBVIOUS
    <3>1. PICK s \in Sources, x \in Int : s = Revenue(o) /\ x = GrossOf(lines[o])
      BY <1>3
    <3>2. \A k \in DOMAIN journals : journals[k].source = s =>
              Move(journals[k].lines, a, "ZAR") = x
      BY <2>1, <3>0, <3>1
    <3>3. NetOfSource(s, a) = IF LiveOf(s) = {} THEN 0 ELSE x
      BY <3>2, NetOfLive
    <3> QED
      BY <3>0, <3>1, <3>3
  <2>3. ASSUME NEW k \in LiveOf(Revenue(o)) PROVE Sold(o)
    <3>1. k \in DOMAIN journals /\ journals[k].source = Revenue(o) /\ ~IsReversed(journals, k)
      BY <1>5, <2>3 DEF LiveIn
    <3>2. orders[o].status \in {"confirmed", "paid", "cancelled"}
      BY <1>4, <3>1 DEF TellsSale
    <3>3. orders[o].status # "cancelled"
      BY <1>1, <3>1 DEF Undone
    <3> QED
      BY <3>2, <3>3 DEF Sold
  <2> QED
    BY <2>2, <2>3
<1> QED
  BY <1>6, <1>7

LEMMA RevenueBounded ==
    ASSUME ShopInv, LedgerInv
    PROVE  RevenueOncePerSale
<1> DEFINE f == Earning(journals, lines)
           g == Billing(journals, invoices)
           F == [o \in OrderIds |-> IF Sold(o) THEN GrossOf(lines[o]) ELSE 0]
           G == [i \in DOMAIN invoices |->
                    IF invoices[i].order = NoOrder THEN GrossOf(invoices[i].lines) ELSE 0]
           D == DOMAIN invoices
<1>1. /\ lines \in [OrderIds -> Lines] /\ invoices \in Seq(Invoice)
      /\ Len(invoices) <= MaxInvoices
      /\ Undone(journals, orders) /\ Tells(journals, orders, lines, invoices)
      /\ Earned(journals, lines, invoices)
  BY DEF ShopInv, OrdersTyped, LedgerInv, Told, Books
<1>2. /\ IsFiniteSet(OrderIds) /\ IsFiniteSet(D) /\ DOMAIN f = OrderIds /\ DOMAIN g = D
      /\ DOMAIN F = OrderIds /\ DOMAIN G = D /\ Total(f) \in Int /\ Total(g) \in Int
  BY <1>1, AmountsTyped
<1>3. ASSUME NEW o \in OrderIds PROVE f[o] \in Int /\ F[o] \in Int /\ f[o] <= F[o]
  <2>1. GrossOf(lines[o]) \in Nat /\ f[o] = IF Live(journals, Revenue(o)) THEN GrossOf(lines[o]) ELSE 0
    BY <1>1, AmountsTyped
  <2>2. ASSUME Live(journals, Revenue(o)) PROVE Sold(o)
    <3>1. PICK k \in DOMAIN journals : journals[k].source = Revenue(o) /\ ~IsReversed(journals, k)
      BY <2>2 DEF Live
    <3>2. orders[o].status \in {"confirmed", "paid", "cancelled"}
      BY <1>1, <3>1 DEF Tells, TellsSale
    <3>3. orders[o].status # "cancelled"
      BY <1>1, <3>1 DEF Undone
    <3> QED
      BY <3>2, <3>3 DEF Sold
  <2>3. F[o] = IF Sold(o) THEN GrossOf(lines[o]) ELSE 0
    OBVIOUS
  <2> HIDE DEF f, F
  <2> QED
    BY <2>1, <2>2, <2>3
<1>4. ASSUME NEW i \in D PROVE g[i] \in Int /\ G[i] \in Int /\ g[i] <= G[i]
  <2>1. /\ GrossOf(invoices[i].lines) \in Nat
        /\ g[i] = IF Live(journals, Bill(i)) THEN GrossOf(invoices[i].lines) ELSE 0
    BY <1>1, AmountsTyped
  <2>2. ASSUME Live(journals, Bill(i)) PROVE invoices[i].order = NoOrder
    <3>1. PICK k \in DOMAIN journals : journals[k].source = Bill(i)
      BY <2>2 DEF Live
    <3>2. i \in 1..MaxInvoices
      <4>1. i \in 1..Len(invoices) /\ Len(invoices) \in Nat
        BY <1>1
      <4> QED
        BY <1>1, <4>1, BoundsAssumption
    <3> QED
      BY <1>1, <3>1, <3>2 DEF Tells, TellsBill
  <2>3. G[i] = IF invoices[i].order = NoOrder THEN GrossOf(invoices[i].lines) ELSE 0
    OBVIOUS
  <2> HIDE DEF g, G
  <2> QED
    BY <2>1, <2>2, <2>3
<1>5. -NetOf(journals, DOMAIN journals, "revenue", "ZAR") = Total(f) + Total(g)
  BY <1>1, <1>2 DEF Earned, Revenued
<1>6. RevenueOncePerSale <=>
          -NetOf(journals, DOMAIN journals, "revenue", "ZAR") <= Total(F) + Total(G)
  BY DEF RevenueOncePerSale
<1> HIDE DEF f, g, F, G, D
<1>7. Total(f) <= Total(F) /\ Total(F) \in Int
  BY <1>2, <1>3, TotalMono, TotalInt
<1>8. Total(g) <= Total(G) /\ Total(G) \in Int
  BY <1>2, <1>4, TotalMono, TotalInt
<1> QED
  BY <1>2, <1>5, <1>6, <1>7, <1>8

\* With one connection, and people reversing revenue by hand at most, the ledger says
\* what the orders say, whatever accounts the book had when an order was confirmed and
\* has now: a cost that posted is out of the inventory account in full exactly while
\* the order is sold, revenue is recognised in full or not at all, and none of it for
\* an order that is not sold.
THEOREM LedgerAgreesWithOrders ==
    ASSUME SoleConnection, OnlyRevenueByHand
    PROVE  Spec => []LedgerFollowsOrders
<1>1. ShopInv /\ LedgerInv => LedgerFollowsOrders
  BY LegsAgree
<1> QED
  BY <1>1, ShopHolds, LedgerHolds, PTL

\* With one connection, and people reversing revenue by hand at most, the revenue
\* account never holds more than the orders that are sold and the invoices with no
\* order: an invoice from an order recognises nothing again.
THEOREM RevenueIsOncePerSale ==
    ASSUME SoleConnection, OnlyRevenueByHand
    PROVE  Spec => []RevenueOncePerSale
<1>1. ShopInv /\ LedgerInv => RevenueOncePerSale
  BY RevenueBounded
<1> QED
  BY <1>1, ShopHolds, LedgerHolds, PTL
=============================================================================
