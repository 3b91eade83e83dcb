-------------------------------- MODULE Papers --------------------------------
(***************************************************************************)
(* Documents and what the books make of them: importing a file once, the   *)
(* extraction run that reads it through a provider, the status machine,    *)
(* and the journals generated from an extraction or from a bank            *)
(* transaction, with their VAT.                                            *)
(*                                                                         *)
(* A document is its content: the unique index on the hash makes two       *)
(* imports of one content one row.  A slip keeps its money fields.  Rates  *)
(* are basis points.  Dates, currencies, accounts by book and locked       *)
(* periods are Ledger's; tags that link a line to a rate row are left out. *)
(***************************************************************************)
EXTENDS Connections, Sums, Sequences

CONSTANTS Papers,       \* documents, by content
          Readable,     \* those of a type a provider understands
          Slips,        \* what a provider may read from one
          BankLines,    \* transactions
          AmountOnBank, \* [BankLines -> Int]
          Counters,     \* the category's kind and the kind of account it is mapped to
          VatRates      \* rates a transaction may be split at

Statuses == {"pending", "processing", "extracted", "reviewed", "failed"}
Roles == {"input_base", "input_vat", "output_base", "output_vat"}

\* Money and rates are i64; a book's own accounts are told apart by what they are to it, the
\* one opposite the bank is neither the bank nor a VAT control account.
ASSUME PapersAssumption ==
    /\ None \notin Statuses \cup Roles \cup Int
    /\ Papers \cap BankLines = {}
    /\ Slips \subseteq [total : Int, vat : Int \cup {None},
                       breakdown : Seq([base : Int, vat : Int]),
                       items : Seq([total : Int, rate : Int \cup {None}])]
    /\ AmountOnBank \in [BankLines -> Int]
    /\ Counters \subseteq [category : {None, "income", "expense", "transfer"},
                          mapped : {None, "income", "expense", "other"}]
    /\ VatRates \subseteq Int

VARIABLES business,  \* the book's kind: a business has a VAT input control account
          status,    \* [Papers -> None or the document's status]
          current,   \* [Papers -> None or the current extraction's slip]
          vouchers   \* [Papers \cup BankLines -> None or the net-live generated journal]

paperVars == <<business, status, current, vouchers>>

Sources == Papers \cup BankLines

PapersTypeOK ==
    /\ business \in BOOLEAN
    /\ \A d \in Papers : /\ status[d] \in Statuses \cup {None}
                         /\ current[d] \in Slips \cup {None}
    /\ \A s \in Sources : vouchers[s] # None =>
           \E k, l \in DOMAIN vouchers[s].lines : k # l

PapersInit ==
    /\ business \in BOOLEAN
    /\ status = [d \in Papers |-> None]
    /\ current = [d \in Papers |-> None]
    /\ vouchers = [s \in Sources |-> None]

-----------------------------------------------------------------------------
(* The arithmetic: VAT within an inclusive amount, half away from zero.    *)

Whole == 10000  \* a rate is in basis points

RoundHalfAway(n, d) == IF n >= 0 THEN (n + (d \div 2)) \div d
                                 ELSE -(((d \div 2) - n) \div d)

VatWithin(gross, rate) ==
    IF rate <= 0 THEN 0 ELSE RoundHalfAway(gross * rate, Whole + rate)

Tagged(slip) == slip.items # <<>> /\ \A i \in DOMAIN slip.items : slip.items[i].rate # None

Rates(slip) == {slip.items[i].rate : i \in DOMAIN slip.items}
AtRate(slip, rate) == {i \in DOMAIN slip.items : slip.items[i].rate = rate}
VatOf(item) == VatWithin(item.total, item.rate)
GrossAt(slip, rate) == Total([i \in AtRate(slip, rate) |-> slip.items[i].total])
VatAt(slip, rate) == Total([i \in AtRate(slip, rate) |-> VatOf(slip.items[i])])

\* As if the VAT a slip states were not reconciled with its items.
GroupsAsDerived(slip) ==
    [r \in Rates(slip) |-> [base |-> GrossAt(slip, r) - VatAt(slip, r), vat |-> VatAt(slip, r)]]

\* The VAT a slip states, beyond what its items contain.
Drift(slip) ==
    IF slip.vat = None THEN 0 ELSE slip.vat - Total([r \in Rates(slip) |-> VatAt(slip, r)])

\* Of the rates above nothing the one that carries the most, of equals the highest.
Dominant(slip, r) ==
    /\ r > 0
    /\ \A q \in Rates(slip) :
          q > 0 => \/ VatAt(slip, q) < VatAt(slip, r)
                   \/ VatAt(slip, q) = VatAt(slip, r) /\ q <= r

ClaimedAt(slip, r) == VatAt(slip, r) + IF Dominant(slip, r) THEN Drift(slip) ELSE 0

\* The groups of tagged items, by rate; the stated VAT is given to the rate that carries
\* the most, and its base gives way.
GroupsOfItems(slip) ==
    [r \in Rates(slip) |-> [base |-> GrossAt(slip, r) - ClaimedAt(slip, r),
                            vat |-> ClaimedAt(slip, r)]]

StatedVat(slip) == IF slip.vat = None THEN 0 ELSE slip.vat

VatGroups(slip) ==
    IF slip.breakdown # <<>> THEN slip.breakdown
    ELSE IF Tagged(slip) THEN GroupsOfItems(slip)
    ELSE <<[base |-> slip.total - StatedVat(slip), vat |-> StatedVat(slip)]>>

(* A journal's lines, by what each is for. *)
Line(account, amount, role) == [account |-> account, amount |-> amount, role |-> role]
NonZero(lines) == Restrict(lines, {k \in DOMAIN lines : lines[k].amount # 0})

\* What the groups leave of the total - a tip, rounding - is expense without VAT.
DocumentLines(slip) ==
    LET groups == IF business THEN VatGroups(slip) ELSE <<>>
        rest == slip.total - Total([g \in DOMAIN groups |-> groups[g].base + groups[g].vat])
    IN  NonZero([k \in ({"base", "vat"} \X DOMAIN groups) \cup {<<"rest", 0>>, <<"bank", 0>>} |->
            IF k[1] = "base" THEN Line("expense", groups[k[2]].base, "input_base")
            ELSE IF k[1] = "vat" THEN Line("vat_input", groups[k[2]].vat, "input_vat")
            ELSE IF k[1] = "rest" THEN Line("expense", rest, None)
            ELSE Line("bank", -slip.total, None)])

\* The account opposite the bank: mapped, else by the category, else by direction.
CounterKind(amount, counter) ==
    IF counter.mapped # None THEN counter.mapped
    ELSE IF counter.category \in {"income", "expense"} THEN counter.category
    ELSE IF amount < 0 THEN "expense" ELSE "income"

\* The side of the VAT follows the counter account, not the direction of the cash.
Side(kind) ==
    IF kind = "expense" THEN [base |-> "input_base", account |-> "vat_input", vat |-> "input_vat"]
    ELSE [base |-> "output_base", account |-> "vat_output", vat |-> "output_vat"]

TransactionLines(amount, kind, rate) ==
    LET vat == IF rate = None THEN 0
               ELSE IF amount < 0 THEN VatWithin(-amount, rate) ELSE -VatWithin(amount, rate)
        lines == [counter |-> Line(kind, -amount - vat, IF rate = None THEN None ELSE Side(kind).base),
                  vat |-> Line(Side(kind).account, vat, Side(kind).vat),
                  bank |-> Line("bank", amount, None)]
    IN  Restrict(lines, {k \in DOMAIN lines : k = "vat" => vat # 0})

-----------------------------------------------------------------------------
(* Importing, and the status machine.                                      *)

Moves == {<<"pending", "processing">>, <<"pending", "failed">>,
          <<"processing", "extracted">>, <<"processing", "failed">>,
          <<"extracted", "reviewed">>, <<"failed", "pending">>}

ImportRead(c, d) ==
    /\ status[d] = None
    /\ Read(c, [job |-> "import", doc |-> d])
    /\ UNCHANGED paperVars

\* The loser of two imports hits the unique index.
Import(c) ==
    /\ Doing(c, "import")
    /\ status[seen[c].doc] = None
    /\ status' = [status EXCEPT ![seen[c].doc] = "pending"]
    /\ Done(c)
    /\ UNCHANGED <<business, current, vouchers>>

\* A call on its own, or one of the run whose other documents are `todo`.
GoOnWith(c, todo) == IF todo = None THEN Done(c) ELSE Keep(c, [job |-> "extract", todo |-> todo])

TransitionRead(c, d, to) ==
    /\ <<status[d], to>> \in Moves
    /\ Read(c, [job |-> "transition", doc |-> d, to |-> to, todo |-> None])
    /\ UNCHANGED paperVars

Transition(c) ==
    LET s == seen[c]
    IN  /\ Doing(c, "transition")
        /\ status' = [status EXCEPT ![s.doc] = s.to]
        /\ IF s.to = "processing" /\ s.todo # None
           THEN Keep(c, [s EXCEPT !.job = "provider"])
           ELSE GoOnWith(c, s.todo)
        /\ UNCHANGED <<business, current, vouchers>>

\* As if a reviewed document could be recorded again.
RecordAnyRead(c, d, slip) ==
    /\ status[d] # None
    /\ Read(c, [job |-> "extraction", doc |-> d, slip |-> slip, todo |-> None])
    /\ UNCHANGED paperVars

RecordRead(c, d, slip) ==
    /\ status[d] \notin {None, "reviewed"}
    /\ Read(c, [job |-> "extraction", doc |-> d, slip |-> slip, todo |-> None])
    /\ UNCHANGED paperVars

Record(c) ==
    LET s == seen[c]
    IN  /\ Doing(c, "extraction")
        /\ current' = [current EXCEPT ![s.doc] = s.slip]
        /\ status' = [status EXCEPT ![s.doc] = "extracted"]
        /\ GoOnWith(c, s.todo)
        /\ UNCHANGED <<business, vouchers>>

-----------------------------------------------------------------------------
(* The extraction run: the documents listed as pending, one by one.        *)

BeginRun(c) ==
    /\ Read(c, [job |-> "extract", todo |-> {d \in Readable : status[d] = "pending"}])
    /\ UNCHANGED paperVars

\* A transition refused ends the whole run: it is Abandon.
RunTakes(c, d) ==
    /\ Doing(c, "extract") /\ d \in seen[c].todo
    /\ \E to \in {"processing", "failed"} :   \* the file can be read, or cannot
           /\ <<status[d], to>> \in Moves
           /\ Keep(c, [job |-> "transition", doc |-> d, to |-> to,
                       todo |-> seen[c].todo \ {d}])
    /\ UNCHANGED paperVars

ProviderAnswers(c, slip) ==
    /\ Doing(c, "provider")
    /\ status[seen[c].doc] # "reviewed"
    /\ Keep(c, [job |-> "extraction", doc |-> seen[c].doc, slip |-> slip, todo |-> seen[c].todo])
    /\ UNCHANGED paperVars

ProviderFails(c) ==
    /\ Doing(c, "provider")
    /\ <<status[seen[c].doc], "failed">> \in Moves
    /\ Keep(c, [job |-> "transition", doc |-> seen[c].doc, to |-> "failed",
                todo |-> seen[c].todo])
    /\ UNCHANGED paperVars

EndRun(c) == Doing(c, "extract") /\ seen[c].todo = {} /\ Done(c) /\ UNCHANGED paperVars

-----------------------------------------------------------------------------
(* Generating journals.                                                    *)

GenerateForDocument(c, d) ==
    /\ current[d] # None /\ current[d].total > 0
    /\ Read(c, [job |-> "voucher", source |-> d,
                journal |-> [of |-> current[d], lines |-> DocumentLines(current[d])]])
    /\ UNCHANGED paperVars

\* A VAT rate needs an income or expense account on the other side.
GenerateForTransaction(c, t, counter, rate) ==
    LET kind == CounterKind(AmountOnBank[t], counter)
    IN  /\ AmountOnBank[t] # 0
        /\ rate # None => kind \in {"income", "expense"}
        /\ Read(c, [job |-> "voucher", source |-> t,
                    journal |-> [of |-> [kind |-> kind, rate |-> rate],
                                 lines |-> TransactionLines(AmountOnBank[t], kind, rate)]])
        /\ UNCHANGED paperVars

\* One net-live journal per source, and every line with one positive side.
Post(c) ==
    LET s == seen[c]
    IN  /\ Doing(c, "voucher")
        /\ vouchers[s.source] = None
        /\ s.journal.lines = NonZero(s.journal.lines)
        /\ Total([k \in DOMAIN s.journal.lines |-> s.journal.lines[k].amount]) = 0
        /\ vouchers' = [vouchers EXCEPT ![s.source] = s.journal]
        /\ Done(c)
        /\ UNCHANGED <<business, status, current>>

UndoVoucher(c, s) ==
    /\ c \in team /\ Idle(c)
    /\ vouchers[s] # None
    /\ vouchers' = [vouchers EXCEPT ![s] = None]
    /\ UNCHANGED <<connVars, business, status, current>>

-----------------------------------------------------------------------------
PaperCalls(c) ==
    /\ Free
    /\ \/ BeginRun(c)
       \/ \E d \in Papers :
              \/ ImportRead(c, d) \/ GenerateForDocument(c, d)
              \/ \E to \in Statuses : TransitionRead(c, d, to)
              \/ \E slip \in Slips : RecordRead(c, d, slip)
       \/ \E t \in BankLines, counter \in Counters, rate \in VatRates \cup {None} :
              GenerateForTransaction(c, t, counter, rate)
       \/ \E s \in Sources : UndoVoucher(c, s)

PapersNext ==
    \E c \in team :
        \/ PaperCalls(c)
        \/ Import(c) \/ Transition(c) \/ Record(c) \/ Post(c)
        \/ \E d \in Papers : RunTakes(c, d)
        \/ \E slip \in Slips : ProviderAnswers(c, slip)
        \/ ProviderFails(c) \/ EndRun(c)
        \/ Abandon(c) /\ UNCHANGED paperVars

PapersSpec == ConnInit /\ PapersInit /\ [][PapersNext]_<<connVars, paperVars>>

-----------------------------------------------------------------------------
Booked(lines, keys) == Total([k \in keys |-> lines[k].amount])
OnAccount(lines, account) == Booked(lines, {k \in DOMAIN lines : lines[k].account = account})
InRoles(lines, roles) == Booked(lines, {k \in DOMAIN lines : lines[k].role \in roles})

\* What a document lets the business claim: its breakdown, or the VAT it states, or what
\* its tagged items contain.
Claimable(slip) ==
    IF slip.breakdown # <<>>
    THEN Total([i \in DOMAIN slip.breakdown |-> slip.breakdown[i].vat])
    ELSE IF /\ Tagged(slip)
            /\ slip.vat = None \/ \A i \in DOMAIN slip.items : slip.items[i].rate <= 0
    THEN Total([i \in DOMAIN slip.items |-> VatOf(slip.items[i])])
    ELSE StatedVat(slip)

DocumentSays(claims, slip, lines) ==
    LET claimed == IF claims THEN Claimable(slip) ELSE 0
    IN  /\ OnAccount(lines, "bank") = -slip.total
        /\ InRoles(lines, {"input_vat"}) = claimed
        /\ OnAccount(lines, "expense") = slip.total - claimed

TransactionSays(amount, of, lines) ==
    LET vat == InRoles(lines, {"input_vat", "output_vat"})
    IN  /\ OnAccount(lines, "bank") = amount
        /\ OnAccount(lines, of.kind) + vat = -amount
        /\ \A k \in DOMAIN lines :
              lines[k].role # None =>
                  lines[k].role \in IF of.kind = "expense" THEN {"input_base", "input_vat"}
                                                           ELSE {"output_base", "output_vat"}
        /\ of.rate # None => vat = VatWithin(-amount, of.rate)

\* A generated journal says what its paper says: the bank pays exactly the total, the
\* input VAT is what the document lets a business claim whatever rounding, discounts and
\* tips do to its groups, and the rest is expense.  A bank transaction moves the bank by
\* its amount, and its VAT is on the side of the account it is booked against, so that a
\* refund never turns into turnover.
VouchersSayWhatPapersSay ==
    /\ \A d \in Papers : vouchers[d] # None =>
           DocumentSays(business, vouchers[d].of, vouchers[d].lines)
    /\ \A t \in BankLines : vouchers[t] # None =>
           TransactionSays(AmountOnBank[t], vouchers[t].of, vouchers[t].lines)

\* What a person reviewed stays as they saw it: with one process, a reviewed document
\* keeps its status and its extraction, whatever run or call comes after.
ReviewStands ==
    [][Alone => \A d \in Papers : status[d] = "reviewed" =>
           status'[d] = "reviewed" /\ current'[d] = current[d]]_<<connVars, paperVars>>
=============================================================================
