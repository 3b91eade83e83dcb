------------------------------- MODULE Ledger --------------------------------
(***************************************************************************)
(* The double-entry ledger of one book: posting, reversing, the chart of   *)
(* accounts and the financial lock date.                                   *)
(*                                                                         *)
(* Several processes may hold the same database open (the desktop app, the *)
(* server, the CLI); each is a connection.  An operation reads the book    *)
(* BEFORE it opens its SQLite transaction, and the transaction itself is   *)
(* one atomic step, so an operation is two steps here: GetBook takes the   *)
(* reads, and the operation's own action is the transaction, which uses    *)
(* them.  Anything may be committed by another connection in between.      *)
(* A refusal, SQLITE_BUSY or a crash rolls everything back (Abandon).      *)
(***************************************************************************)
EXTENDS Journal

CONSTANTS Conns,          \* connections to the database
          MaxDate,        \* dates are 1..MaxDate
          Drafts,         \* the line lists callers submit
          SeededAccounts, \* accounts coa_seed created
          MaxJournals,    \* bound: journals in the ledger
          MaxAudit,       \* bound: audit entries, so operations that changed something
          None            \* a connection between operations

ASSUME DraftsAssumption == Drafts \subseteq Seq(Line)
ASSUME MaxDateAssumption == MaxDate \in Nat \ {0}
ASSUME SeededAssumption == SeededAccounts \subseteq Accounts
ASSUME BoundsAssumption == MaxJournals \in Nat /\ MaxAudit \in Nat

VARIABLES journals, \* the posted journals, oldest first
          coa,      \* the state of each account: absent, open or archived
          lock,     \* books.financial_lock_date; 0 when the book was never closed
          audit,    \* the audit log since the chart was seeded
          seen      \* what each connection read before its transaction

vars == <<journals, coa, lock, audit, seen>>

Dates == 1..MaxDate
NoLock == 0
LockDates == Dates \cup {NoLock}

JournalRow ==
    [date : Dates, source : Sources \cup {Manual}, reversal_of : Nat, lines : Seq(Line)]

AuditRow ==
         [action : {"post", "reverse"}, journal : Nat]
    \cup [action : {"create", "archive"}, account : Accounts]
    \cup [action : {"close", "reopen", "lock_date"}, lock : LockDates]

\* balance_as_of: debits and credits dated on or before d, per currency.
BalancedAsOf(d) ==
    LET upTo == {k \in DOMAIN journals : journals[k].date <= d}
    IN  \A c \in Currencies :
            Total([k \in upTo |-> DebitTotal(journals[k].lines, c)])
          = Total([k \in upTo |-> CreditTotal(journals[k].lines, c)])

Read ==
    [lock     |-> lock,
     balanced |-> {d \in Dates : BalancedAsOf(d)},
     known    |-> Len(journals)]

Reads == [lock : LockDates, balanced : SUBSET Dates, known : Nat]

Init ==
    /\ journals = <<>>
    /\ coa = [a \in Accounts |-> IF a \in SeededAccounts THEN "open" ELSE "absent"]
    /\ lock = NoLock
    /\ audit = <<>>
    /\ seen = [c \in Conns |-> None]

-----------------------------------------------------------------------------
\* The reads an operation makes before its transaction: book_get, the close
\* report's trial balance, the journal about to be reversed.
GetBook(c) ==
    /\ seen[c] = None
    /\ seen' = [seen EXCEPT ![c] = Read]
    /\ UNCHANGED <<journals, coa, lock, audit>>

\* The operation was refused, hit SQLITE_BUSY, or its process died.
Abandon(c) ==
    /\ seen[c] # None
    /\ seen' = [seen EXCEPT ![c] = None]
    /\ UNCHANGED <<journals, coa, lock, audit>>

\* The transaction of an operation of connection c commits, with one audit row.
Commit(c, entry) ==
    /\ seen[c] # None
    /\ Len(audit) < MaxAudit
    /\ audit' = Append(audit, entry)
    /\ seen' = [seen EXCEPT ![c] = None]

\* Mutation of SourceFree: only the oldest journal of the source is looked at.
FirstSourceFree(source) ==
    LET K == {k \in DOMAIN journals : journals[k].source = source}
    IN  source # Manual =>
            \A k \in K : (\A l \in K : k <= l) => IsNetReversed(journals, k)

\* A generated journal needs every earlier journal of its source cancelled.
SourceFree(source) ==
    \/ source = Manual
    \/ \A k \in DOMAIN journals :
           journals[k].source = source => IsNetReversed(journals, k)

\* Mutation of Unlocked: the lock date itself is still open.
UnlockedOnTheDay(c, date) == date >= seen[c].lock

\* A date the lock read before the transaction does not cover.
Unlocked(c, date) == date > seen[c].lock

\* post_journal_in_tx: everything but the lock is read inside the transaction.
PostJournal(c, new) ==
    /\ Unlocked(c, new.date)
    /\ WellFormed(new.lines)
    /\ SourceFree(new.source)
    /\ Postable(new.lines, coa)
    /\ Len(journals) < MaxJournals
    /\ journals' = Append(journals, new)
    /\ Commit(c, [action  |-> IF new.reversal_of = 0 THEN "post" ELSE "reverse",
                  journal |-> Len(journals) + 1])
    /\ UNCHANGED <<coa, lock>>

\* journal_post, and the generators that build the lines themselves.
JournalPost(c, lines, date, source) ==
    /\ seen[c] # None
    /\ PostJournal(c, [date |-> date, source |-> source, reversal_of |-> 0, lines |-> lines])

\* Mutation of NotReversedYet: the lookup is skipped.
ReversedOrNot(k) == k \in DOMAIN journals

\* The refusal of a second reversal: find_reversal, read inside the transaction.
NotReversedYet(k) == ~IsReversed(journals, k)

\* journal_reverse: the date defaults to the original's; the reversal is Manual.
JournalReverse(c, k, date) ==
    /\ seen[c] # None
    /\ k <= seen[c].known
    /\ NotReversedYet(k)
    /\ PostJournal(c, [date |-> date, source |-> Manual, reversal_of |-> k,
                       lines |-> Flip(journals[k].lines)])

CoaCreate(c, a) ==
    /\ coa[a] = "absent"
    /\ coa' = [coa EXCEPT ![a] = "open"]
    /\ Commit(c, [action |-> "create", account |-> a])
    /\ UNCHANGED <<journals, lock>>

CoaArchive(c, a) ==
    /\ coa[a] # "absent"
    /\ coa' = [coa EXCEPT ![a] = "archived"]
    /\ Commit(c, [action |-> "archive", account |-> a])
    /\ UNCHANGED <<journals, lock>>

\* Mutation of SetLock: clearing the date leaves the column as it was.
SetLockUnlessNone(c, action, date) ==
    /\ lock' = IF date = NoLock THEN lock ELSE date
    /\ Commit(c, [action |-> action, lock |-> date])
    /\ UNCHANGED <<journals, coa>>

SetLock(c, action, date) ==
    /\ lock' = date
    /\ Commit(c, [action |-> action, lock |-> date])
    /\ UNCHANGED <<journals, coa>>

\* The blocking checks of build_close_report, all made before the transaction.
Closeable(c, to) == to > seen[c].lock /\ to \in seen[c].balanced

ClosePeriod(c, to) ==
    /\ seen[c] # None
    /\ Closeable(c, to)
    /\ SetLock(c, "close", to)

\* A reopening moves the lock strictly back, or clears it (to = NoLock).
Reopenable(c, to) == to < seen[c].lock

ReopenPeriod(c, to) ==
    /\ seen[c] # None
    /\ Reopenable(c, to)
    /\ SetLock(c, "reopen", to)

\* book_set_lock_date: any date, forward, back or none.
BookSetLockDate(c, date) == SetLock(c, "lock_date", date)

Next ==
    \E c \in Conns :
        \/ GetBook(c)
        \/ Abandon(c)
        \/ \E lines \in Drafts, date \in Dates, source \in Sources \cup {Manual} :
               JournalPost(c, lines, date, source)
        \/ \E k \in DOMAIN journals, date \in Dates : JournalReverse(c, k, date)
        \/ \E a \in Accounts : CoaCreate(c, a) \/ CoaArchive(c, a)
        \/ \E to \in Dates : ClosePeriod(c, to)
        \/ \E to \in LockDates : ReopenPeriod(c, to) \/ BookSetLockDate(c, to)

Spec == Init /\ [][Next]_vars

-----------------------------------------------------------------------------
(***************************************************************************)
(* Properties.                                                             *)
(***************************************************************************)

\* Every row has its type; a stored line has amounts within the line bound,
\* which the service checks before the schema's own CHECK does.
TypeOK ==
    /\ journals \in Seq(JournalRow)
    /\ \A k \in DOMAIN journals :
           \A i \in DOMAIN journals[k].lines :
               /\ journals[k].lines[i].debit \in 0..MaxLineMinor
               /\ journals[k].lines[i].credit \in 0..MaxLineMinor
    /\ coa \in [Accounts -> {"absent", "open", "archived"}]
    /\ lock \in LockDates
    /\ audit \in Seq(AuditRow)
    /\ seen \in [Conns -> Reads \cup {None}]

\* The trial balance close_period checks never fails: at every date, in every
\* currency, debits equal credits over all the journals up to it.
BooksBalanceAtEveryDate == \A d \in Dates : BalancedAsOf(d)

\* Reversals of one journal form a chain that leads back in time: at most one
\* reversal of each journal, whatever connections race to reverse it, always
\* of an earlier journal, always with its exact lines flipped, and always Manual.
\* is_net_reversed walks this chain and would loop or miscount without it.
ReversalsFormChains ==
    \A k \in DOMAIN journals :
        LET of == journals[k].reversal_of
        IN  /\ of < k
            /\ of # 0 =>
                   /\ journals[k].lines = Flip(journals[of].lines)
                   /\ journals[k].source = Manual
                   /\ \A l \in DOMAIN journals : journals[l].reversal_of = of => l = k

\* is_net_reversed tells the truth about money: a journal and the reversals on
\* top of it sum, on every account and currency, to nothing when it says the
\* journal is cancelled and to the journal's own lines when it says it is live.
ReversalParityIsLedgerEffect ==
    \A k \in DOMAIN journals, a \in Accounts, c \in Currencies :
        NetOf(journals, ChainOn(journals, k), a, c)
            = IF IsNetReversed(journals, k) THEN 0 ELSE NetOf(journals, {k}, a, c)

\* However many times a source was posted, reversed and posted again, and by
\* however many connections, at most one journal of it was never reversed: the
\* guard reads the journals inside the posting transaction.
OneUnreversedJournalPerSource ==
    \A k, l \in DOMAIN journals :
        /\ journals[k].source = journals[l].source
        /\ journals[k].source # Manual
        /\ ~IsReversed(journals, k)
        /\ ~IsReversed(journals, l)
        => k = l

\* A line never lands on an account after its archiving was committed, not even
\* by reversing a journal posted before it.
ArchivedAccountStaysQuiet ==
    \A i, j \in DOMAIN audit :
        /\ i < j
        /\ audit[i].action = "archive"
        /\ audit[j].action \in {"post", "reverse"}
        => \A n \in DOMAIN journals[audit[j].journal].lines :
               journals[audit[j].journal].lines[n].coa # audit[i].account

\* What the audit log says of the chart: an account is as its last row left it, or as
\* coa_seed did if no row names it.
ChartReplayed ==
    \A a \in Accounts :
        LET rows == {i \in DOMAIN audit : /\ audit[i].action \in {"create", "archive"}
                                         /\ audit[i].account = a}
        IN  \/ rows = {} /\ coa[a] = IF a \in SeededAccounts THEN "open" ELSE "absent"
            \/ \E i \in rows :
                   /\ coa[a] = IF audit[i].action = "create" THEN "open" ELSE "archived"
                   /\ \A j \in rows : j <= i

\* The audit log alone reconstructs the book: its posting rows are the journals
\* in order, each under the right verb, its last lock row is the lock, and the last
\* row of each account is the account's state.
AuditReplaysTheBook ==
    LET Rows(verbs) == {i \in DOMAIN audit : audit[i].action \in verbs}
        posts == Rows({"post", "reverse"})
        locks == Rows({"close", "reopen", "lock_date"})
    IN  /\ \A i \in posts : audit[i].journal \in DOMAIN journals
        /\ \A i, j \in posts : i < j => audit[i].journal < audit[j].journal
        /\ \A k \in DOMAIN journals : \E i \in posts :
               /\ audit[i].journal = k
               /\ audit[i].action = "reverse" <=> journals[k].reversal_of # 0
        /\ \/ locks = {} /\ lock = NoLock
           \/ \E i \in locks : lock = audit[i].lock /\ \A j \in locks : j <= i
        /\ ChartReplayed

\* Once a close is committed, nothing posts on or before its date until somebody
\* reopens the period or sets the lock date (close_period's own promise).
ClosedPeriodStaysClosed ==
    \A i, j \in DOMAIN audit :
        /\ i < j
        /\ audit[i].action = "close"
        /\ audit[j].action \in {"post", "reverse"}
        /\ \A m \in (i + 1)..(j - 1) : audit[m].action \notin {"reopen", "lock_date"}
        => journals[audit[j].journal].date > audit[i].lock

\* The ledger implements the book of balanced, cancellable entries (Book): every
\* commit records one balanced entry, cancels one entry or leaves them alone.
ImplementedBook == INSTANCE Book WITH
    entries <- [k \in DOMAIN journals |->
                       [effect  |-> [c \in Currencies |->
                                        [a \in Accounts |-> NetOf(journals, {k}, a, c)]],
                        cancels |-> journals[k].reversal_of]]

ImplementsBook == ImplementedBook!Spec
=============================================================================
