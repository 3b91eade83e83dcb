---------------------------- MODULE LedgerProofs -----------------------------
(***************************************************************************)
(* What holds of the ledger for every number of connections, accounts,     *)
(* currencies, dates and journals, proved.                                 *)
(***************************************************************************)
EXTENDS Ledger, JournalProofs

\* Reversing swaps the totals: what the flipped lines debit is what the lines
\* credited, whatever the sum operator does with equal functions.
LEMMA FlipSwapsTotals ==
    ASSUME NEW lines \in Seq(Line), NEW c
    PROVE  /\ DebitTotal(Flip(lines), c) = CreditTotal(lines, c)
           /\ CreditTotal(Flip(lines), c) = DebitTotal(lines, c)
<1> DEFINE flip == Flip(lines)
<1>1. DOMAIN flip = DOMAIN lines
  BY DEF Flip
<1>2. [i \in DOMAIN flip |-> IF flip[i].ccy = c THEN flip[i].debit ELSE 0]
        = [i \in DOMAIN lines |-> IF lines[i].ccy = c THEN lines[i].credit ELSE 0]
  BY <1>1 DEF Flip
<1>3. [i \in DOMAIN flip |-> IF flip[i].ccy = c THEN flip[i].credit ELSE 0]
        = [i \in DOMAIN lines |-> IF lines[i].ccy = c THEN lines[i].debit ELSE 0]
  BY <1>1 DEF Flip
<1> QED
  BY <1>2, <1>3 DEF DebitTotal, CreditTotal

\* A journal that could be posted can be reversed as far as its lines go: only
\* the lock date and the chart of accounts can refuse a reversal.
THEOREM ReversalOfWellFormed ==
    ASSUME NEW lines \in Seq(Line), WellFormed(lines)
    PROVE  WellFormed(Flip(lines))
<1>1. Len(Flip(lines)) >= 2
  BY FlipIsLines DEF WellFormed
<1>2. ASSUME NEW i \in DOMAIN Flip(lines)
      PROVE  OneSided(Flip(lines)[i])
  BY <1>2 DEF WellFormed, Flip, OneSided
<1>3. BalancesPerCurrency(Flip(lines))
  BY FlipSwapsTotals DEF WellFormed, BalancesPerCurrency
<1> QED
  BY <1>1, <1>2, <1>3 DEF WellFormed

\* The amounts of a well-formed line lie within the line bound.
LEMMA OneSidedBounds ==
    ASSUME NEW line \in Line, OneSided(line)
    PROVE  line.debit \in 0..MaxLineMinor /\ line.credit \in 0..MaxLineMinor
BY MaxLineAssumption DEF OneSided, Line

-----------------------------------------------------------------------------
\* The part of TypeOK that says what is stored in the journals table.
JournalsOK ==
    /\ journals \in Seq(JournalRow)
    /\ \A k \in DOMAIN journals :
           \A i \in DOMAIN journals[k].lines :
               /\ journals[k].lines[i].debit \in 0..MaxLineMinor
               /\ journals[k].lines[i].credit \in 0..MaxLineMinor

\* An admitted journal is a typed row whose amounts are within the line bound.
LEMMA JournalRowsTyped ==
    ASSUME JournalsOK, NEW k \in DOMAIN journals
    PROVE  /\ k \in Nat
           /\ journals[k] \in JournalRow
           /\ journals[k].lines \in Seq(Line)
<1>1. k \in 1..Len(journals) /\ Len(journals) \in Nat
  BY DEF JournalsOK
<1>2. journals[k] \in JournalRow
  BY <1>1 DEF JournalsOK
<1> QED
  BY <1>1, <1>2 DEF JournalRow

\* What a posting adds to the ledger.
Admitted(new) ==
    /\ new \in JournalRow
    /\ WellFormed(new.lines)
    /\ SourceFree(new.source)
    /\ \/ new.reversal_of = 0
       \/ /\ new.reversal_of \in DOMAIN journals
          /\ ~IsReversed(journals, new.reversal_of)
          /\ new.source = Manual
          /\ new.lines = Flip(journals[new.reversal_of].lines)

\* A step leaves the journals alone or appends one admitted journal.
LEMMA JournalsGrow ==
    ASSUME JournalsOK, [Next]_vars
    PROVE  \/ journals' = journals
           \/ \E new : Admitted(new) /\ journals' = Append(journals, new)
<1>1. CASE UNCHANGED vars
  BY <1>1 DEF vars
<1>2. CASE Next
  <2> PICK c \in Conns :
        \/ GetBook(c)
        \/ Abandon(c)
        \/ \E lines \in Drafts, date \in Dates, source \in Sources \cup {Manual} :
               JournalPost(c, lines, date, source)
        \/ \E k \in DOMAIN journals, date \in Dates : JournalReverse(c, k, date)
        \/ \E a \in Accounts : CoaCreate(c, a) \/ CoaArchive(c, a)
        \/ \E to \in Dates : ClosePeriod(c, to)
        \/ \E to \in LockDates : ReopenPeriod(c, to) \/ BookSetLockDate(c, to)
    BY <1>2 DEF Next
  <2>1. ASSUME NEW lines \in Drafts, NEW date \in Dates, NEW source \in Sources \cup {Manual},
               JournalPost(c, lines, date, source)
        PROVE  \E new : Admitted(new) /\ journals' = Append(journals, new)
    <3> DEFINE new == [date |-> date, source |-> source, reversal_of |-> 0, lines |-> lines]
    <3>1. PostJournal(c, new)
      BY <2>1 DEF JournalPost
    <3>2. new \in JournalRow
      BY DraftsAssumption DEF JournalRow
    <3>3. Admitted(new) /\ journals' = Append(journals, new)
      BY <3>1, <3>2 DEF PostJournal, Admitted
    <3> QED
      BY <3>3
  <2>2. ASSUME NEW k \in DOMAIN journals, NEW date \in Dates, JournalReverse(c, k, date)
        PROVE  \E new : Admitted(new) /\ journals' = Append(journals, new)
    <3> DEFINE new == [date |-> date, source |-> Manual, reversal_of |-> k,
                       lines |-> Flip(journals[k].lines)]
    <3>1. PostJournal(c, new) /\ ~IsReversed(journals, k)
      BY <2>2 DEF JournalReverse, NotReversedYet
    <3>2. journals[k].lines \in Seq(Line) /\ k \in Nat
      BY JournalRowsTyped
    <3>3. new \in JournalRow
      BY <3>2, FlipIsLines DEF JournalRow
    <3>4. Admitted(new) /\ journals' = Append(journals, new)
      BY <3>1, <3>3 DEF PostJournal, Admitted
    <3> QED
      BY <3>4
  <2>3. CASE GetBook(c) \/ Abandon(c)
    BY <2>3 DEF GetBook, Abandon
  <2>4. CASE \E a \in Accounts : CoaCreate(c, a) \/ CoaArchive(c, a)
    BY <2>4 DEF CoaCreate, CoaArchive
  <2>5. CASE \/ \E to \in Dates : ClosePeriod(c, to)
             \/ \E to \in LockDates : ReopenPeriod(c, to) \/ BookSetLockDate(c, to)
    BY <2>5 DEF ClosePeriod, ReopenPeriod, BookSetLockDate, SetLock
  <2> QED
    BY <2>1, <2>2, <2>3, <2>4, <2>5
<1> QED
  BY <1>1, <1>2

-----------------------------------------------------------------------------
\* A step keeps every journal typed and within the line bound.
LEMMA JournalsStayTyped ==
    ASSUME JournalsOK, [Next]_vars
    PROVE  JournalsOK'
<1>1. CASE journals' = journals
  BY <1>1 DEF JournalsOK
<1>2. ASSUME NEW new, Admitted(new), journals' = Append(journals, new)
      PROVE  JournalsOK'
  <2>1. new \in JournalRow /\ new.lines \in Seq(Line) /\ WellFormed(new.lines)
    BY <1>2 DEF Admitted, JournalRow
  <2>2. journals \in Seq(JournalRow)
    BY DEF JournalsOK
  <2>3. journals' \in Seq(JournalRow)
    BY <1>2, <2>1, <2>2
  <2>4. ASSUME NEW i \in DOMAIN new.lines
        PROVE  /\ new.lines[i].debit \in 0..MaxLineMinor
               /\ new.lines[i].credit \in 0..MaxLineMinor
    <3>1. new.lines[i] \in Line /\ OneSided(new.lines[i])
      BY <2>1, <2>4 DEF WellFormed
    <3> QED
      BY <3>1, OneSidedBounds
  <2>5. ASSUME NEW k \in DOMAIN journals'
        PROVE  \/ k \in DOMAIN journals /\ journals'[k] = journals[k]
               \/ journals'[k] = new
    BY <1>2, <2>2
  <2> QED
    BY <2>3, <2>4, <2>5 DEF JournalsOK
<1> QED
  BY <1>1, <1>2, JournalsGrow

\* The other variables keep their types.
LEMMA ReadIsTyped ==
    ASSUME JournalsOK, lock \in LockDates
    PROVE  Read \in Reads
<1>1. {d \in Dates : BalancedAsOf(d)} \in SUBSET Dates
  OBVIOUS
<1>2. Len(journals) \in Nat
  BY DEF JournalsOK
<1> QED
  BY <1>1, <1>2 DEF Read, Reads

\* TypeOK is inductive: one case per action, one conjunct per variable.
LEMMA TypeStep ==
    ASSUME TypeOK, [Next]_vars
    PROVE  TypeOK'
<1>1. JournalsOK
  BY DEF TypeOK, JournalsOK
<1>2. JournalsOK'
  BY <1>1, JournalsStayTyped
<1>3. CASE UNCHANGED vars
  BY <1>3 DEF vars, TypeOK
<1>4. CASE Next
  <2>p. PICK c \in Conns :
        \/ GetBook(c)
        \/ Abandon(c)
        \/ \E lines \in Drafts, date \in Dates, source \in Sources \cup {Manual} :
               JournalPost(c, lines, date, source)
        \/ \E k \in DOMAIN journals, date \in Dates : JournalReverse(c, k, date)
        \/ \E a \in Accounts : CoaCreate(c, a) \/ CoaArchive(c, a)
        \/ \E to \in Dates : ClosePeriod(c, to)
        \/ \E to \in LockDates : ReopenPeriod(c, to) \/ BookSetLockDate(c, to)
    BY <1>4 DEF Next
  <2> DEFINE OthersOK ==
        /\ coa \in [Accounts -> {"absent", "open", "archived"}]
        /\ lock \in LockDates
        /\ audit \in Seq(AuditRow)
        /\ seen \in [Conns -> Reads \cup {None}]
  <2>0. OthersOK
    BY DEF TypeOK
  <2>1. ASSUME NEW entry \in AuditRow, Commit(c, entry)
        PROVE  /\ audit' \in Seq(AuditRow)
               /\ seen' \in [Conns -> Reads \cup {None}]
    BY <2>0, <2>1 DEF Commit
  <2>2. ASSUME GetBook(c) PROVE OthersOK'
    BY <2>0, <2>2, <1>1, ReadIsTyped DEF GetBook
  <2>3. ASSUME Abandon(c) PROVE OthersOK'
    BY <2>0, <2>3 DEF Abandon
  <2>4. ASSUME NEW new, PostJournal(c, new)
        PROVE  OthersOK'
    <3> DEFINE entry == [action  |-> IF new.reversal_of = 0 THEN "post" ELSE "reverse",
                         journal |-> Len(journals) + 1]
    <3>1. entry \in AuditRow
      BY <1>1 DEF AuditRow, JournalsOK
    <3>2. Commit(c, entry) /\ UNCHANGED <<coa, lock>>
      BY <2>4 DEF PostJournal
    <3> QED
      BY <2>0, <2>1, <3>1, <3>2
  <2>5. ASSUME NEW a \in Accounts, CoaCreate(c, a) \/ CoaArchive(c, a)
        PROVE  OthersOK'
    <3>1. PICK act \in {"create", "archive"} : Commit(c, [action |-> act, account |-> a])
      BY <2>5 DEF CoaCreate, CoaArchive
    <3>2. [action |-> act, account |-> a] \in AuditRow
      BY DEF AuditRow
    <3>3. lock' = lock /\ coa' \in [Accounts -> {"absent", "open", "archived"}]
      BY <2>0, <2>5 DEF CoaCreate, CoaArchive
    <3> QED
      BY <2>0, <2>1, <3>1, <3>2, <3>3
  <2>6. ASSUME NEW act \in {"close", "reopen", "lock_date"}, NEW to \in LockDates,
               SetLock(c, act, to)
        PROVE  OthersOK'
    <3>1. [action |-> act, lock |-> to] \in AuditRow
      BY DEF AuditRow
    <3> QED
      BY <2>0, <2>1, <2>6, <3>1 DEF SetLock
  <2>7. ASSUME NEW lines, NEW date, NEW source, JournalPost(c, lines, date, source)
        PROVE  OthersOK'
    BY <2>4, <2>7 DEF JournalPost
  <2>8. ASSUME NEW k, NEW date, JournalReverse(c, k, date)
        PROVE  OthersOK'
    BY <2>4, <2>8 DEF JournalReverse
  <2>9. ASSUME NEW to \in LockDates,
               ClosePeriod(c, to) \/ ReopenPeriod(c, to) \/ BookSetLockDate(c, to)
        PROVE  OthersOK'
    BY <2>6, <2>9 DEF ClosePeriod, ReopenPeriod, BookSetLockDate
  <2>10. OthersOK'
    <3>1. Dates \subseteq LockDates
      BY DEF LockDates
    <3> QED
      BY <2>p, <2>2, <2>3, <2>5, <2>7, <2>8, <2>9, <3>1
  <2> QED
    BY <1>2, <2>10 DEF TypeOK, JournalsOK
<1> QED
  BY <1>3, <1>4

\* Every reachable ledger is well typed, for every instance.
THEOREM LedgerTypeOK == Spec => []TypeOK
<1>1. Init => TypeOK
  <2> SUFFICES ASSUME Init PROVE TypeOK
    OBVIOUS
  <2>1. journals \in Seq(JournalRow) /\ DOMAIN journals = {}
    BY DEF Init
  <2>2. audit \in Seq(AuditRow)
    BY DEF Init
  <2> QED
    BY <2>1, <2>2 DEF Init, TypeOK, LockDates
<1>2. TypeOK /\ [Next]_vars => TypeOK'
  BY TypeStep
<1> QED
  BY <1>1, <1>2, PTL DEF Spec

-----------------------------------------------------------------------------
\* Appending keeps what was there and adds the new journal at the end.
LEMMA AppendedJournal ==
    ASSUME JournalsOK, NEW new, journals' = Append(journals, new)
    PROVE  /\ Len(journals) \in Nat
           /\ DOMAIN journals = 1..Len(journals)
           /\ DOMAIN journals' = 1..(Len(journals) + 1)
           /\ \A k \in DOMAIN journals : journals'[k] = journals[k]
           /\ journals'[Len(journals) + 1] = new
BY DEF JournalsOK

\* A step keeps the reversals chained: the new journal reverses nothing, or an
\* earlier journal that nothing reversed.
LEMMA ChainsStep ==
    ASSUME JournalsOK, ReversalsFormChains, [Next]_vars
    PROVE  ReversalsFormChains'
<1>1. CASE journals' = journals
  BY <1>1 DEF ReversalsFormChains
<1>2. ASSUME NEW new, Admitted(new), journals' = Append(journals, new)
      PROVE  ReversalsFormChains'
  <2> DEFINE n == Len(journals) + 1
             of == new.reversal_of
  <2>1. /\ Len(journals) \in Nat
        /\ DOMAIN journals = 1..Len(journals)
        /\ DOMAIN journals' = 1..n
        /\ \A k \in DOMAIN journals : journals'[k] = journals[k]
        /\ journals'[n] = new
    BY <1>2, AppendedJournal
  <2>2. \A k \in DOMAIN journals :
           /\ journals[k].reversal_of \in Nat
           /\ journals[k].reversal_of < k
    BY JournalRowsTyped DEF ReversalsFormChains, JournalRow
  <2>3. CASE of = 0
    BY <2>1, <2>2, <2>3 DEF ReversalsFormChains
  <2>4. CASE /\ of \in DOMAIN journals
             /\ ~IsReversed(journals, of)
             /\ new.source = Manual
             /\ new.lines = Flip(journals[of].lines)
    <3>1. \A k \in DOMAIN journals : journals[k].reversal_of # of
      BY <2>4 DEF IsReversed, ReversalsOf
    <3>2. ASSUME NEW k \in DOMAIN journals', journals'[k].reversal_of # 0
          PROVE  /\ journals'[k].reversal_of < k
                 /\ journals'[k].lines = Flip(journals'[journals'[k].reversal_of].lines)
                 /\ journals'[k].source = Manual
                 /\ \A l \in DOMAIN journals' :
                        journals'[l].reversal_of = journals'[k].reversal_of => l = k
      <4>1. CASE k = n
        BY <2>1, <2>4, <3>1, <4>1
      <4>2. CASE k \in DOMAIN journals
        <5>1. journals'[k] = journals[k] /\ journals[k].reversal_of \in DOMAIN journals
          BY <2>1, <2>2, <3>2, <4>2
        <5>2. journals[k].reversal_of # of
          BY <3>1, <4>2
        <5> QED
          BY <2>1, <2>2, <3>2, <4>2, <5>1, <5>2 DEF ReversalsFormChains
      <4> QED
        BY <2>1, <4>1, <4>2
    <3>3. \A k \in DOMAIN journals' : journals'[k].reversal_of < k
      BY <2>1, <2>2, <2>4
    <3> QED
      BY <3>2, <3>3 DEF ReversalsFormChains
  <2> QED
    BY <1>2, <2>3, <2>4 DEF Admitted
<1> QED
  BY <1>1, <1>2, JournalsGrow

\* A cancelled journal has been reversed.
LEMMA NetReversedIsReversed ==
    ASSUME NEW k, IsNetReversed(journals, k)
    PROVE  IsReversed(journals, k)
BY DEF IsNetReversed

\* A step keeps one unreversed journal per source: the guard of a posting reads
\* every earlier journal of the source inside the transaction.
LEMMA UnreversedStep ==
    ASSUME JournalsOK, OneUnreversedJournalPerSource, [Next]_vars
    PROVE  OneUnreversedJournalPerSource'
<1>1. CASE journals' = journals
  BY <1>1 DEF OneUnreversedJournalPerSource, IsReversed, ReversalsOf
<1>2. ASSUME NEW new, Admitted(new), journals' = Append(journals, new)
      PROVE  OneUnreversedJournalPerSource'
  <2> DEFINE n == Len(journals) + 1
  <2>1. /\ Len(journals) \in Nat
        /\ DOMAIN journals = 1..Len(journals)
        /\ DOMAIN journals' = 1..n
        /\ \A k \in DOMAIN journals : journals'[k] = journals[k]
        /\ journals'[n] = new
    BY <1>2, AppendedJournal
  <2>2. ASSUME NEW k \in DOMAIN journals, IsReversed(journals, k)
        PROVE  IsReversed(journals', k)
    BY <2>1, <2>2 DEF IsReversed, ReversalsOf
  <2>3. ASSUME NEW k \in DOMAIN journals, journals[k].source = new.source, new.source # Manual
        PROVE  IsReversed(journals', k)
    BY <1>2, <2>2, <2>3, NetReversedIsReversed DEF Admitted, SourceFree
  <2> SUFFICES ASSUME NEW k \in DOMAIN journals', NEW l \in DOMAIN journals',
                      journals'[k].source = journals'[l].source,
                      journals'[k].source # Manual,
                      ~IsReversed(journals', k), ~IsReversed(journals', l)
               PROVE  k = l
    BY DEF OneUnreversedJournalPerSource
  <2>4. CASE k \in DOMAIN journals /\ l \in DOMAIN journals
    BY <2>1, <2>2, <2>4 DEF OneUnreversedJournalPerSource
  <2>5. CASE k = n \/ l = n
    BY <2>1, <2>3, <2>5
  <2> QED
    BY <2>1, <2>4, <2>5
<1> QED
  BY <1>1, <1>2, JournalsGrow

\* The journals of a book form reversal chains: no journal is reversed twice and
\* every reversal is the exact opposite of an earlier journal, whatever the
\* connections do between each other's reads and commits.
THEOREM ReversalChains == Spec => []ReversalsFormChains
<1>1. Init => ReversalsFormChains
  BY DEF Init, ReversalsFormChains
<1>2. TypeOK /\ ReversalsFormChains /\ [Next]_vars => ReversalsFormChains'
  BY ChainsStep DEF TypeOK, JournalsOK
<1> QED
  BY <1>1, <1>2, LedgerTypeOK, PTL DEF Spec

\* At most one journal of a generated source was never reversed.
THEOREM OneUnreversedPerSource == Spec => []OneUnreversedJournalPerSource
<1>1. Init => OneUnreversedJournalPerSource
  BY DEF Init, OneUnreversedJournalPerSource
<1>2. TypeOK /\ OneUnreversedJournalPerSource /\ [Next]_vars => OneUnreversedJournalPerSource'
  BY UnreversedStep DEF TypeOK, JournalsOK
<1> QED
  BY <1>1, <1>2, LedgerTypeOK, PTL DEF Spec

-----------------------------------------------------------------------------
(***************************************************************************)
(* The audit log and the book.                                             *)
(***************************************************************************)
Verbs == {"post", "reverse"}

\* What a commit of connection c, leaving audit entry e, may have done.
Effect(c, e) ==
    \/ /\ e.action \in Verbs
       /\ e.journal = Len(journals) + 1
       /\ UNCHANGED <<coa, lock>>
       /\ \E new \in JournalRow :
              /\ new.date > seen[c].lock
              /\ \A n \in DOMAIN new.lines : coa[new.lines[n].coa] = "open"
              /\ e.action = "reverse" <=> new.reversal_of # 0
              /\ journals' = Append(journals, new)
    \/ /\ e.action = "create"
       /\ coa[e.account] = "absent"
       /\ coa' = [coa EXCEPT ![e.account] = "open"]
       /\ UNCHANGED <<journals, lock>>
    \/ /\ e.action = "archive"
       /\ coa' = [coa EXCEPT ![e.account] = "archived"]
       /\ UNCHANGED <<journals, lock>>
    \/ /\ e.action = "close"
       /\ e.lock > seen[c].lock
       /\ lock' = e.lock
       /\ UNCHANGED <<journals, coa>>
    \/ /\ e.action \in {"reopen", "lock_date"}
       /\ lock' = e.lock
       /\ UNCHANGED <<journals, coa>>

Committed(c, e) ==
    /\ seen[c] # None
    /\ audit' = Append(audit, e)
    /\ seen' = [seen EXCEPT ![c] = None]
    /\ Effect(c, e)

\* Every step is a read, a failure, or one commit with one audit entry.
LEMMA StepsAreCommits ==
    ASSUME TypeOK, [Next]_vars
    PROVE  \/ UNCHANGED vars
           \/ \E c \in Conns : GetBook(c) \/ Abandon(c)
           \/ \E c \in Conns : \E e \in AuditRow : Committed(c, e)
<1>1. JournalsOK
  BY DEF TypeOK, JournalsOK
<1>2. CASE Next
  <2>p. PICK c \in Conns :
        \/ GetBook(c)
        \/ Abandon(c)
        \/ \E lines \in Drafts, date \in Dates, source \in Sources \cup {Manual} :
               JournalPost(c, lines, date, source)
        \/ \E k \in DOMAIN journals, date \in Dates : JournalReverse(c, k, date)
        \/ \E a \in Accounts : CoaCreate(c, a) \/ CoaArchive(c, a)
        \/ \E to \in Dates : ClosePeriod(c, to)
        \/ \E to \in LockDates : ReopenPeriod(c, to) \/ BookSetLockDate(c, to)
    BY <1>2 DEF Next
  <2>1. ASSUME NEW new \in JournalRow, PostJournal(c, new)
        PROVE  \E e \in AuditRow : Committed(c, e)
    <3> DEFINE e == [action  |-> IF new.reversal_of = 0 THEN "post" ELSE "reverse",
                     journal |-> Len(journals) + 1]
    <3>1. e \in AuditRow /\ e.action \in Verbs
      BY <1>1 DEF AuditRow, JournalsOK, Verbs
    <3>2. Commit(c, e) /\ UNCHANGED <<coa, lock>> /\ journals' = Append(journals, new)
          /\ new.date > seen[c].lock /\ \A n \in DOMAIN new.lines : coa[new.lines[n].coa] = "open"
      BY <2>1 DEF PostJournal, Unlocked, Postable
    <3>3. e.action = "reverse" <=> new.reversal_of # 0
      OBVIOUS
    <3>4. Effect(c, e)
      BY <3>1, <3>2, <3>3 DEF Effect
    <3> QED
      BY <3>1, <3>2, <3>4 DEF Committed, Commit
  <2>2. ASSUME NEW lines \in Drafts, NEW date \in Dates, NEW source \in Sources \cup {Manual},
               JournalPost(c, lines, date, source)
        PROVE  \E e \in AuditRow : Committed(c, e)
    <3> DEFINE new == [date |-> date, source |-> source, reversal_of |-> 0, lines |-> lines]
    <3>1. new \in JournalRow
      BY DraftsAssumption DEF JournalRow
    <3>2. PostJournal(c, new)
      BY <2>2 DEF JournalPost
    <3> QED
      BY <3>1, <3>2, <2>1
  <2>3. ASSUME NEW k \in DOMAIN journals, NEW date \in Dates, JournalReverse(c, k, date)
        PROVE  \E e \in AuditRow : Committed(c, e)
    <3> DEFINE new == [date |-> date, source |-> Manual, reversal_of |-> k,
                       lines |-> Flip(journals[k].lines)]
    <3>1. new \in JournalRow
      BY <1>1, JournalRowsTyped, FlipIsLines DEF JournalRow
    <3>2. PostJournal(c, new)
      BY <2>3 DEF JournalReverse
    <3> QED
      BY <3>1, <3>2, <2>1
  <2>4. ASSUME NEW a \in Accounts, CoaCreate(c, a) \/ CoaArchive(c, a)
        PROVE  \E e \in AuditRow : Committed(c, e)
    <3>1. CASE CoaCreate(c, a)
      <4> DEFINE e == [action |-> "create", account |-> a]
      <4>1. e \in AuditRow
        BY DEF AuditRow
      <4>2. Committed(c, e)
        BY <3>1 DEF CoaCreate, Committed, Commit, Effect, Verbs
      <4> QED
        BY <4>1, <4>2
    <3>2. CASE CoaArchive(c, a)
      <4> DEFINE e == [action |-> "archive", account |-> a]
      <4>1. e \in AuditRow
        BY DEF AuditRow
      <4>2. Committed(c, e)
        BY <3>2 DEF CoaArchive, Committed, Commit, Effect, Verbs
      <4> QED
        BY <4>1, <4>2
    <3> QED
      BY <2>4, <3>1, <3>2
  <2>5. ASSUME NEW act \in {"close", "reopen", "lock_date"}, NEW to \in LockDates,
               SetLock(c, act, to), act = "close" => to > seen[c].lock
        PROVE  \E e \in AuditRow : Committed(c, e)
    <3> DEFINE e == [action |-> act, lock |-> to]
    <3>1. e \in AuditRow
      BY DEF AuditRow
    <3>2. Committed(c, e)
      BY <2>5 DEF SetLock, Committed, Commit, Effect
    <3> QED
      BY <3>1, <3>2
  <2>6. ASSUME NEW to \in LockDates,
               ClosePeriod(c, to) \/ ReopenPeriod(c, to) \/ BookSetLockDate(c, to)
        PROVE  \E e \in AuditRow : Committed(c, e)
    BY <2>5, <2>6 DEF ClosePeriod, Closeable, ReopenPeriod, BookSetLockDate
  <2>7. Dates \subseteq LockDates
    BY DEF LockDates
  <2> QED
    BY <2>p, <2>2, <2>3, <2>4, <2>6, <2>7
<1> QED
  BY <1>2

\* What the audit log says of the chart: an account it archived stays archived.
HistoryInv ==
    /\ \A i \in DOMAIN audit : audit[i].action = "archive" => coa[audit[i].account] = "archived"
    /\ ArchivedAccountStaysQuiet
    /\ AuditReplaysTheBook

\* A commit appends to the audit log the row that tells what it did to the book.
LEMMA HistoryStep ==
    ASSUME TypeOK, TypeOK', HistoryInv, [Next]_vars
    PROVE  HistoryInv'
<1>1. CASE UNCHANGED <<journals, coa, lock, audit>>
  BY <1>1 DEF HistoryInv, ArchivedAccountStaysQuiet, AuditReplaysTheBook, ChartReplayed
<1>2. ASSUME NEW c \in Conns, NEW e \in AuditRow, Committed(c, e)
      PROVE  HistoryInv'
  <2>n. PICK n \in Nat : n = Len(audit) + 1 /\ n > 0
    BY DEF TypeOK
  <2>1. /\ DOMAIN audit = 1..(n - 1)
        /\ DOMAIN audit' = 1..n
        /\ \A i \in DOMAIN audit : audit'[i] = audit[i]
        /\ audit'[n] = e
    BY <1>2, <2>n DEF Committed, TypeOK
  <2>2. /\ DOMAIN journals \subseteq DOMAIN journals'
        /\ \A k \in DOMAIN journals : journals'[k] = journals[k] /\ k \in Nat
    <3>1. journals' = journals \/ \E new : journals' = Append(journals, new)
      BY <1>2 DEF Committed, Effect
    <3>2. journals \in Seq(JournalRow)
      BY DEF TypeOK
    <3> QED
      BY <3>1, <3>2
  <2>3. \A i \in DOMAIN audit : audit[i] \in AuditRow
    BY <2>1, <2>n DEF TypeOK
  <2>4. ASSUME NEW i \in DOMAIN audit, audit[i].action \in Verbs
        PROVE  audit[i].journal \in DOMAIN journals
    BY <2>4 DEF HistoryInv, AuditReplaysTheBook, Verbs
  <2>5. ASSUME NEW i \in DOMAIN audit, audit[i].action = "archive"
        PROVE  audit[i].account \in Accounts /\ coa[audit[i].account] = "archived"
    BY <2>3, <2>5 DEF HistoryInv, AuditRow
  <2>6. e.action \in {"create", "archive"} => e.account \in Accounts
    BY DEF AuditRow
  <2>7. ASSUME NEW i \in DOMAIN audit', audit'[i].action = "archive"
        PROVE  coa'[audit'[i].account] = "archived"
    <3>1. CASE i = n
      BY <1>2, <2>1, <2>6, <2>7, <3>1 DEF Committed, Effect, Verbs, TypeOK
    <3>2. CASE i \in DOMAIN audit
      <4>1. audit'[i] = audit[i] /\ audit[i].account \in Accounts /\ coa[audit[i].account] = "archived"
        BY <2>1, <2>5, <2>7, <3>2
      <4>2. \A a \in Accounts : coa[a] = "archived" => coa'[a] = "archived"
        BY <1>2, <2>6 DEF Committed, Effect, TypeOK
      <4> QED
        BY <4>1, <4>2
    <3> QED
      BY <2>1, <3>1, <3>2
  <2>r. ChartReplayed'
    <3> DEFINE Rows(a) == {i \in DOMAIN audit : /\ audit[i].action \in {"create", "archive"}
                                               /\ audit[i].account = a}
               Said(i) == IF audit[i].action = "create" THEN "open" ELSE "archived"
    <3> SUFFICES ASSUME NEW a \in Accounts
                 PROVE  \/ /\ Rows(a)' = {}
                           /\ coa'[a] = IF a \in SeededAccounts THEN "open" ELSE "absent"
                        \/ \E i \in Rows(a)' : coa'[a] = Said(i)' /\ \A j \in Rows(a)' : j <= i
      BY DEF ChartReplayed
    <3>1. \/ /\ Rows(a) = {}
             /\ coa[a] = IF a \in SeededAccounts THEN "open" ELSE "absent"
          \/ \E i \in Rows(a) : coa[a] = Said(i) /\ \A j \in Rows(a) : j <= i
      BY DEF HistoryInv, AuditReplaysTheBook, ChartReplayed
    <3>2. CASE e.action \in {"create", "archive"} /\ e.account = a
      <4>1. n \in Rows(a)' /\ \A j \in Rows(a)' : j <= n
        BY <2>n, <2>1, <3>2
      <4>2. coa'[a] = Said(n)'
        BY <1>2, <2>1, <3>2 DEF Committed, Effect, Verbs, TypeOK
      <4> QED
        BY <4>1, <4>2
    <3>3. CASE ~(e.action \in {"create", "archive"} /\ e.account = a)
      <4>1. Rows(a)' = Rows(a) /\ \A i \in Rows(a) : Said(i)' = Said(i)
        BY <2>n, <2>1, <3>3
      <4>2. coa'[a] = coa[a]
        BY <1>2, <2>6, <3>3 DEF Committed, Effect, Verbs, TypeOK
      <4> QED
        BY <3>1, <4>1, <4>2
    <3> QED
      BY <3>2, <3>3
  <2>8. CASE e.action \notin Verbs
    <3>1. journals' = journals
      BY <1>2, <2>8 DEF Committed, Effect
    <3>2. ArchivedAccountStaysQuiet'
      <4>1. ASSUME NEW i \in DOMAIN audit', NEW j \in DOMAIN audit', i < j,
                   audit'[j].action \in Verbs
            PROVE  i \in DOMAIN audit /\ j \in DOMAIN audit
        BY <2>1, <2>8, <4>1
      <4> QED
        BY <2>1, <3>1, <4>1 DEF HistoryInv, ArchivedAccountStaysQuiet, Verbs
    <3>3. AuditReplaysTheBook'
      <4>1. \A i \in DOMAIN audit' : audit'[i].action \in Verbs => i \in DOMAIN audit
        BY <2>1, <2>8
      <4>2. CASE e.action \in {"create", "archive"}
        <5>1. lock' = lock
          BY <1>2, <4>2 DEF Committed, Effect, Verbs
        <5>2. \A i \in DOMAIN audit' :
                 audit'[i].action \in {"close", "reopen", "lock_date"} => i \in DOMAIN audit
          BY <2>1, <4>2
        <5> QED
          BY <2>1, <2>r, <3>1, <4>1, <5>1, <5>2 DEF HistoryInv, AuditReplaysTheBook, Verbs
      <4>3. CASE e.action \in {"close", "reopen", "lock_date"}
        <5>1. lock' = e.lock
          BY <1>2, <4>3 DEF Committed, Effect, Verbs
        <5>2. n \in DOMAIN audit' /\ \A j \in DOMAIN audit' : j <= n
          BY <2>n, <2>1
        <5> QED
          BY <2>1, <2>r, <3>1, <4>1, <4>3, <5>1, <5>2 DEF HistoryInv, AuditReplaysTheBook, Verbs
      <4> QED
        BY <1>2, <2>8, <4>2, <4>3 DEF Committed, Effect
    <3> QED
      BY <2>7, <3>2, <3>3 DEF HistoryInv
  <2>9. CASE e.action \in Verbs
    <3>1. PICK new \in JournalRow :
             /\ \A m \in DOMAIN new.lines : coa[new.lines[m].coa] = "open"
             /\ e.action = "reverse" <=> new.reversal_of # 0
             /\ journals' = Append(journals, new)
      BY <1>2, <2>9 DEF Committed, Effect, Verbs
    <3>2. e.journal = Len(journals) + 1 /\ UNCHANGED <<coa, lock>>
      BY <1>2, <2>9 DEF Committed, Effect, Verbs
    <3>3. /\ Len(journals) \in Nat
          /\ DOMAIN journals = 1..Len(journals)
          /\ DOMAIN journals' = 1..(Len(journals) + 1)
          /\ journals'[e.journal] = new
      BY <3>1, <3>2 DEF TypeOK
    <3>4. ArchivedAccountStaysQuiet'
      <4> SUFFICES ASSUME NEW i \in DOMAIN audit', NEW j \in DOMAIN audit', i < j,
                          audit'[i].action = "archive", audit'[j].action \in Verbs,
                          NEW m \in DOMAIN journals'[audit'[j].journal].lines
                   PROVE  journals'[audit'[j].journal].lines[m].coa # audit'[i].account
        BY DEF ArchivedAccountStaysQuiet, Verbs
      <4>1. i \in DOMAIN audit /\ audit'[i] = audit[i]
        BY <2>1
      <4>2. CASE j = n
        BY <2>1, <2>5, <3>1, <3>3, <4>1, <4>2
      <4>3. CASE j \in DOMAIN audit
        <5>1. audit'[j] = audit[j] /\ journals'[audit[j].journal] = journals[audit[j].journal]
          BY <2>1, <2>2, <2>4, <4>3
        <5> QED
          BY <4>1, <4>3, <5>1 DEF HistoryInv, ArchivedAccountStaysQuiet, Verbs
      <4> QED
        BY <2>1, <4>2, <4>3
    <3>5. AuditReplaysTheBook'
      <4>1. \A i \in DOMAIN audit' :
               audit'[i].action \in {"close", "reopen", "lock_date"} => i \in DOMAIN audit
        BY <2>1, <2>9 DEF Verbs
      <4>2. \A i \in DOMAIN audit' : audit'[i].action \in Verbs => audit'[i].journal \in DOMAIN journals'
        BY <2>1, <2>2, <2>4, <3>2, <3>3
      <4>3. ASSUME NEW i \in DOMAIN audit', NEW j \in DOMAIN audit', i < j,
                   audit'[i].action \in Verbs, audit'[j].action \in Verbs
            PROVE  audit'[i].journal < audit'[j].journal
        <5>1. i \in DOMAIN audit /\ audit'[i] = audit[i]
          BY <2>1, <4>3
        <5>2. CASE j = n
          BY <2>1, <2>4, <3>2, <3>3, <4>3, <5>1, <5>2
        <5>3. CASE j \in DOMAIN audit
          BY <2>1, <4>3, <5>1, <5>3 DEF HistoryInv, AuditReplaysTheBook, Verbs
        <5> QED
          BY <2>1, <5>2, <5>3
      <4>4. ASSUME NEW k \in DOMAIN journals'
            PROVE  \E i \in DOMAIN audit' :
                       /\ audit'[i].action \in Verbs /\ audit'[i].journal = k
                       /\ audit'[i].action = "reverse" <=> journals'[k].reversal_of # 0
        <5>1. CASE k = e.journal
          <6>1. n \in DOMAIN audit'
            BY <2>n, <2>1
          <6> QED
            BY <2>1, <2>9, <3>1, <3>3, <5>1, <6>1
        <5>2. CASE k \in DOMAIN journals
          <6>1. PICK i \in DOMAIN audit :
                   /\ audit[i].action \in Verbs /\ audit[i].journal = k
                   /\ audit[i].action = "reverse" <=> journals[k].reversal_of # 0
            BY <5>2 DEF HistoryInv, AuditReplaysTheBook, Verbs
          <6>2. i \in DOMAIN audit' /\ audit'[i] = audit[i]
            BY <2>1
          <6> QED
            BY <2>2, <5>2, <6>1, <6>2
        <5> QED
          BY <3>2, <3>3, <5>1, <5>2
      <4>5. \A i \in DOMAIN audit : i \in DOMAIN audit' /\ audit'[i] = audit[i]
        BY <2>1
      <4>6. DEFINE Locks == {i \in DOMAIN audit : audit[i].action \in {"close", "reopen", "lock_date"}}
      <4>7. Locks' = Locks
        BY <4>1, <4>5
      <4>8. \/ Locks' = {} /\ lock' = NoLock
            \/ \E i \in Locks' : lock' = audit'[i].lock /\ \A j \in Locks' : j <= i
        BY <3>2, <4>5, <4>7 DEF HistoryInv, AuditReplaysTheBook
      <4> QED
        BY <2>r, <4>2, <4>3, <4>4, <4>8 DEF AuditReplaysTheBook, Verbs
    <3> QED
      BY <2>7, <3>4, <3>5 DEF HistoryInv
  <2> QED
    BY <2>8, <2>9
<1> QED
  BY <1>1, <1>2, StepsAreCommits DEF GetBook, Abandon, vars

LEMMA HistoryHolds == Spec => []HistoryInv
<1>1. Init => HistoryInv
  BY DEF Init, HistoryInv, ArchivedAccountStaysQuiet, AuditReplaysTheBook, ChartReplayed
<1>2. TypeOK /\ TypeOK' /\ HistoryInv /\ [Next]_vars => HistoryInv'
  BY HistoryStep
<1> QED
  BY <1>1, <1>2, LedgerTypeOK, PTL DEF Spec

\* No journal, not even a reversal of an older one, has a line on an account that was
\* archived when it was posted, whatever connections race.
THEOREM ArchivedStaysQuiet == Spec => []ArchivedAccountStaysQuiet
<1>1. HistoryInv => ArchivedAccountStaysQuiet
  BY DEF HistoryInv
<1> QED
  BY <1>1, HistoryHolds, PTL

\* The audit log alone says which journals there are, in which order and under which
\* verb, where the lock stands, and which accounts are absent, open and archived.
THEOREM AuditReplays == Spec => []AuditReplaysTheBook
<1>1. HistoryInv => AuditReplaysTheBook
  BY DEF HistoryInv
<1> QED
  BY <1>1, HistoryHolds, PTL

-----------------------------------------------------------------------------
(***************************************************************************)
(* One process on the database.  Then nothing commits between the reads of *)
(* an operation and its transaction, and a closed period stays closed.     *)
(***************************************************************************)
\* No reopening and no explicit lock date among the audit entries i+1..n.
Undisturbed(i, n) == \A m \in (i + 1)..n : audit[m].action \notin {"reopen", "lock_date"}

SoleInv ==
    /\ \A c \in Conns : seen[c] # None => seen[c].lock = lock
    /\ \A i \in DOMAIN audit :
           audit[i].action = "close" /\ Undisturbed(i, Len(audit)) => audit[i].lock <= lock
    /\ \A i \in DOMAIN audit : audit[i].action \in Verbs => audit[i].journal \in DOMAIN journals
    /\ ClosedPeriodStaysClosed

\* With one connection the reads of an operation are still true when it commits,
\* so each kind of step keeps the closes before it respected.
LEMMA SoleStep ==
    ASSUME \A c, d \in Conns : c = d, TypeOK, TypeOK', SoleInv, [Next]_vars
    PROVE  SoleInv'
<1>1. CASE UNCHANGED vars
  BY <1>1 DEF vars, SoleInv, ClosedPeriodStaysClosed, Undisturbed
<1>2. ASSUME NEW c \in Conns, GetBook(c) \/ Abandon(c)
      PROVE  SoleInv'
  <2>1. UNCHANGED <<journals, coa, lock, audit>>
    BY <1>2 DEF GetBook, Abandon
  <2>2. seen' = [seen EXCEPT ![c] = Read] \/ seen' = [seen EXCEPT ![c] = None]
    BY <1>2 DEF GetBook, Abandon
  <2>3. \A d \in Conns : seen'[d] # None => seen'[d].lock = lock
    BY <2>2 DEF TypeOK, Read
  <2> QED
    BY <2>1, <2>3 DEF SoleInv, ClosedPeriodStaysClosed, Undisturbed
<1>3. ASSUME NEW c \in Conns, NEW e \in AuditRow, Committed(c, e)
      PROVE  SoleInv'
  <2>n. PICK n : n = Len(audit) + 1
    OBVIOUS
  <2>1. /\ Len(audit) \in Nat
        /\ DOMAIN audit = 1..Len(audit)
        /\ DOMAIN audit' = 1..n
        /\ Len(audit') = n
        /\ \A i \in DOMAIN audit : audit'[i] = audit[i]
        /\ audit'[n] = e
        /\ n = Len(audit) + 1
    BY <1>3, <2>n DEF Committed, TypeOK
  <2>2. \A d \in Conns : seen'[d] = None
    BY <1>3 DEF Committed, TypeOK
  <2>3. seen[c].lock = lock /\ Effect(c, e)
    BY <1>3 DEF SoleInv, Committed
  <2>4. lock \in Nat /\ lock' \in Nat
    BY MaxDateAssumption DEF TypeOK, LockDates, Dates, NoLock
  <2>5. e.action \in {"close", "reopen", "lock_date"} => e.lock \in Nat
    BY MaxDateAssumption DEF AuditRow, LockDates, Dates, NoLock
  <2>6. ASSUME NEW i \in DOMAIN audit, audit[i].action = "close"
        PROVE  audit[i].lock \in Nat
    <3>1. audit[i] \in AuditRow
      BY <2>1 DEF TypeOK
    <3> QED
      BY <2>6, <3>1, MaxDateAssumption DEF AuditRow, LockDates, Dates, NoLock
  <2>7. /\ e.action \in Verbs => lock' = lock
        /\ e.action \in {"create", "archive"} => lock' = lock
        /\ e.action = "close" => e.lock > lock /\ lock' = e.lock
    BY <2>3 DEF Effect, Verbs
  <2>8. e.action \in Verbs \cup {"create", "archive", "close", "reopen", "lock_date"}
    BY <2>3 DEF Effect
  <2>9. ASSUME NEW i \in DOMAIN audit', audit'[i].action = "close", Undisturbed(i, n)'
        PROVE  audit'[i].lock <= lock'
    <3>1. CASE i = n
      BY <2>1, <2>4, <2>7, <2>9, <3>1
    <3>2. CASE i \in DOMAIN audit
      <4>1. audit[i].action = "close" /\ Undisturbed(i, Len(audit))
        BY <2>1, <2>9, <3>2 DEF Undisturbed
      <4>2. audit[i].lock <= lock
        BY <4>1, <3>2 DEF SoleInv
      <4>3. e.action \notin {"reopen", "lock_date"}
        BY <2>1, <2>9, <3>2 DEF Undisturbed
      <4> QED
        BY <2>1, <2>4, <2>6, <2>7, <2>8, <3>2, <4>1, <4>2, <4>3 DEF Verbs
    <3> QED
      BY <2>1, <3>1, <3>2
  <2>10. /\ journals \in Seq(JournalRow)
         /\ \A k \in DOMAIN journals : k \in DOMAIN journals' /\ journals'[k] = journals[k]
    <3>1. journals \in Seq(JournalRow)
      BY DEF TypeOK
    <3>2. journals' = journals \/ \E new \in JournalRow : journals' = Append(journals, new)
      BY <2>3 DEF Effect
    <3> QED
      BY <3>1, <3>2
  <2>11. e.action \in Verbs =>
            /\ e.journal \in DOMAIN journals'
            /\ journals'[e.journal].date > lock
    BY <2>3, <2>10 DEF Effect, Verbs
  <2>12. ASSUME NEW i \in DOMAIN audit', audit'[i].action \in Verbs
         PROVE  audit'[i].journal \in DOMAIN journals'
    BY <2>1, <2>10, <2>11, <2>12 DEF SoleInv
  <2>13. ASSUME NEW i \in DOMAIN audit', NEW j \in DOMAIN audit', i < j,
                audit'[i].action = "close", audit'[j].action \in Verbs,
                Undisturbed(i, j - 1)'
         PROVE  journals'[audit'[j].journal].date > audit'[i].lock
    <3>0. i \in DOMAIN audit /\ audit'[i] = audit[i]
      BY <2>1, <2>13
    <3>1. CASE j \in DOMAIN audit
      <4>1. /\ audit[i].action = "close"
            /\ audit[j].action \in Verbs
            /\ Undisturbed(i, j - 1)
        BY <2>1, <2>13, <3>0, <3>1 DEF Undisturbed
      <4>2. journals[audit[j].journal].date > audit[i].lock
        BY <2>13, <3>0, <3>1, <4>1 DEF SoleInv, ClosedPeriodStaysClosed, Undisturbed, Verbs
      <4>3. audit[j].journal \in DOMAIN journals
        BY <3>1, <4>1 DEF SoleInv
      <4> QED
        BY <2>1, <2>10, <3>0, <3>1, <4>2, <4>3
    <3>2. CASE j = n
      <4>1. Undisturbed(i, Len(audit))
        BY <2>1, <2>13, <3>2 DEF Undisturbed
      <4>2. audit[i].lock <= lock
        BY <2>13, <3>0, <4>1 DEF SoleInv
      <4>3. journals'[e.journal].date > lock /\ e.journal \in DOMAIN journals'
        BY <2>1, <2>11, <2>13, <3>2
      <4>4. journals'[e.journal].date \in Nat
        <5>1. journals'[e.journal] \in JournalRow
          BY <4>3 DEF TypeOK
        <5> QED
          BY <5>1 DEF JournalRow, Dates
      <4> QED
        BY <2>1, <2>4, <2>6, <2>13, <3>0, <3>2, <4>2, <4>3, <4>4
    <3> QED
      BY <2>1, <3>1, <3>2
  <2>14. ClosedPeriodStaysClosed'
    <3> SUFFICES ASSUME NEW i \in DOMAIN audit', NEW j \in DOMAIN audit', i < j,
                        audit'[i].action = "close", audit'[j].action \in Verbs,
                        Undisturbed(i, j - 1)'
                 PROVE  journals'[audit'[j].journal].date > audit'[i].lock
      BY DEF ClosedPeriodStaysClosed, Undisturbed, Verbs
    <3> QED
      BY <2>13
  <2> QED
    <3>1. \A d \in Conns : seen'[d] # None => seen'[d].lock = lock'
      BY <2>2
    <3>2. ASSUME NEW i \in DOMAIN audit', audit'[i].action = "close",
                 Undisturbed(i, Len(audit))'
          PROVE  audit'[i].lock <= lock'
      <4>1. Undisturbed(i, n)'
        BY <2>1, <3>2 DEF Undisturbed
      <4> QED
        BY <2>9, <3>2, <4>1
    <3> QED
      BY <3>1, <3>2, <2>12, <2>14 DEF SoleInv
<1> QED
  BY <1>1, <1>2, <1>3, StepsAreCommits

\* With a single connection, a committed close refuses every later posting on or
\* before its date until somebody reopens the period or sets the lock date.
THEOREM OneProcessKeepsPeriodsClosed ==
    ASSUME \A c, d \in Conns : c = d
    PROVE  Spec => []ClosedPeriodStaysClosed
<1>1. Init => SoleInv
  BY DEF Init, SoleInv, ClosedPeriodStaysClosed
<1>2. TypeOK /\ TypeOK' /\ SoleInv /\ [Next]_vars => SoleInv'
  BY SoleStep
<1>3. SoleInv => ClosedPeriodStaysClosed
  BY DEF SoleInv
<1> QED
  BY <1>1, <1>2, <1>3, LedgerTypeOK, PTL DEF Spec

\* Over all the accounts, well-formed lines move nothing in any currency.
LEMMA LinesNetToNothing ==
    ASSUME NEW lines \in Seq(Line), WellFormed(lines), NEW c \in Currencies
    PROVE  Total([a \in Accounts |-> Move(lines, a, c)]) = 0
<1> DEFINE D == DOMAIN lines
           m == [p \in Accounts \X D |-> LineMove(lines, p[1], c, p[2])]
           net == [i \in D |-> Total([a \in Accounts |-> m[a, i]])]
           moves == [a \in Accounts |-> Move(lines, a, c)]
           debit == [i \in D |-> IF lines[i].ccy = c THEN lines[i].debit ELSE 0]
           credit == [i \in D |-> IF lines[i].ccy = c THEN lines[i].credit ELSE 0]
<1>1. /\ IsFiniteSet(D)
      /\ IsFiniteSet(Accounts)
      /\ \A i \in D : /\ lines[i].coa \in Accounts
                      /\ lines[i].debit \in Int
                      /\ lines[i].credit \in Int
  BY LinesAreFinite, AccountsAssumption
<1>2. IsTable(m, Accounts, D)
  BY <1>1 DEF IsTable, LineMove
<1>3. \A a \in Accounts, i \in D : m[a, i] = LineMove(lines, a, c, i)
  OBVIOUS
<1> HIDE DEF m, D
<1>4. DOMAIN net = D /\ \A i \in D : net[i] = Total(ColumnOf(m, Accounts, i))
  BY DEF ColumnOf
<1>5. DOMAIN moves = Accounts /\ \A a \in Accounts : moves[a] = Total(RowOf(m, D, a))
  <2>1. ASSUME NEW a \in Accounts
        PROVE  RowOf(m, D, a) = [i \in DOMAIN lines |-> LineMove(lines, a, c, i)]
    BY <1>3 DEF RowOf, D
  <2> QED
    BY <2>1 DEF Move
<1>6. ASSUME NEW i \in D
      PROVE  /\ debit[i] = net[i] + credit[i]
             /\ net[i] \in Int
             /\ credit[i] \in Int
  <2> DEFINE col == [a \in Accounts |-> m[a, i]]
             x == lines[i].coa
  <2>1. /\ DOMAIN col = Accounts
        /\ x \in Accounts
        /\ \A a \in Accounts : a # x => col[a] = 0
        /\ col[x] = IF lines[i].ccy = c THEN lines[i].debit - lines[i].credit ELSE 0
    BY <1>1, <1>3 DEF LineMove
  <2> HIDE DEF x
  <2>2. lines[i].debit \in Int /\ lines[i].credit \in Int
    BY <1>1
  <2> HIDE DEF col
  <2>3. Total(col) = col[x]
    <3>1. col[x] \in Int
      BY <2>1, <2>2
    <3> QED
      BY <1>1, <2>1, <3>1, TotalSpike
  <2>4. net[i] = Total(col)
    BY DEF col
  <2>5. /\ debit[i] = IF lines[i].ccy = c THEN lines[i].debit ELSE 0
        /\ credit[i] = IF lines[i].ccy = c THEN lines[i].credit ELSE 0
    OBVIOUS
  <2> HIDE DEF net, debit, credit
  <2> QED
    BY <2>1, <2>2, <2>3, <2>4, <2>5
<1>7. DOMAIN debit = D /\ DOMAIN credit = D /\ DOMAIN net = D
  OBVIOUS
<1> HIDE DEF net
<1>8. Total(debit) = DebitTotal(lines, c) /\ Total(credit) = CreditTotal(lines, c)
  BY DEF DebitTotal, CreditTotal, D
<1> HIDE DEF debit, credit
<1>9. Total(debit) = Total(net) + Total(credit)
  BY <1>1, <1>6, <1>7, TotalPlus
<1>10. Total(debit) = Total(credit)
  BY <1>8 DEF WellFormed, BalancesPerCurrency
<1>11. Total(net) \in Int /\ Total(credit) \in Int
  BY <1>1, <1>6, <1>7, TotalInt
<1>12. Total(net) = 0
  BY <1>9, <1>10, <1>11
<1>13. Total(moves) = Total(net)
  <2>1. AddsRows(moves, m, Accounts, D)
    BY <1>5 DEF AddsRows
  <2>2. AddsColumns(net, m, Accounts, D)
    BY <1>4 DEF AddsColumns
  <2> HIDE DEF moves, net
  <2> QED
    BY <1>1, <1>2, <2>1, <2>2, TotalSwap
<1> QED
  BY <1>12, <1>13

-----------------------------------------------------------------------------
(***************************************************************************)
(* Every journal in the book is balanced, so every trial balance is.       *)
(***************************************************************************)
JournalsBalance == \A k \in DOMAIN journals : WellFormed(journals[k].lines)

LEMMA BalanceStep ==
    ASSUME JournalsOK, JournalsBalance, [Next]_vars
    PROVE  JournalsBalance'
<1>1. CASE journals' = journals
  BY <1>1 DEF JournalsBalance, WellFormed, BalancesPerCurrency, DebitTotal, CreditTotal, OneSided
<1>2. ASSUME NEW new, Admitted(new), journals' = Append(journals, new)
      PROVE  JournalsBalance'
  <2>1. \A k \in DOMAIN journals' :
           \/ k \in DOMAIN journals /\ journals'[k] = journals[k]
           \/ journals'[k] = new
    BY <1>2, AppendedJournal
  <2>2. WellFormed(new.lines)
    BY <1>2 DEF Admitted
  <2>3. \A k \in DOMAIN journals' : WellFormed(journals'[k].lines)
    BY <2>1, <2>2 DEF JournalsBalance
  <2> QED
    BY <2>3 DEF JournalsBalance
<1> QED
  BY <1>1, <1>2, JournalsGrow

LEMMA JournalsAlwaysBalance == Spec => []JournalsBalance
<1>1. Init => JournalsBalance
  BY DEF Init, JournalsBalance
<1>2. TypeOK /\ JournalsBalance /\ [Next]_vars => JournalsBalance'
  BY BalanceStep DEF TypeOK, JournalsOK
<1> QED
  BY <1>1, <1>2, LedgerTypeOK, PTL DEF Spec

\* close_period's trial balance never fails: debits equal credits at every date
\* and in every currency, whatever was posted and reversed before.
THEOREM BooksBalance == Spec => []BooksBalanceAtEveryDate
<1>1. JournalsBalance => BooksBalanceAtEveryDate
  <2> SUFFICES ASSUME JournalsBalance, NEW d \in Dates, NEW c \in Currencies
               PROVE  LET upTo == {k \in DOMAIN journals : journals[k].date <= d}
                      IN  Total([k \in upTo |-> DebitTotal(journals[k].lines, c)])
                            = Total([k \in upTo |-> CreditTotal(journals[k].lines, c)])
    BY DEF BooksBalanceAtEveryDate, BalancedAsOf
  <2> DEFINE upTo == {k \in DOMAIN journals : journals[k].date <= d}
  <2>1. ASSUME NEW k \in upTo
        PROVE  DebitTotal(journals[k].lines, c) = CreditTotal(journals[k].lines, c)
    BY DEF JournalsBalance, WellFormed, BalancesPerCurrency
  <2> HIDE DEF upTo
  <2>2. [k \in upTo |-> DebitTotal(journals[k].lines, c)]
          = [k \in upTo |-> CreditTotal(journals[k].lines, c)]
    BY <2>1
  <2> QED
    BY <2>2 DEF upTo
<1> QED
  BY <1>1, JournalsAlwaysBalance, PTL

-----------------------------------------------------------------------------
(***************************************************************************)
(* The ledger implements the book.                                         *)
(***************************************************************************)
\* What the book keeps of a journal.
MoveIn(lines, c) == [a \in Accounts |-> Move(lines, a, c)]
MoveOf(lines) == [c \in Currencies |-> MoveIn(lines, c)]
Entry(row) == [effect |-> MoveOf(row.lines), cancels |-> row.reversal_of]
Entries == [effect : [Currencies -> [Accounts -> Int]], cancels : Nat]
BookEntries ==
    [k \in DOMAIN journals |->
        [effect  |-> [c \in Currencies |-> [a \in Accounts |-> NetOf(journals, {k}, a, c)]],
         cancels |-> journals[k].reversal_of]]

LEMMA EntryTyped ==
    ASSUME NEW row \in JournalRow
    PROVE  Entry(row) \in Entries
<1>1. row.lines \in Seq(Line) /\ row.reversal_of \in Nat
  BY DEF JournalRow
<1>2. ASSUME NEW c \in Currencies
      PROVE  MoveIn(row.lines, c) \in [Accounts -> Int]
  BY <1>1, MoveIsInt DEF MoveIn
<1>3. MoveOf(row.lines) \in [Currencies -> [Accounts -> Int]]
  BY <1>2 DEF MoveOf
<1> QED
  BY <1>1, <1>3 DEF Entry, Entries

LEMMA EntriesOfJournals ==
    ASSUME JournalsOK
    PROVE  /\ BookEntries = [k \in DOMAIN journals |-> Entry(journals[k])]
           /\ BookEntries \in Seq(Entries)
           /\ Len(BookEntries) = Len(journals)
<1>1. \A k \in DOMAIN journals : journals[k] \in JournalRow /\ journals[k].lines \in Seq(Line)
  BY JournalRowsTyped
<1>2. ASSUME NEW k \in DOMAIN journals
      PROVE  [c \in Currencies |-> [a \in Accounts |-> NetOf(journals, {k}, a, c)]]
               = MoveOf(journals[k].lines)
  <2>1. ASSUME NEW c \in Currencies
        PROVE  [a \in Accounts |-> NetOf(journals, {k}, a, c)] = MoveIn(journals[k].lines, c)
    <3>1. ASSUME NEW a \in Accounts
          PROVE  NetOf(journals, {k}, a, c) = Move(journals[k].lines, a, c)
      BY <1>1, NetOfOne
    <3> QED
      BY <3>1 DEF MoveIn
  <2> QED
    BY <2>1 DEF MoveOf
<1>3. BookEntries = [k \in DOMAIN journals |-> Entry(journals[k])]
  <2>1. ASSUME NEW k \in DOMAIN journals
        PROVE  BookEntries[k] = Entry(journals[k])
    <3>1. BookEntries[k] =
            [effect  |-> [c \in Currencies |-> [a \in Accounts |-> NetOf(journals, {k}, a, c)]],
             cancels |-> journals[k].reversal_of]
      BY DEF BookEntries
    <3> QED
      BY <1>2, <3>1 DEF Entry
  <2>2. BookEntries = [k \in DOMAIN journals |-> BookEntries[k]]
    BY DEF BookEntries
  <2> QED
    BY <2>1, <2>2
<1>4. DOMAIN journals = 1..Len(journals) /\ Len(journals) \in Nat
  BY DEF JournalsOK
<1>5. \A k \in DOMAIN journals : Entry(journals[k]) \in Entries
  BY <1>1, EntryTyped
<1> HIDE DEF Entry
<1> QED
  BY <1>3, <1>4, <1>5

LEMMA AppendedEntry ==
    ASSUME JournalsOK, JournalsOK', NEW new \in JournalRow, journals' = Append(journals, new)
    PROVE  BookEntries' = Append(BookEntries, Entry(new))
<1> DEFINE n == Len(journals)
<1>1. /\ n \in Nat
      /\ DOMAIN journals = 1..n
      /\ DOMAIN journals' = 1..(n + 1)
      /\ \A k \in DOMAIN journals : journals'[k] = journals[k]
      /\ journals'[n + 1] = new
  BY AppendedJournal
<1>2. /\ BookEntries = [k \in DOMAIN journals |-> Entry(journals[k])]
      /\ BookEntries \in Seq(Entries)
      /\ Len(BookEntries) = n
  BY EntriesOfJournals
<1>3. BookEntries' = [k \in 1..(n + 1) |-> Entry(journals'[k])]
  <2>1. (JournalsOK => BookEntries = [k \in DOMAIN journals |-> Entry(journals[k])])'
    BY EntriesOfJournals, PTL
  <2> HIDE DEF Entry
  <2>2. BookEntries' = [k \in DOMAIN journals' |-> Entry(journals'[k])]
    BY <2>1
  <2> QED
    BY <1>1, <2>2
<1>4. Entry(new) \in Entries
  BY EntryTyped
<1> HIDE DEF n, Entry
<1>5. \A k \in 1..n : BookEntries[k] = Entry(journals'[k])
  BY <1>1, <1>2
<1> QED
  BY <1>1, <1>2, <1>3, <1>4, <1>5

\* A journal of its own is recorded, and a reversal cancels what it reverses.
LEMMA EntryNets ==
    ASSUME NEW new \in JournalRow, WellFormed(new.lines), NEW c \in Currencies
    PROVE  Total(Entry(new).effect[c]) = 0
<1>1. new.lines \in Seq(Line)
  BY DEF JournalRow
<1>2. Entry(new).effect[c] = [a \in Accounts |-> Move(new.lines, a, c)]
  BY DEF Entry, MoveOf, MoveIn
<1>3. Total([a \in Accounts |-> Move(new.lines, a, c)]) = 0
  BY <1>1, LinesNetToNothing
<1> QED
  BY <1>2, <1>3

LEMMA ReversalIsOpposite ==
    ASSUME JournalsOK, NEW k \in DOMAIN journals,
           NEW new, new.lines = Flip(journals[k].lines)
    PROVE  Entry(new).effect
             = [c \in Currencies |-> [a \in Accounts |-> -BookEntries[k].effect[c][a]]]
<1>1. journals[k].lines \in Seq(Line)
  BY JournalRowsTyped
<1>2. BookEntries[k] = Entry(journals[k])
  BY EntriesOfJournals
<1>3. \A c \in Currencies, a \in Accounts :
         BookEntries[k].effect[c][a] = Move(journals[k].lines, a, c)
  BY <1>2 DEF Entry, MoveOf, MoveIn
<1>4. \A c \in Currencies, a \in Accounts :
         Move(new.lines, a, c) = -BookEntries[k].effect[c][a]
  BY <1>1, <1>3, FlipMovesBack
<1>5. \A c \in Currencies :
         MoveIn(new.lines, c) = [a \in Accounts |-> -BookEntries[k].effect[c][a]]
  BY <1>4 DEF MoveIn
<1> QED
  BY <1>5 DEF Entry, MoveOf

LEMMA BookTotals == \A f : ImplementedBook!Total(f) = Total(f)
BY DEF ImplementedBook!Total, Total, ImplementedBook!FoldFunction, FoldFunction,
       ImplementedBook!FoldFunctionOnSet, FoldFunctionOnSet,
       ImplementedBook!MapThenFoldSet, MapThenFoldSet

LEMMA BookStep ==
    ASSUME JournalsOK, JournalsOK', [Next]_vars
    PROVE  ImplementedBook!Next \/ BookEntries' = BookEntries
<1>1. CASE journals' = journals
  BY <1>1 DEF BookEntries, NetOf
<1>2. ASSUME NEW new, Admitted(new), journals' = Append(journals, new)
      PROVE  ImplementedBook!Next
  <2>1. new \in JournalRow /\ WellFormed(new.lines)
    BY <1>2 DEF Admitted
  <2>2. BookEntries' = Append(BookEntries, Entry(new)) /\ Entry(new) \in Entries
    BY <1>2, <2>1, AppendedEntry, EntryTyped
  <2>3. BookEntries \in Seq(Entries) /\ DOMAIN BookEntries = DOMAIN journals
    BY EntriesOfJournals
  <2>4. /\ Len(BookEntries') > Len(BookEntries)
        /\ BookEntries'[Len(BookEntries')] = Entry(new)
    BY <2>2, <2>3
  <2>5. CASE new.reversal_of = 0
    <3>1. Entry(new).cancels = 0
      BY <2>5 DEF Entry
    <3>2. \A c \in Currencies : ImplementedBook!Total(Entry(new).effect[c]) = 0
      BY <2>1, EntryNets, BookTotals
    <3>3. ImplementedBook!Grown = Entry(new)
      BY <2>4 DEF ImplementedBook!Grown, BookEntries
    <3>4. ImplementedBook!Record(ImplementedBook!Grown)
      BY <2>2, <3>1, <3>2, <3>3 DEF ImplementedBook!Record, ImplementedBook!Nets, BookEntries
    <3> QED
      BY <2>4, <3>4 DEF ImplementedBook!Next, BookEntries
  <2>6. CASE /\ new.reversal_of \in DOMAIN journals
             /\ ~IsReversed(journals, new.reversal_of)
             /\ new.lines = Flip(journals[new.reversal_of].lines)
    <3> DEFINE k == new.reversal_of
    <3>1. \A j \in DOMAIN BookEntries : BookEntries[j].cancels # k
      BY <2>3, <2>6 DEF IsReversed, ReversalsOf, BookEntries
    <3>2. Entry(new) =
            [effect  |-> [c \in Currencies |-> [a \in Accounts |-> -BookEntries[k].effect[c][a]]],
             cancels |-> k]
      BY <2>6, ReversalIsOpposite DEF Entry
    <3>3. ImplementedBook!Cancel(k)
      BY <2>2, <3>1, <3>2 DEF ImplementedBook!Cancel, BookEntries
    <3> QED
      BY <2>3, <2>6, <3>3 DEF ImplementedBook!Next, BookEntries
  <2> QED
    BY <1>2, <2>5, <2>6 DEF Admitted
<1> QED
  BY <1>1, <1>2, JournalsGrow

\* The ledger of journals, with its connections, dates, locks and audit log, is
\* an implementation of the book of balanced entries that are only ever added
\* and at most once cancelled: every commit is one step of the book or none.
THEOREM LedgerImplementsBook == Spec => ImplementsBook
<1>1. Init => BookEntries = <<>>
  BY DEF Init, BookEntries
<1>2. JournalsOK /\ JournalsOK' /\ [Next]_vars => ImplementedBook!Next \/ BookEntries' = BookEntries
  BY BookStep
<1>3. TypeOK => JournalsOK
  BY DEF TypeOK, JournalsOK
<1>4. Init => ImplementedBook!Init
  BY <1>1 DEF ImplementedBook!Init, BookEntries
<1>5. JournalsOK /\ JournalsOK' /\ [Next]_vars
        => [ImplementedBook!Next]_BookEntries
  BY <1>2
<1> QED
  BY <1>3, <1>4, <1>5, LedgerTypeOK, PTL DEF Spec, ImplementsBook, ImplementedBook!Spec, BookEntries

-----------------------------------------------------------------------------
(***************************************************************************)
(* The reversal chain.  Both walks of it lead forward, from a journal to   *)
(* its reversal, so they are settled from the last journal down.           *)
(***************************************************************************)
LEMMA FromTheLast ==
    ASSUME NEW n \in Nat, NEW Good, n + 1 \in Good,
           \A k \in 1..n : k + 1 \in Good => k \in Good
    PROVE  1..(n + 1) \subseteq Good
<1> DEFINE B == {d \in Nat : d <= n /\ n + 1 - d \notin Good}
<1> SUFFICES ASSUME B # {} PROVE FALSE
  <2>1. ASSUME NEW k \in 1..(n + 1), k \notin Good
        PROVE  n + 1 - k \in B
    <3>1. n + 1 - k \in Nat /\ n + 1 - k <= n /\ n + 1 - (n + 1 - k) = k
      OBVIOUS
    <3> QED
      BY <2>1, <3>1
  <2> QED
    BY <2>1
<1>1. PICK d \in B : \A e \in B : <<e, d>> \notin OpToRel(<, Nat)
  <2>1. B \in SUBSET Nat
    OBVIOUS
  <2> HIDE DEF B
  <2> QED
    BY <2>1, NatLessThanWellFounded, WFMin
<1>2. d \in Nat /\ d <= n /\ n + 1 - d \notin Good /\ d # 0
  <2>1. d \in Nat /\ d <= n /\ n + 1 - d \notin Good
    BY <1>1
  <2>2. n + 1 - 0 = n + 1
    OBVIOUS
  <2>3. d # 0
    BY <2>1, <2>2
  <2> QED
    BY <2>1, <2>3
<1>3. d - 1 \in Nat /\ d - 1 <= n /\ d - 1 < d
  BY <1>2
<1>4. d - 1 \notin B
  BY <1>1, <1>2, <1>3 DEF OpToRel
<1>5. n + 1 - (d - 1) \in Good
  BY <1>3, <1>4
<1>6. n + 1 - d \in 1..n /\ n + 1 - (d - 1) = (n + 1 - d) + 1
  BY <1>2
<1> QED
  BY <1>2, <1>5, <1>6

LEMMA ReversalLeadsForward ==
    ASSUME JournalsOK, ReversalsFormChains,
           NEW k \in DOMAIN journals, IsReversed(journals, k)
    PROVE  /\ ReversalOf(journals, k) \in DOMAIN journals
           /\ ReversalOf(journals, k) > k
           /\ journals[ReversalOf(journals, k)].lines = Flip(journals[k].lines)
<1> DEFINE r == ReversalOf(journals, k)
<1>1. r \in DOMAIN journals /\ journals[r].reversal_of = k
  BY DEF IsReversed, ReversalOf, ReversalsOf
<1>2. k \in Nat \ {0} /\ r \in Nat
  BY <1>1 DEF JournalsOK
<1> HIDE DEF r
<1>3. k < r /\ journals[r].lines = Flip(journals[k].lines)
  BY <1>1, <1>2 DEF ReversalsFormChains
<1> QED
  BY <1>1, <1>2, <1>3 DEF r

\* is_net_reversed one journal at a time.
CancelsOf(f) ==
    f = [i \in DOMAIN journals |->
            IsReversed(journals, i) /\ ~f[ReversalOf(journals, i)]]

LEMMA CancelsExist ==
    ASSUME JournalsOK, ReversalsFormChains
    PROVE  \E f : CancelsOf(f)
<1> DEFINE n == Len(journals)
           D == DOMAIN journals
           Right(f, i) == f[i] = (IsReversed(journals, i) /\ ~f[ReversalOf(journals, i)])
           Good == {k \in 1..(n + 1) : \E f \in [D -> BOOLEAN] : \A i \in k..n : Right(f, i)}
<1>1. D = 1..n /\ n \in Nat
  BY DEF JournalsOK
<1>2. n + 1 \in Good
  <2> DEFINE f == [i \in D |-> TRUE]
  <2>1. f \in [D -> BOOLEAN]
    OBVIOUS
  <2>2. (n + 1)..n = {} /\ n + 1 \in 1..(n + 1)
    BY <1>1
  <2>3. \A i \in (n + 1)..n : Right(f, i)
    BY <2>2
  <2> HIDE DEF f, Right
  <2> QED
    BY <2>1, <2>2, <2>3
<1>3. ASSUME NEW k \in 1..n, k + 1 \in Good
      PROVE  k \in Good
  <2>1. PICK f \in [D -> BOOLEAN] : \A i \in (k + 1)..n : Right(f, i)
    BY <1>3
  <2> DEFINE v == IsReversed(journals, k) /\ ~f[ReversalOf(journals, k)]
             g == [f EXCEPT ![k] = v]
  <2>2. g \in [D -> BOOLEAN]
    BY <1>1
  <2>3. g[k] = v /\ \A i \in D : i # k => g[i] = f[i]
    BY <1>1
  <2> HIDE DEF g
  <2>4. ASSUME NEW i \in k..n
        PROVE  Right(g, i)
    <3>1. i \in D /\ i \in Nat /\ i >= k
      BY <1>1
    <3>2. IsReversed(journals, i) =>
             /\ ReversalOf(journals, i) \in D
             /\ ReversalOf(journals, i) # k
      BY <1>1, <3>1, ReversalLeadsForward
    <3>3. IsReversed(journals, i) =>
             g[ReversalOf(journals, i)] = f[ReversalOf(journals, i)]
      BY <2>3, <3>2
    <3>4. CASE i = k
      BY <2>3, <3>3, <3>4
    <3>5. CASE i # k
      <4>1. i \in (k + 1)..n
        BY <1>1, <3>1, <3>5
      <4>2. g[i] = f[i] /\ Right(f, i)
        BY <2>1, <2>3, <3>1, <3>5, <4>1
      <4> QED
        BY <3>3, <4>2
    <3> QED
      BY <3>4, <3>5
  <2> HIDE DEF Right
  <2>5. k \in 1..(n + 1)
    BY <1>1
  <2> QED
    BY <2>2, <2>4, <2>5
<1>4. 1 \in Good
  <2>1. 1..(n + 1) \subseteq Good
    <3> HIDE DEF Good, n
    <3> QED
      BY <1>1, <1>2, <1>3, FromTheLast
  <2> HIDE DEF Good
  <2> QED
    BY <1>1, <2>1
<1>5. PICK f \in [D -> BOOLEAN] : \A i \in 1..n : Right(f, i)
  BY <1>4
<1>6. f = [i \in D |-> f[i]] /\ \A i \in D : Right(f, i)
  BY <1>1, <1>5
<1>7. f = [i \in D |-> IsReversed(journals, i) /\ ~f[ReversalOf(journals, i)]]
  BY <1>6
<1> QED
  BY <1>7 DEF CancelsOf

LEMMA NetReversedUnfolds ==
    ASSUME JournalsOK, ReversalsFormChains, NEW k \in DOMAIN journals
    PROVE  IsNetReversed(journals, k)
             <=> /\ IsReversed(journals, k)
                 /\ ~IsNetReversed(journals, ReversalOf(journals, k))
<1> DEFINE f == CHOOSE g : CancelsOf(g)
<1>1. CancelsOf(f)
  BY CancelsExist
<1>2. \A i : IsNetReversed(journals, i) <=> IsReversed(journals, i) /\ ~f[ReversalOf(journals, i)]
  BY DEF IsNetReversed, CancelsOf
<1> HIDE DEF f
<1>3. \A i \in DOMAIN journals : f[i] = (IsReversed(journals, i) /\ ~f[ReversalOf(journals, i)])
  BY <1>1 DEF CancelsOf
<1>4. IsReversed(journals, k) => ReversalOf(journals, k) \in DOMAIN journals
  BY ReversalLeadsForward
<1>5. \A i \in DOMAIN journals : IsNetReversed(journals, i) <=> f[i]
  BY <1>2, <1>3
<1> QED
  BY <1>2, <1>4, <1>5

\* The chain one journal at a time.
ChainsOf(f) ==
    f = [i \in DOMAIN journals |->
            {i} \cup (IF IsReversed(journals, i) THEN f[ReversalOf(journals, i)] ELSE {})]

LEMMA ChainsExist ==
    ASSUME JournalsOK, ReversalsFormChains
    PROVE  \E f : ChainsOf(f)
<1> DEFINE n == Len(journals)
           D == DOMAIN journals
           Onward(f, i) == {i} \cup (IF IsReversed(journals, i) THEN f[ReversalOf(journals, i)] ELSE {})
           Right(f, i) == f[i] = Onward(f, i)
           Good == {k \in 1..(n + 1) :
                       \E f : DOMAIN f = D /\ f = [i \in D |-> f[i]] /\ \A i \in k..n : Right(f, i)}
<1>1. D = 1..n /\ n \in Nat
  BY DEF JournalsOK
<1>2. n + 1 \in Good
  <2> DEFINE f == [i \in D |-> {}]
  <2>1. DOMAIN f = D /\ f = [i \in D |-> f[i]]
    OBVIOUS
  <2>2. (n + 1)..n = {}
    BY <1>1
  <2> HIDE DEF f
  <2> QED
    BY <1>1, <2>1, <2>2
<1>3. ASSUME NEW k \in 1..n, k + 1 \in Good
      PROVE  k \in Good
  <2>1. PICK f : /\ DOMAIN f = D
                 /\ f = [i \in D |-> f[i]]
                 /\ \A i \in (k + 1)..n : Right(f, i)
    BY <1>3
  <2> DEFINE v == Onward(f, k)
             g == [i \in D |-> IF i = k THEN v ELSE f[i]]
  <2>2. DOMAIN g = D /\ g = [i \in D |-> g[i]]
    BY <1>1
  <2>3. g[k] = v /\ \A i \in D : i # k => g[i] = f[i]
    BY <1>1
  <2> HIDE DEF g
  <2>4. ASSUME NEW i \in k..n
        PROVE  Right(g, i)
    <3>1. i \in D /\ i \in Nat /\ i >= k
      BY <1>1
    <3>2. IsReversed(journals, i) =>
             /\ ReversalOf(journals, i) \in D
             /\ ReversalOf(journals, i) # k
      BY <1>1, <3>1, ReversalLeadsForward
    <3>3. Onward(g, i) = Onward(f, i)
      BY <2>3, <3>2
    <3>4. CASE i = k
      BY <2>3, <3>3, <3>4
    <3>5. CASE i # k
      <4>1. i \in (k + 1)..n
        BY <1>1, <3>1, <3>5
      <4>2. g[i] = f[i] /\ Right(f, i)
        BY <2>1, <2>3, <3>1, <3>5, <4>1
      <4> QED
        BY <3>3, <4>2
    <3> QED
      BY <3>4, <3>5
  <2> HIDE DEF Right
  <2>5. k \in 1..(n + 1)
    BY <1>1
  <2> QED
    BY <2>2, <2>4, <2>5
<1>4. 1 \in Good
  <2>1. 1..(n + 1) \subseteq Good
    <3> HIDE DEF Good, n
    <3> QED
      BY <1>1, <1>2, <1>3, FromTheLast
  <2> HIDE DEF Good
  <2> QED
    BY <1>1, <2>1
<1>5. PICK f : /\ DOMAIN f = D
               /\ f = [i \in D |-> f[i]]
               /\ \A i \in 1..n : Right(f, i)
  BY <1>4
<1>6. f = [i \in D |-> Onward(f, i)]
  BY <1>1, <1>5
<1> QED
  BY <1>6 DEF ChainsOf

LEMMA ChainUnfolds ==
    ASSUME JournalsOK, ReversalsFormChains, NEW k \in DOMAIN journals
    PROVE  ChainOn(journals, k)
             = {k} \cup (IF IsReversed(journals, k)
                         THEN ChainOn(journals, ReversalOf(journals, k)) ELSE {})
<1> DEFINE f == CHOOSE g : ChainsOf(g)
<1>1. ChainsOf(f)
  BY ChainsExist
<1>2. \A i : ChainOn(journals, i) = f[i]
  BY DEF ChainOn, ChainsOf
<1> HIDE DEF f
<1>3. f[k] = {k} \cup (IF IsReversed(journals, k) THEN f[ReversalOf(journals, k)] ELSE {})
  BY <1>1 DEF ChainsOf
<1> QED
  BY <1>2, <1>3

\* What is_net_reversed answers is what the chain on a journal moves.
ChainTellsTruth(k) ==
    /\ ChainOn(journals, k) \subseteq k..Len(journals)
    /\ \A a \in Accounts, c \in Currencies :
           NetOf(journals, ChainOn(journals, k), a, c)
             = IF IsNetReversed(journals, k) THEN 0 ELSE Move(journals[k].lines, a, c)

LEMMA ChainsTellTruth ==
    ASSUME JournalsOK, ReversalsFormChains
    PROVE  \A k \in DOMAIN journals : ChainTellsTruth(k)
<1> DEFINE n == Len(journals)
           Good == {k \in 1..(n + 1) : \A i \in k..n : ChainTellsTruth(i)}
<1>1. DOMAIN journals = 1..n /\ n \in Nat
  BY DEF JournalsOK
<1>2. n + 1 \in Good
  <2>1. (n + 1)..n = {} /\ n + 1 \in 1..(n + 1)
    BY <1>1
  <2> QED
    BY <2>1
<1>3. \A k \in DOMAIN journals : journals[k].lines \in Seq(Line)
  BY JournalRowsTyped
<1>4. ASSUME NEW k \in 1..n, \A i \in (k + 1)..n : ChainTellsTruth(i)
      PROVE  ChainTellsTruth(k)
  <2> DEFINE r == ReversalOf(journals, k)
             chain == ChainOn(journals, r)
  <2>0. k \in DOMAIN journals
    BY <1>1
  <2>1. CASE ~IsReversed(journals, k)
    <3>1. ChainOn(journals, k) = {k} /\ ~IsNetReversed(journals, k)
      BY <2>0, <2>1, ChainUnfolds, NetReversedUnfolds
    <3>2. \A a \in Accounts, c \in Currencies :
             NetOf(journals, {k}, a, c) = Move(journals[k].lines, a, c)
      BY <1>3, <2>0, NetOfOne
    <3>3. {k} \subseteq k..n
      BY <1>1
    <3> QED
      BY <3>1, <3>2, <3>3 DEF ChainTellsTruth
  <2>2. CASE IsReversed(journals, k)
    <3>1. /\ r \in DOMAIN journals
          /\ r > k
          /\ journals[r].lines = Flip(journals[k].lines)
      BY <2>0, <2>2, ReversalLeadsForward
    <3>2. ChainOn(journals, k) = {k} \cup chain
      BY <2>0, <2>2, ChainUnfolds
    <3>3. IsNetReversed(journals, k) <=> ~IsNetReversed(journals, r)
      BY <2>0, <2>2, NetReversedUnfolds
    <3>4. ChainTellsTruth(r)
      BY <1>1, <1>4, <3>1
    <3> HIDE DEF r
    <3>5. chain \subseteq r..n
      BY <3>4 DEF ChainTellsTruth
    <3> HIDE DEF chain
    <3>6. k \notin chain /\ {k} \cup chain \subseteq k..n /\ chain \subseteq DOMAIN journals
      BY <1>1, <3>1, <3>5
    <3>7. IsFiniteSet(chain)
      <4>1. IsFiniteSet(1..n)
        BY <1>1, FS_Interval
      <4> QED
        BY <1>1, <3>6, <4>1, FS_Subset
    <3>8. ASSUME NEW a \in Accounts, NEW c \in Currencies
          PROVE  NetOf(journals, {k} \cup chain, a, c)
                   = IF IsNetReversed(journals, k) THEN 0 ELSE Move(journals[k].lines, a, c)
      <4>1. \A i \in chain \cup {k} : journals[i].lines \in Seq(Line)
        BY <1>3, <2>0, <3>6
      <4>2. NetOf(journals, {k} \cup chain, a, c)
              = Move(journals[k].lines, a, c) + NetOf(journals, chain, a, c)
        BY <3>6, <3>7, <4>1, NetOfMore
      <4>3. NetOf(journals, chain, a, c)
              = IF IsNetReversed(journals, r) THEN 0 ELSE Move(journals[r].lines, a, c)
        BY <3>4 DEF ChainTellsTruth, chain
      <4>4. journals[k].lines \in Seq(Line)
        BY <1>3, <2>0
      <4>5. /\ Move(journals[r].lines, a, c) = -Move(journals[k].lines, a, c)
            /\ Move(journals[k].lines, a, c) \in Int
        BY <3>1, <4>4, FlipMovesBack, MoveIsInt
      <4> QED
        BY <3>3, <4>2, <4>3, <4>5
    <3> QED
      BY <3>2, <3>6, <3>8 DEF ChainTellsTruth
  <2> QED
    BY <2>1, <2>2
<1>5. ASSUME NEW k \in 1..n, k + 1 \in Good
      PROVE  k \in Good
  <2>1. \A i \in (k + 1)..n : ChainTellsTruth(i)
    BY <1>5
  <2>2. ChainTellsTruth(k)
    BY <1>4, <2>1
  <2>3. \A i \in k..n : i = k \/ i \in (k + 1)..n
    BY <1>1
  <2>4. k \in 1..(n + 1)
    BY <1>1
  <2> HIDE DEF n
  <2> QED
    BY <2>1, <2>2, <2>3, <2>4
<1>6. 1..(n + 1) \subseteq Good
  <2> HIDE DEF Good, n
  <2> QED
    BY <1>1, <1>2, <1>5, FromTheLast
<1>7. 1 \in Good
  <2> HIDE DEF Good
  <2> QED
    BY <1>1, <1>6
<1> QED
  BY <1>1, <1>7

\* is_net_reversed never disagrees with the money: however long the chain of
\* reversals on a journal, the journals of the chain move on every account and in
\* every currency exactly nothing or exactly what the journal itself moves.
THEOREM ReversalParity == Spec => []ReversalParityIsLedgerEffect
<1>1. JournalsOK /\ ReversalsFormChains => ReversalParityIsLedgerEffect
  <2> SUFFICES ASSUME JournalsOK, ReversalsFormChains,
                      NEW k \in DOMAIN journals, NEW a \in Accounts, NEW c \in Currencies
               PROVE  NetOf(journals, ChainOn(journals, k), a, c)
                        = IF IsNetReversed(journals, k) THEN 0
                          ELSE NetOf(journals, {k}, a, c)
    BY DEF ReversalParityIsLedgerEffect
  <2>1. journals[k].lines \in Seq(Line)
    BY JournalRowsTyped
  <2>2. NetOf(journals, {k}, a, c) = Move(journals[k].lines, a, c)
    BY <2>1, NetOfOne
  <2> QED
    BY <2>2, ChainsTellTruth DEF ChainTellsTruth
<1>2. TypeOK => JournalsOK
  BY DEF TypeOK, JournalsOK
<1> QED
  BY <1>1, <1>2, LedgerTypeOK, ReversalChains, PTL
=============================================================================
