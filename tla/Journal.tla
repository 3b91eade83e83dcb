------------------------------- MODULE Journal -------------------------------
(***************************************************************************)
(* Journals as values: what one line is, when a list of lines may be       *)
(* posted, what its reversal is, and how the reversal chain on top of a    *)
(* journal decides whether the journal still counts.                       *)
(*                                                                         *)
(* A journal's id is its position in the ledger, a sequence that is only   *)
(* ever appended to; the position 0 stands for "no journal".               *)
(***************************************************************************)
EXTENDS Sums, Sequences, FiniteSets

CONSTANTS Accounts,    \* chart-of-accounts entries a line can name
          Currencies,  \* normalised ISO codes
          Sources,     \* (source_type, source_id) pairs a journal is generated from
          Manual,      \* the source of a hand-posted journal or of a reversal
          AnyCurrency, \* the fixed currency of an account that has none
          FixedTo,     \* chart_of_accounts.currency of each account
          MaxLineMinor \* MAX_LINE_AMOUNT_MINOR, scaled to the instance

ASSUME AccountsAssumption == IsFiniteSet(Accounts)
ASSUME ManualAssumption == Manual \notin Sources
ASSUME FixedToAssumption == FixedTo \in [Accounts -> Currencies \cup {AnyCurrency}]
ASSUME MaxLineAssumption == MaxLineMinor \in Nat

(***************************************************************************)
(* A line as a caller submits it: any two amounts.  What may be stored is  *)
(* narrower (OneSided).                                                    *)
(***************************************************************************)
Line == [coa : Accounts, debit : Int, credit : Int, ccy : Currencies]

DebitTotal(lines, c) ==
    Total([i \in DOMAIN lines |-> IF lines[i].ccy = c THEN lines[i].debit ELSE 0])

CreditTotal(lines, c) ==
    Total([i \in DOMAIN lines |-> IF lines[i].ccy = c THEN lines[i].credit ELSE 0])

\* Exactly one side is positive, and it is within the per-line bound.
OneSided(line) ==
    \/ line.debit = 0 /\ line.credit \in 1..MaxLineMinor
    \/ line.credit = 0 /\ line.debit \in 1..MaxLineMinor

\* Mutation of BalancesPerCurrency: one grand total over all the currencies.
BalancesInTotal(lines) ==
    Total([i \in DOMAIN lines |-> lines[i].debit]) = Total([i \in DOMAIN lines |-> lines[i].credit])

\* Debits equal credits in each currency on its own: no implicit conversion.
BalancesPerCurrency(lines) ==
    \A c \in Currencies : DebitTotal(lines, c) = CreditTotal(lines, c)

\* The checks on the lines that read nothing but the lines.
WellFormed(lines) ==
    /\ Len(lines) >= 2
    /\ \A i \in DOMAIN lines : OneSided(lines[i])
    /\ BalancesPerCurrency(lines)

\* Mutation of Postable: an archived account is as good as an open one.
PostableOnAny(lines, coa) ==
    \A i \in DOMAIN lines :
        /\ coa[lines[i].coa] # "absent"
        /\ FixedTo[lines[i].coa] \in {AnyCurrency, lines[i].ccy}

\* The checks on the lines that read the chart of accounts: an account of
\* this book, not archived, and in its fixed currency when it has one.
Postable(lines, coa) ==
    \A i \in DOMAIN lines :
        /\ coa[lines[i].coa] = "open"
        /\ FixedTo[lines[i].coa] \in {AnyCurrency, lines[i].ccy}

\* Mutation of Flip: the lines are copied as they are.
Copy(lines) == lines

\* The lines of a reversal: every line with its sides swapped.
Flip(lines) ==
    [i \in DOMAIN lines |->
        [coa |-> lines[i].coa, debit |-> lines[i].credit,
         credit |-> lines[i].debit, ccy |-> lines[i].ccy]]

-----------------------------------------------------------------------------
(***************************************************************************)
(* The reversal chain.  find_reversal looks the reversal of a journal up;  *)
(* is_net_reversed walks the chain of reversals upward and returns its     *)
(* parity.                                                                 *)
(***************************************************************************)
ReversalsOf(js, k) == {r \in DOMAIN js : js[r].reversal_of = k}

IsReversed(js, k) == ReversalsOf(js, k) # {}

ReversalOf(js, k) == CHOOSE r \in ReversalsOf(js, k) : TRUE

\* Mutation of IsNetReversed: reversed once is reversed for good.
EverReversed(js, k) == IsReversed(js, k)

IsNetReversed(js, k) ==
    LET cancelled[i \in DOMAIN js] ==
            IsReversed(js, i) /\ ~cancelled[ReversalOf(js, i)]
    IN  IsReversed(js, k) /\ ~cancelled[ReversalOf(js, k)]

\* A journal and the reversals stacked on it.
ChainOn(js, k) ==
    LET chain[i \in DOMAIN js] ==
            {i} \cup (IF IsReversed(js, i) THEN chain[ReversalOf(js, i)] ELSE {})
    IN  chain[k]

\* Net debit of one account in one currency over a set of journals.
NetOf(js, K, a, c) ==
    Total([k \in K |->
        Total([i \in DOMAIN js[k].lines |->
            IF js[k].lines[i].coa = a /\ js[k].lines[i].ccy = c
            THEN js[k].lines[i].debit - js[k].lines[i].credit
            ELSE 0])])
=============================================================================
