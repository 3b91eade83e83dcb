------------------------------- MODULE NetWorth -------------------------------
(***************************************************************************)
(* Net worth over time: balance snapshots of a book's accounts, captured   *)
(* for a date or reconstructed from the transactions, and the series read  *)
(* from them.  A snapshot is a row nothing may change; a transaction, once *)
(* booked, is never changed either, but may be booked for any past day.    *)
(*                                                                         *)
(* Only what counts is kept of a transaction: its day and its amount in    *)
(* the account's own currency; rejected ones and those in another currency *)
(* count nowhere.  Converting a series to the book's currency is left out. *)
(***************************************************************************)
EXTENDS Connections, Sums, FiniteSetsExt

CONSTANTS Holdings,   \* accounts of the book
          OpeningOf,  \* [Holdings -> Int]: opening balances
          Days,       \* days, as numbers in order
          Amounts,    \* signed amounts a transaction may have
          MaxBookings \* how many transactions are ever booked

ASSUME WorthAssumption ==
    /\ Days \subseteq Int /\ IsFiniteSet(Days)
    /\ OpeningOf \in [Holdings -> Int]
    /\ Amounts \subseteq Int /\ MaxBookings \in Nat
    /\ None \notin Int

VARIABLES opened,    \* accounts of the book
          erased,    \* accounts deleted again
          bookings,  \* how many transactions were booked
          movements, \* [Holdings -> [Days -> None or the day's transactions, summed]]
          snapshots, \* [Holdings -> [Days -> None or the balance on record]]
          outdated,  \* <<account, day>> whose snapshot a later booking made wrong
          filled     \* nothing was booked since the last backfill

worthVars == <<opened, erased, bookings, movements, snapshots, outdated, filled>>

Slots == Holdings \X Days

MovedOn(a) == {d \in Days : movements[a][d] # None}
SumOver(a, days) == Total([d \in days |-> movements[a][d]])

\* balance_as_of: the opening balance and every movement up to the end of the day.
Balance(a, day) == SumOver(a, {d \in MovedOn(a) : d <= day}) + OpeningOf[a]

WorthTypeOK ==
    /\ opened \subseteq Holdings \ erased
    /\ bookings \in 0 .. MaxBookings
    /\ \A s \in Slots : /\ movements[s[1]][s[2]] \in Int \cup {None}
                        /\ snapshots[s[1]][s[2]] \in Int \cup {None}
    /\ outdated \subseteq Slots
    /\ filled \in BOOLEAN

WorthInit ==
    /\ opened = {}
    /\ erased = {}
    /\ bookings = 0
    /\ movements = [a \in Holdings |-> [d \in Days |-> None]]
    /\ snapshots = [a \in Holdings |-> [d \in Days |-> None]]
    /\ outdated = {}
    /\ filled = FALSE

OpenAccount(c, a) ==
    /\ c \in team /\ Free /\ Idle(c)
    /\ a \notin opened \cup erased
    /\ opened' = opened \cup {a}
    /\ UNCHANGED <<connVars, erased, bookings, movements, snapshots, outdated, filled>>

\* Foreign keys refuse it once the account has moved or has a snapshot.
DeleteAccount(c, a) ==
    /\ c \in team /\ Free /\ Idle(c)
    /\ a \in opened
    /\ \A d \in Days : movements[a][d] = None /\ snapshots[a][d] = None
    /\ opened' = opened \ {a}
    /\ erased' = erased \cup {a}
    /\ UNCHANGED <<connVars, bookings, movements, snapshots, outdated, filled>>

Book(c, a, day, amount) ==
    /\ c \in team /\ Free /\ Idle(c)
    /\ a \in opened
    /\ bookings < MaxBookings
    /\ bookings' = bookings + 1
    /\ movements' = [movements EXCEPT ![a][day] = (IF @ = None THEN 0 ELSE @) + amount]
    /\ outdated' = outdated \cup {<<a, d>> : d \in {e \in Days : e >= day
                                                             /\ snapshots[a][e] # None}}
    /\ filled' = FALSE
    /\ UNCHANGED <<connVars, opened, erased, snapshots>>

\* Both calls list the accounts before their transaction.
CaptureRead(c, day) ==
    /\ Read(c, [job |-> "capture", day |-> day, accounts |-> opened])
    /\ UNCHANGED worthVars

\* An account that has a snapshot of that day keeps it; one that is gone fails the call.
Capture(c) ==
    LET day == seen[c].day
    IN  /\ Doing(c, "capture")
        /\ seen[c].accounts \subseteq opened
        /\ snapshots' = [a \in Holdings |->
               IF a \in seen[c].accounts /\ snapshots[a][day] = None
               THEN [snapshots[a] EXCEPT ![day] = Balance(a, day)]
               ELSE snapshots[a]]
        /\ Done(c)
        /\ UNCHANGED <<opened, erased, bookings, movements, outdated, filled>>

BackfillRead(c) ==
    /\ Read(c, [job |-> "backfill", accounts |-> opened])
    /\ UNCHANGED worthVars

\* As if a day's own movements were taken off as well.
WalkedPast(a, day) ==
    (OpeningOf[a] + SumOver(a, MovedOn(a))) - SumOver(a, {d \in MovedOn(a) : d >= day})

\* The walk starts from today's total and takes off each later day's movements.
WalkedBack(a, day) ==
    (OpeningOf[a] + SumOver(a, MovedOn(a))) - SumOver(a, {d \in MovedOn(a) : d > day})

\* Every day with a movement and no snapshot yet gets one.
Backfill(c) ==
    /\ Doing(c, "backfill")
    /\ snapshots' = [a \in Holdings |-> [d \in Days |->
           IF a \in seen[c].accounts /\ movements[a][d] # None /\ snapshots[a][d] = None
           THEN WalkedBack(a, d) ELSE snapshots[a][d]]]
    /\ filled' = (opened \subseteq seen[c].accounts)
    /\ Done(c)
    /\ UNCHANGED <<opened, erased, bookings, movements, outdated>>

WorthNext ==
    \E c \in team :
        \/ \E a \in Holdings : \/ OpenAccount(c, a) \/ DeleteAccount(c, a)
                               \/ \E d \in Days, x \in Amounts : Book(c, a, d, x)
        \/ Free /\ (BackfillRead(c) \/ \E d \in Days : CaptureRead(c, d))
        \/ Capture(c) \/ Backfill(c)
        \/ Abandon(c) /\ UNCHANGED worthVars

WorthSpec == ConnInit /\ WorthInit /\ [][WorthNext]_<<connVars, worthVars>>

-----------------------------------------------------------------------------
\* What the series shows of an account at a day: its latest snapshot at or before it.
PointOf(a, day) ==
    LET known == {d \in Days : d <= day /\ snapshots[a][d] # None}
    IN  IF known = {} THEN None ELSE Max(known)

\* Captured or walked back, by one process or by two, a snapshot is the balance the
\* transactions made of the day when it was written, and stays so until one is booked at
\* or before its day.  Once backfilled, the value carried forward is the balance of every
\* day, days without a transaction included, unless it is carried from such a snapshot,
\* and only an account that had not moved yet shows nothing.
SeriesTellsTheLedger ==
    \A a \in opened, day \in Days :
        /\ snapshots[a][day] # None /\ <<a, day>> \notin outdated =>
               snapshots[a][day] = Balance(a, day)
        /\ filled =>
               IF PointOf(a, day) = None THEN Balance(a, day) = OpeningOf[a]
               ELSE <<a, PointOf(a, day)>> \notin outdated =>
                        snapshots[a][PointOf(a, day)] = Balance(a, day)
=============================================================================
