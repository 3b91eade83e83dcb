-------------------------------- MODULE Book ---------------------------------
(***************************************************************************)
(* What the ledger promises, without lines, dates, locks, connections or   *)
(* audit: a book is a list of entries that only grows.  An entry moves an  *)
(* amount in each currency on each account, the amounts of a currency add  *)
(* up to nothing, and the only way to take an entry back is one later entry   *)
(* with the opposite amounts.                                              *)
(***************************************************************************)
EXTENDS Sums, Sequences

CONSTANTS Accounts, Currencies

VARIABLE entries

Init == entries = <<>>

Nets(effect) ==
    \A c \in Currencies : Total(effect[c]) = 0

\* A balanced entry of its own.
Record(e) ==
    /\ e.cancels = 0
    /\ Nets(e.effect)
    /\ entries' = Append(entries, e)

\* The opposite of entry k, which nothing has cancelled yet.
Cancel(k) ==
    /\ \A j \in DOMAIN entries : entries[j].cancels # k
    /\ entries' = Append(entries,
                     [effect  |-> [c \in Currencies |->
                                      [a \in Accounts |-> -entries[k].effect[c][a]]],
                      cancels |-> k])

Grown == entries'[Len(entries')]

Next ==
    \/ Len(entries') > Len(entries) /\ Record(Grown)
    \/ \E k \in DOMAIN entries : Cancel(k)

Spec == Init /\ [][Next]_entries
=============================================================================
