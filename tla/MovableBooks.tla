----------------------------- MODULE MovableBooks -----------------------------
(***************************************************************************)
(* What moving the data folder promises, without files, locks, logs,       *)
(* journals or the ways a move can die: there is one book, it is in one    *)
(* folder, its users add to it, and now and then it is somewhere else, in  *)
(* one step.  A move leaves its mark, the audit row of the copy, and keeps *)
(* every change.  Where it does not, because the log of an attempt that    *)
(* died got into the copy, the book shows it: it bears the mark of that    *)
(* attempt too.                                                            *)
(***************************************************************************)
CONSTANTS Folders, Home,
          Commits, Marks     \* the changes users make; the marks of attempts

VARIABLES where, books

Init == where = Home /\ books = {}

Commit ==
    /\ \E c \in Commits \ books : books' = books \cup {c}
    /\ UNCHANGED where

\* Whoever found the new folder before the move was over may already have written there.
Move(to) ==
    /\ to # where /\ where' = to
    /\ \E own \in Marks \ books :
           /\ books \cup {own} \subseteq books'
           /\ books' \subseteq books \cup {own} \cup Commits

Spoil(to) ==
    /\ to # where /\ where' = to
    /\ \E own, dead \in Marks \ books : own # dead /\ {own, dead} \subseteq books'

Next ==
    \/ Commit
    \/ \E to \in Folders : Move(to) \/ Spoil(to)

Spec == Init /\ [][Next]_<<where, books>>
=============================================================================
