------------------------------- MODULE Members -------------------------------
(***************************************************************************)
(* The members of a book: the people its transactions are attributed to,   *)
(* how a transaction is split between them, and the operations they hold.  *)
(* The `member_*`, `transaction_attribute` and `transaction_split_set`     *)
(* calls of CoreService, over the members, transaction_splits and          *)
(* member_capabilities tables and the attribution column of transactions.  *)
(*                                                                         *)
(* Every call reads and validates first and opens its transaction later;   *)
(* transaction_create alone reads inside its transaction.  Initials,       *)
(* colours and audit rows are left out.  A member's devices are left out   *)
(* too: nothing in the code pairs a device to a member.                    *)
(***************************************************************************)
EXTENDS Connections, Sums, FiniteSets

CONSTANTS MaxMembers,  \* how many members are ever added
          Labels,      \* names people are given
          OwnedBy,    \* accounts of the book
          Spending,    \* transactions the book may record
          AmountOf,    \* [Spending -> Int]: signed amount, in minor units
          AccountOf,   \* [Spending -> OwnedBy]
          Operations   \* what a capability may permit

Persons == 1 .. MaxMembers

Row == [label : Labels, status : {"active", "revoked"}, principal : BOOLEAN,
        account : OwnedBy \cup {None}]

ASSUME MembersAssumption ==
    /\ MaxMembers \in Nat
    /\ None \notin Row
    /\ AmountOf \in [Spending -> Int]

VARIABLES hired,       \* ids given so far, in order of creation; none is given twice
          members,     \* [Persons -> None or the row]
          booked,      \* the transactions recorded so far
          attributed,  \* [Spending -> None or a person]
          shares,      \* [Spending -> [the people it is split between -> minor units]]
          capabilities \* <<person, operation>> rows

memberVars == <<hired, members, booked, attributed, shares, capabilities>>

NoSplit == [p \in {} |-> 0]

Known(p) == p \in Persons /\ members[p] # None
People == {p \in Persons : Known(p)}

Magnitude(t) == IF AmountOf[t] < 0 THEN -AmountOf[t] ELSE AmountOf[t]

\* What transaction_split_set lets through: no share, or positive ones that make the whole.
SplitsOf(t) ==
    {NoSplit} \cup UNION {{split \in [who -> 1 .. Magnitude(t)] : Total(split) = Magnitude(t)} :
                          who \in SUBSET People \ {{}}}

MembersTypeOK ==
    /\ hired \in 0 .. MaxMembers
    /\ \A p \in Persons : Known(p) => p <= hired /\ members[p] \in Row
    /\ booked \subseteq Spending
    /\ \A t \in Spending :
           /\ attributed[t] = None \/ Known(attributed[t])
           /\ DOMAIN shares[t] \subseteq People
    /\ capabilities \subseteq People \X Operations

MembersInit ==
    /\ hired = 0
    /\ members = [p \in Persons |-> None]
    /\ booked = {}
    /\ attributed = [t \in Spending |-> None]
    /\ shares = [t \in Spending |-> NoSplit]
    /\ capabilities = {}

\* The partial unique index: one active member of a label.
LabelTaken(label, except) ==
    \E p \in People \ {except} : members[p].status = "active" /\ members[p].label = label

-----------------------------------------------------------------------------
(* Adding, renaming and revoking a member.                                 *)

AddRead(c, label, account) ==
    /\ Read(c, [job |-> "add", label |-> label, account |-> account])
    /\ UNCHANGED memberVars

Add(c) ==
    /\ Doing(c, "add")
    /\ ~LabelTaken(seen[c].label, None)
    /\ hired < MaxMembers
    /\ hired' = hired + 1
    /\ members' = [members EXCEPT ![hired'] =
                       [label |-> seen[c].label, status |-> "active", principal |-> FALSE,
                        account |-> seen[c].account]]
    /\ Done(c)
    /\ UNCHANGED <<booked, attributed, shares, capabilities>>

UpdateRead(c, p, label, account) ==
    /\ Known(p)
    /\ Read(c, [job |-> "update", who |-> p, label |-> label, account |-> account])
    /\ UNCHANGED memberVars

\* The statement names the columns it writes: status and principal are not among them.
Update(c) ==
    LET s == seen[c]
    IN  /\ Doing(c, "update")
        /\ Known(s.who) /\ members[s.who].status = "active" => ~LabelTaken(s.label, s.who)
        /\ members' = [p \in Persons |->
                           IF p = s.who /\ Known(p)
                           THEN [members[p] EXCEPT !.label = s.label, !.account = s.account]
                           ELSE members[p]]
        /\ Done(c)
        /\ UNCHANGED <<hired, booked, attributed, shares, capabilities>>

RevokeRead(c, p) ==
    /\ Known(p) /\ members[p].status = "active"
    /\ Read(c, [job |-> "revoke", who |-> p])
    /\ UNCHANGED memberVars

Revoke(c) ==
    /\ Doing(c, "revoke")
    /\ members' = [p \in Persons |-> IF p = seen[c].who /\ Known(p)
                                     THEN [members[p] EXCEPT !.status = "revoked"]
                                     ELSE members[p]]
    /\ Done(c)
    /\ UNCHANGED <<hired, booked, attributed, shares, capabilities>>

-----------------------------------------------------------------------------
(* Removing a member.  What they carry moves to the reassignment target.   *)

HasAttributions(p) == \E t \in Spending : attributed[t] = p \/ p \in DOMAIN shares[t]

\* As if nobody asked what a member carries.
RemoveReadUnasked(c, p, to) ==
    /\ Known(p) /\ ~members[p].principal
    /\ to # None => to # p /\ Known(to)
    /\ Read(c, [job |-> "remove", who |-> p, to |-> to])
    /\ UNCHANGED memberVars

RemoveRead(c, p, to) ==
    /\ Known(p) /\ ~members[p].principal
    /\ IF to = None THEN ~HasAttributions(p) ELSE to # p /\ Known(to)
    /\ Read(c, [job |-> "remove", who |-> p, to |-> to])
    /\ UNCHANGED memberVars

\* As if the shares were left with whoever is removed.
LeftBehind(split, from, to) == split

\* As if a moved share replaced the target's own.
ReassignedOver(split, from, to) ==
    IF from \notin DOMAIN split THEN split
    ELSE [p \in (DOMAIN split \ {from}) \cup {to} |-> IF p = to THEN split[from] ELSE split[p]]

\* A share moved onto one the target already holds is added to it.
Reassigned(split, from, to) ==
    IF from \notin DOMAIN split THEN split
    ELSE [p \in (DOMAIN split \ {from}) \cup {to} |->
              (IF p \in DOMAIN split THEN split[p] ELSE 0)
              + (IF p = to THEN split[from] ELSE 0)]

\* Foreign keys: what is moved needs a target that is still there; deleting a member is
\* refused while a share is theirs, clears the attributions left and drops their
\* capabilities.
RemoveMember(c) ==
    LET s == seen[c]
    IN  /\ Doing(c, "remove")
        /\ IF s.to = None THEN \A t \in Spending : s.who \notin DOMAIN shares[t]
                          ELSE Known(s.to) \/ ~HasAttributions(s.who)
        /\ members' = [members EXCEPT ![s.who] = None]
        /\ attributed' = [t \in Spending |-> IF attributed[t] = s.who THEN s.to
                                                                      ELSE attributed[t]]
        /\ shares' = [t \in Spending |-> Reassigned(shares[t], s.who, s.to)]
        /\ capabilities' = {g \in capabilities : g[1] # s.who}
        /\ Done(c)
        /\ UNCHANGED <<hired, booked>>

-----------------------------------------------------------------------------
(* Capabilities.  The first grant makes a member a principal, for good.    *)

GrantRead(c, p, operation) ==
    /\ Known(p) /\ members[p].status = "active"
    /\ <<p, operation>> \notin capabilities
    /\ Read(c, [job |-> "grant", who |-> p, operation |-> operation,
                principal |-> members[p].principal])
    /\ UNCHANGED memberVars

Grant(c) ==
    LET s == seen[c]
    IN  /\ Doing(c, "grant")
        /\ Known(s.who) /\ <<s.who, s.operation>> \notin capabilities
        /\ capabilities' = capabilities \cup {<<s.who, s.operation>>}
        /\ members' = IF s.principal THEN members
                                     ELSE [members EXCEPT ![s.who].principal = TRUE]
        /\ Done(c)
        /\ UNCHANGED <<hired, booked, attributed, shares>>

UngrantRead(c, p, operation) ==
    /\ <<p, operation>> \in capabilities
    /\ Read(c, [job |-> "ungrant", who |-> p, operation |-> operation])
    /\ UNCHANGED memberVars

Ungrant(c) ==
    /\ Doing(c, "ungrant")
    /\ capabilities' = capabilities \ {<<seen[c].who, seen[c].operation>>}
    /\ Done(c)
    /\ UNCHANGED <<hired, members, booked, attributed, shares>>

-----------------------------------------------------------------------------
(* Whose spending a transaction is.                                        *)

\* The owner of a transaction's account: of several, the first one added.
DefaultOwner(t) ==
    LET owners == {p \in People : members[p].account = AccountOf[t]}
    IN  IF owners = {} THEN None ELSE CHOOSE p \in owners : \A q \in owners : p <= q

CreateTransaction(c, t) ==
    /\ c \in team /\ Idle(c)
    /\ t \notin booked
    /\ booked' = booked \cup {t}
    /\ attributed' = [attributed EXCEPT ![t] = DefaultOwner(t)]
    /\ UNCHANGED <<connVars, hired, members, shares, capabilities>>

AttributeRead(c, t, p) ==
    /\ t \in booked
    /\ p # None => Known(p)
    /\ Read(c, [job |-> "attribute", txn |-> t, to |-> p])
    /\ UNCHANGED memberVars

Attribute(c) ==
    /\ Doing(c, "attribute")
    /\ seen[c].to # None => Known(seen[c].to)
    /\ attributed' = [attributed EXCEPT ![seen[c].txn] = seen[c].to]
    /\ Done(c)
    /\ UNCHANGED <<hired, members, booked, shares, capabilities>>

SplitRead(c, t, split) ==
    /\ t \in booked
    /\ Read(c, [job |-> "split", txn |-> t, split |-> split])
    /\ UNCHANGED memberVars

Split(c) ==
    /\ Doing(c, "split")
    /\ DOMAIN seen[c].split \subseteq People
    /\ shares' = [shares EXCEPT ![seen[c].txn] = seen[c].split]
    /\ Done(c)
    /\ UNCHANGED <<hired, members, booked, attributed, capabilities>>

-----------------------------------------------------------------------------
MemberCalls(c) ==
    /\ Free
    /\ \/ \E label \in Labels, account \in OwnedBy \cup {None} :
              \/ AddRead(c, label, account)
              \/ \E p \in People : UpdateRead(c, p, label, account)
       \/ \E p \in People :
              \/ RevokeRead(c, p)
              \/ \E to \in People \cup {None} : RemoveRead(c, p, to)
              \/ \E operation \in Operations : GrantRead(c, p, operation)
                                               \/ UngrantRead(c, p, operation)
       \/ \E t \in Spending :
              \/ CreateTransaction(c, t)
              \/ \E p \in People \cup {None} : AttributeRead(c, t, p)
              \/ \E split \in SplitsOf(t) : SplitRead(c, t, split)

MembersNext ==
    \E c \in team :
        \/ MemberCalls(c)
        \/ Add(c) \/ Update(c) \/ Revoke(c) \/ RemoveMember(c) \/ Grant(c) \/ Ungrant(c)
        \/ Attribute(c) \/ Split(c)
        \/ Abandon(c) /\ UNCHANGED memberVars

MembersSpec == ConnInit /\ MembersInit /\ [][MembersNext]_<<connVars, memberVars>>

-----------------------------------------------------------------------------
\* A transaction that is split at all is split without rest: through reassignments that
\* fold two shares into one, members removed and splits replaced, by one process or by
\* several, the shares make the transaction's absolute amount ("the only invariant the
\* splits table has to satisfy").
SplitsCoverTheirTransaction ==
    \A t \in Spending : DOMAIN shares[t] # {} => Total(shares[t]) = Magnitude(t)

\* Removing a member loses no history: whoever disappears was never a principal, and no
\* transaction that was theirs, whole or in part, is left to nobody (member_remove).
HistoryIsKept ==
    [][Alone => \A p \in People : members'[p] = None =>
           /\ ~members[p].principal
           /\ \A o \in Operations : <<p, o>> \notin capabilities
           /\ \A t \in Spending :
                  /\ attributed[t] = p => attributed'[t] \notin {None, p}
                  /\ p \in DOMAIN shares[t] => DOMAIN shares'[t] # {}
      ]_<<connVars, memberVars>>
=============================================================================
