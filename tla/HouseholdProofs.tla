---------------------------- MODULE HouseholdProofs ----------------------------
(***************************************************************************)
(* What is proved of a household's book: its members, the packs it         *)
(* installs, its net worth and its documents.                              *)
(***************************************************************************)
EXTENDS MCOffice, SumsProofs

-----------------------------------------------------------------------------
(***************************************************************************)
(* What holds of members for any number of people, accounts, transactions  *)
(* and operations, proved: where one process has the book, removing a      *)
(* member loses no history.  A removal reads what the member carries, and  *)
(* writes later; what it read is still so.                                 *)
(***************************************************************************)
RowsTyped ==
    /\ hired \in 0 .. MaxMembers
    /\ members \in [Persons -> Row \cup {None}]
    /\ \A p \in Persons : members[p] # None => p <= hired

CallsTyped ==
    /\ team \in SUBSET Conns
    /\ seen = [c \in Conns |-> seen[c]]
    /\ \A c \in Conns : seen[c] # None =>
           /\ c \in team
           /\ seen[c].job \in {"add", "update"} =>
                  seen[c].label \in Labels /\ seen[c].account \in OwnedBy \cup {None}

\* Whoever may do something is a principal: the first grant made them one.
HoldersArePrincipals ==
    \A g \in capabilities : Known(g[1]) /\ members[g[1]].principal

\* What a call read of the member it is about.
StillSo(c) ==
    /\ seen[c].job = "remove" =>
           /\ Known(seen[c].who) /\ ~members[seen[c].who].principal
           /\ IF seen[c].to = None THEN ~HasAttributions(seen[c].who)
                                   ELSE seen[c].to # seen[c].who
    /\ seen[c].job = "grant" =>
           (seen[c].principal => members[seen[c].who].principal)

\* The inductive invariant.
MemberInv ==
    /\ RowsTyped
    /\ CallsTyped
    /\ Alone => HoldersArePrincipals /\ \A c \in Conns : seen[c] # None => StillSo(c)

\* A call reads while no other of its process is under way, and disturbs no table.
LEMMA ReadKeeps ==
    ASSUME MemberInv, NEW c \in team, NEW call, Free, Read(c, call), UNCHANGED memberVars,
           call.job \in {"add", "update"} =>
               call.label \in Labels /\ call.account \in OwnedBy \cup {None},
           call.job = "remove" =>
               /\ Known(call.who) /\ ~members[call.who].principal
               /\ IF call.to = None THEN ~HasAttributions(call.who) ELSE call.to # call.who,
           call.job = "grant" => (call.principal => members[call.who].principal)
    PROVE  MemberInv'
<1>1. c \in Conns /\ team' = team /\ seen' = [seen EXCEPT ![c] = call] /\ Alone' = Alone
  BY DEF MemberInv, CallsTyped, Read, Alone
<1>2. seen'[c] = call /\ \A d \in Conns : d # c => seen'[d] = seen[d]
  BY <1>1 DEF MemberInv, CallsTyped
<1>3. /\ hired' = hired /\ members' = members /\ attributed' = attributed
      /\ shares' = shares /\ capabilities' = capabilities
  BY DEF memberVars
<1>4. RowsTyped'
  BY <1>3 DEF MemberInv, RowsTyped
<1>5. CallsTyped'
  BY <1>1, <1>2 DEF MemberInv, CallsTyped
<1>6. ASSUME Alone PROVE HoldersArePrincipals'
  BY <1>3, <1>6 DEF MemberInv, HoldersArePrincipals, Known
<1>7. ASSUME Alone, NEW d \in Conns, seen'[d] # None
      PROVE  StillSo(d)'
  <2>1. d = c
    BY <1>2, <1>7 DEF Free, Idle
  <2> QED
    BY <1>2, <1>3, <2>1 DEF StillSo, Known, HasAttributions
<1> QED
  BY <1>1, <1>4, <1>5, <1>6, <1>7 DEF MemberInv

\* A call that ends leaves nothing behind it; of one process, no other is under way.
LEMMA EndKeeps ==
    ASSUME MemberInv, NEW c \in team, Done(c), RowsTyped', Alone => HoldersArePrincipals'
    PROVE  MemberInv'
<1>1. c \in Conns /\ team' = team /\ seen' = [seen EXCEPT ![c] = None] /\ Alone' = Alone
  BY DEF MemberInv, CallsTyped, Done, Keep, Alone
<1>2. seen'[c] = None /\ \A d \in Conns : d # c => seen'[d] = seen[d]
  BY <1>1 DEF MemberInv, CallsTyped
<1>3. CallsTyped'
  BY <1>1, <1>2 DEF MemberInv, CallsTyped
<1>4. Alone => \A d \in Conns : seen'[d] = None
  BY <1>1, <1>2 DEF MemberInv, CallsTyped, Alone
<1> QED
  BY <1>1, <1>3, <1>4 DEF MemberInv

\* A call that is under way, of one process: what it read is still so.
LEMMA UnderWay ==
    ASSUME MemberInv, NEW c \in team, NEW job, Doing(c, job)
    PROVE  c \in Conns /\ seen[c] # None /\ seen[c].job = job /\ (Alone => StillSo(c))
BY DEF MemberInv, CallsTyped, Doing, Idle

LEMMA CallsStep ==
    ASSUME MemberInv, NEW c \in team, MemberCalls(c)
    PROVE  MemberInv'
<1> Free
  BY DEF MemberCalls
<1>1. ASSUME NEW label \in Labels, NEW account \in OwnedBy \cup {None}, AddRead(c, label, account)
      PROVE  MemberInv'
  <2>1. PICK call : call = [job |-> "add", label |-> label, account |-> account]
    OBVIOUS
  <2>2. call.job = "add" /\ call.label = label /\ call.account = account
    BY <2>1
  <2> QED
    BY <1>1, <2>1, <2>2, ReadKeeps DEF AddRead
<1>2. ASSUME NEW p \in People, NEW label \in Labels, NEW account \in OwnedBy \cup {None},
             UpdateRead(c, p, label, account)
      PROVE  MemberInv'
  <2>1. PICK call : call = [job |-> "update", who |-> p, label |-> label, account |-> account]
    OBVIOUS
  <2>2. call.job = "update" /\ call.label = label /\ call.account = account
    BY <2>1
  <2> QED
    BY <1>2, <2>1, <2>2, ReadKeeps DEF UpdateRead
<1>3. ASSUME NEW p \in People, RevokeRead(c, p)
      PROVE  MemberInv'
  <2>1. PICK call : call = [job |-> "revoke", who |-> p]
    OBVIOUS
  <2>2. call.job = "revoke"
    BY <2>1
  <2> QED
    BY <1>3, <2>1, <2>2, ReadKeeps DEF RevokeRead
<1>4. ASSUME NEW p \in People, NEW to \in People \cup {None}, RemoveRead(c, p, to)
      PROVE  MemberInv'
  <2>1. PICK call : call = [job |-> "remove", who |-> p, to |-> to]
    OBVIOUS
  <2>2. call.job = "remove" /\ call.who = p /\ call.to = to
    BY <2>1
  <2>3. Known(p) /\ ~members[p].principal /\ IF to = None THEN ~HasAttributions(p) ELSE to # p
    BY <1>4 DEF RemoveRead
  <2>4. Read(c, call) /\ UNCHANGED memberVars
    BY <1>4, <2>1 DEF RemoveRead
  <2> QED
    BY <2>2, <2>3, <2>4, ReadKeeps
<1>5. ASSUME NEW p \in People, NEW operation \in Operations, GrantRead(c, p, operation)
      PROVE  MemberInv'
  <2>1. PICK call : call = [job |-> "grant", who |-> p, operation |-> operation,
                            principal |-> members[p].principal]
    OBVIOUS
  <2>2. call.job = "grant" /\ call.who = p /\ call.principal = members[p].principal
    BY <2>1
  <2> QED
    BY <1>5, <2>1, <2>2, ReadKeeps DEF GrantRead
<1>6. ASSUME NEW p \in People, NEW operation \in Operations, UngrantRead(c, p, operation)
      PROVE  MemberInv'
  <2>1. PICK call : call = [job |-> "ungrant", who |-> p, operation |-> operation]
    OBVIOUS
  <2>2. call.job = "ungrant"
    BY <2>1
  <2> QED
    BY <1>6, <2>1, <2>2, ReadKeeps DEF UngrantRead
<1>7. ASSUME NEW t \in Spending, CreateTransaction(c, t)
      PROVE  MemberInv'
  <2>1. /\ team' = team /\ seen' = seen /\ Alone' = Alone
        /\ hired' = hired /\ members' = members /\ capabilities' = capabilities
    BY <1>7 DEF CreateTransaction, connVars, Alone
  <2>2. Alone => \A d \in Conns : seen'[d] = None
    BY <2>1 DEF Free, Idle
  <2> QED
    BY <2>1, <2>2 DEF MemberInv, RowsTyped, CallsTyped, HoldersArePrincipals, Known
<1>8. ASSUME NEW t \in Spending, NEW p \in People \cup {None}, AttributeRead(c, t, p)
      PROVE  MemberInv'
  <2>1. PICK call : call = [job |-> "attribute", txn |-> t, to |-> p]
    OBVIOUS
  <2>2. call.job = "attribute"
    BY <2>1
  <2> QED
    BY <1>8, <2>1, <2>2, ReadKeeps DEF AttributeRead
<1>9. ASSUME NEW t \in Spending, NEW split, SplitRead(c, t, split)
      PROVE  MemberInv'
  <2>1. PICK call : call = [job |-> "split", txn |-> t, split |-> split]
    OBVIOUS
  <2>2. call.job = "split"
    BY <2>1
  <2> QED
    BY <1>9, <2>1, <2>2, ReadKeeps DEF SplitRead
<1> QED
  BY <1>1, <1>2, <1>3, <1>4, <1>5, <1>6, <1>7, <1>8, <1>9 DEF MemberCalls

\* Every call that writes keeps the invariant, and only a removal makes a member disappear.
LEMMA WritesStep ==
    ASSUME MemberInv, NEW c \in team,
           \/ Add(c) \/ Update(c) \/ Revoke(c) \/ RemoveMember(c) \/ Grant(c) \/ Ungrant(c)
           \/ Attribute(c) \/ Split(c) \/ (Abandon(c) /\ UNCHANGED memberVars)
    PROVE  MemberInv' /\ (RemoveMember(c) \/ \A p \in People : members'[p] # None)
<1> DEFINE s == seen[c]
<1> USE MembersAssumption
<1>1. c \in Conns
  BY DEF MemberInv, CallsTyped
<1>2. CASE Add(c)
  <2> DEFINE new == hired + 1
             row == [label |-> s.label, status |-> "active", principal |-> FALSE,
                     account |-> s.account]
  <2>1. s.label \in Labels /\ s.account \in OwnedBy \cup {None}
    BY <1>1, <1>2 DEF Add, Doing, Idle, MemberInv, CallsTyped
  <2>2. row \in Row
    BY <2>1 DEF Row
  <2>3. /\ hired < MaxMembers /\ hired' = new /\ members' = [members EXCEPT ![new] = row]
        /\ capabilities' = capabilities
    BY <1>2 DEF Add
  <2>4. /\ hired \in Nat /\ new \in Persons /\ members[new] = None
        /\ members' \in [Persons -> Row \cup {None}] /\ members'[new] = row
        /\ \A p \in Persons : p # new => members'[p] = members[p]
    BY <2>2, <2>3 DEF MemberInv, RowsTyped, Persons
  <2>5. RowsTyped'
    BY <2>3, <2>4 DEF MemberInv, RowsTyped, Persons
  <2>6. Alone => HoldersArePrincipals'
    BY <2>3, <2>4 DEF MemberInv, HoldersArePrincipals, Known
  <2> QED
    BY <1>2, <2>2, <2>4, <2>5, <2>6, EndKeeps DEF Add, People, Known
<1>3. CASE Update(c)
  <2>1. s.label \in Labels /\ s.account \in OwnedBy \cup {None}
    BY <1>1, <1>3 DEF Update, Doing, Idle, MemberInv, CallsTyped
  <2>2. /\ hired' = hired /\ capabilities' = capabilities
        /\ members' = [p \in Persons |->
                          IF p = s.who /\ Known(p)
                          THEN [members[p] EXCEPT !.label = s.label, !.account = s.account]
                          ELSE members[p]]
    BY <1>3 DEF Update
  <2>3. ASSUME NEW p \in Persons
        PROVE  /\ members'[p] \in Row \cup {None}
               /\ (members'[p] = None) <=> (members[p] = None)
               /\ members[p] # None => members'[p].principal = members[p].principal
    <3>1. members[p] # None =>
              [members[p] EXCEPT !.label = s.label, !.account = s.account] \in Row
      BY <2>1 DEF MemberInv, RowsTyped, Row
    <3>2. members[p] # None =>
              [members[p] EXCEPT !.label = s.label, !.account = s.account].principal
                  = members[p].principal
      BY DEF MemberInv, RowsTyped, Row
    <3> QED
      BY <2>2, <3>1, <3>2 DEF MemberInv, RowsTyped, Known
  <2>4. RowsTyped'
    BY <2>2, <2>3 DEF MemberInv, RowsTyped
  <2>5. Alone => HoldersArePrincipals'
    BY <2>2, <2>3 DEF MemberInv, HoldersArePrincipals, Known
  <2> QED
    BY <1>3, <2>3, <2>4, <2>5, EndKeeps DEF Update, People, Known
<1>4. CASE Revoke(c)
  <2>1. /\ hired' = hired /\ capabilities' = capabilities
        /\ members' = [p \in Persons |->
                          IF p = s.who /\ Known(p)
                          THEN [members[p] EXCEPT !.status = "revoked"] ELSE members[p]]
    BY <1>4 DEF Revoke
  <2>2. ASSUME NEW p \in Persons
        PROVE  /\ members'[p] \in Row \cup {None}
               /\ (members'[p] = None) <=> (members[p] = None)
               /\ members[p] # None => members'[p].principal = members[p].principal
    <3>1. members[p] # None =>
              /\ [members[p] EXCEPT !.status = "revoked"] \in Row
              /\ [members[p] EXCEPT !.status = "revoked"].principal = members[p].principal
      BY DEF MemberInv, RowsTyped, Row
    <3> QED
      BY <2>1, <3>1 DEF MemberInv, RowsTyped, Known
  <2>3. RowsTyped'
    BY <2>1, <2>2 DEF MemberInv, RowsTyped
  <2>4. Alone => HoldersArePrincipals'
    BY <2>1, <2>2 DEF MemberInv, HoldersArePrincipals, Known
  <2> QED
    BY <1>4, <2>2, <2>3, <2>4, EndKeeps DEF Revoke, People, Known
<1>5. CASE RemoveMember(c)
  <2>1. /\ hired' = hired /\ members' = [members EXCEPT ![s.who] = None]
        /\ capabilities' = {g \in capabilities : g[1] # s.who}
    BY <1>5 DEF RemoveMember
  <2>2. RowsTyped'
    BY <2>1 DEF MemberInv, RowsTyped
  <2>3. \A p \in Persons : p # s.who => members'[p] = members[p]
    BY <2>1 DEF MemberInv, RowsTyped
  <2>4. Alone => HoldersArePrincipals'
    BY <2>1, <2>3 DEF MemberInv, HoldersArePrincipals, Known
  <2> QED
    BY <1>5, <2>2, <2>4, EndKeeps DEF RemoveMember
<1>6. CASE Grant(c)
  <2>1. /\ hired' = hired /\ capabilities' = capabilities \cup {<<s.who, s.operation>>}
        /\ members' = IF s.principal THEN members
                                     ELSE [members EXCEPT ![s.who].principal = TRUE]
        /\ Known(s.who)
    BY <1>6 DEF Grant
  <2>2. s.who \in Persons /\ members[s.who] \in Row
    BY <2>1 DEF Known, MemberInv, RowsTyped
  <2>3. [members[s.who] EXCEPT !.principal = TRUE] \in Row
    BY <2>2 DEF Row
  <2>4. Alone /\ s.principal => members[s.who].principal
    BY <1>6, UnderWay DEF Grant, StillSo
  <2>5. /\ members' \in [Persons -> Row \cup {None}] /\ members'[s.who] # None
        /\ Alone => members'[s.who].principal
        /\ \A p \in Persons : p # s.who => members'[p] = members[p]
    <3>1. CASE s.principal
      BY <2>1, <2>2, <2>4, <3>1 DEF MemberInv, RowsTyped
    <3>2. CASE ~s.principal
      <4>1. members' = [members EXCEPT ![s.who] = [members[s.who] EXCEPT !.principal = TRUE]]
        BY <2>1, <3>2
      <4>2. [members[s.who] EXCEPT !.principal = TRUE].principal
        BY <2>2 DEF Row
      <4> QED
        BY <2>2, <2>3, <4>1, <4>2 DEF MemberInv, RowsTyped
    <3> QED
      BY <3>1, <3>2
  <2>6. RowsTyped'
    BY <2>1, <2>2, <2>5 DEF MemberInv, RowsTyped
  <2>7. Alone => HoldersArePrincipals'
    BY <2>1, <2>2, <2>5 DEF MemberInv, HoldersArePrincipals, Known
  <2> QED
    BY <1>6, <2>5, <2>6, <2>7, EndKeeps DEF Grant, People, Known
<1>7. CASE Ungrant(c)
  <2>1. hired' = hired /\ members' = members /\ capabilities' \subseteq capabilities
    BY <1>7 DEF Ungrant
  <2> QED
    BY <1>7, <2>1, EndKeeps
       DEF Ungrant, MemberInv, RowsTyped, HoldersArePrincipals, People, Known
<1>8. CASE Attribute(c) \/ Split(c) \/ (Abandon(c) /\ UNCHANGED memberVars)
  <2>1. /\ hired' = hired /\ members' = members /\ capabilities' = capabilities
        /\ Done(c)
    BY <1>8 DEF Attribute, Split, Abandon, memberVars
  <2> QED
    BY <2>1, EndKeeps DEF MemberInv, RowsTyped, HoldersArePrincipals, People, Known
<1> QED
  BY <1>2, <1>3, <1>4, <1>5, <1>6, <1>7, <1>8

LEMMA MembersInitially == ConnInit /\ MembersInit => MemberInv
BY TeamsAssumption, MembersAssumption
   DEF ConnInit, MembersInit, MemberInv, RowsTyped, CallsTyped, HoldersArePrincipals

LEMMA MembersStep == MemberInv /\ [MembersNext]_<<connVars, memberVars>> => MemberInv'
<1>1. CASE UNCHANGED <<connVars, memberVars>>
  BY <1>1 DEF connVars, memberVars, MemberInv, RowsTyped, CallsTyped, HoldersArePrincipals,
              StillSo, Known, HasAttributions, Alone
<1>2. CASE MembersNext
  BY <1>2, CallsStep, WritesStep DEF MembersNext
<1> QED
  BY <1>1, <1>2

\* The invariant holds whatever the members' calls, and whoever makes them.
THEOREM MembersInvariant == MembersSpec => []MemberInv
BY MembersInitially, MembersStep, PTL DEF MembersSpec

\* One process: whoever is removed was never a principal and may do nothing, and what was
\* theirs, whole or in part, has gone to somebody else (service.rs: member_remove).
THEOREM RemovalKeepsHistory == MembersSpec => HistoryIsKept
<1> DEFINE Kept == Alone => \A p \in People : members'[p] = None =>
           /\ ~members[p].principal
           /\ \A o \in Operations : <<p, o>> \notin capabilities
           /\ \A t \in Spending :
                  /\ attributed[t] = p => attributed'[t] \notin {None, p}
                  /\ p \in DOMAIN shares[t] => DOMAIN shares'[t] # {}
<1>1. ASSUME MemberInv, Alone, NEW c \in team, RemoveMember(c), NEW p \in People, members'[p] = None
      PROVE  /\ ~members[p].principal
             /\ \A o \in Operations : <<p, o>> \notin capabilities
             /\ \A t \in Spending :
                    /\ attributed[t] = p => attributed'[t] \notin {None, p}
                    /\ p \in DOMAIN shares[t] => DOMAIN shares'[t] # {}
  <2> DEFINE s == seen[c]
  <2>1. /\ members' = [members EXCEPT ![s.who] = None]
        /\ attributed' = [t \in Spending |-> IF attributed[t] = s.who THEN s.to ELSE attributed[t]]
        /\ shares' = [t \in Spending |-> Reassigned(shares[t], s.who, s.to)]
    BY <1>1 DEF RemoveMember
  <2>2. p = s.who
    BY <1>1, <2>1 DEF MemberInv, RowsTyped, People, Known
  <2>3. /\ ~members[p].principal
        /\ IF s.to = None THEN ~HasAttributions(p) ELSE s.to # p
    BY <1>1, <2>2, UnderWay DEF RemoveMember, StillSo
  <2>4. \A o \in Operations : <<p, o>> \notin capabilities
    BY <1>1, <2>3 DEF MemberInv, HoldersArePrincipals
  <2>5. ASSUME NEW t \in Spending, attributed[t] = p
        PROVE  attributed'[t] \notin {None, p}
    <3>1. HasAttributions(p)
      BY <2>5 DEF HasAttributions
    <3> QED
      BY <2>1, <2>2, <2>3, <2>5, <3>1
  <2>6. ASSUME NEW t \in Spending, p \in DOMAIN shares[t]
        PROVE  DOMAIN shares'[t] # {}
    <3>1. shares'[t] = Reassigned(shares[t], p, s.to)
      BY <2>1, <2>2
    <3>2. DOMAIN Reassigned(shares[t], p, s.to) = (DOMAIN shares[t] \ {p}) \cup {s.to}
      BY <2>6 DEF Reassigned
    <3> QED
      BY <3>1, <3>2
  <2> QED
    BY <2>3, <2>4, <2>5, <2>6
<1>2. MemberInv /\ [MembersNext]_<<connVars, memberVars>> => [Kept]_<<connVars, memberVars>>
  <2> SUFFICES ASSUME MemberInv, MembersNext, Alone, NEW p \in People, members'[p] = None
               PROVE  \E c \in team : RemoveMember(c)
    BY <1>1
  <2>1. PICK c \in team :
            \/ MemberCalls(c)
            \/ Add(c) \/ Update(c) \/ Revoke(c) \/ RemoveMember(c) \/ Grant(c) \/ Ungrant(c)
            \/ Attribute(c) \/ Split(c) \/ (Abandon(c) /\ UNCHANGED memberVars)
    BY DEF MembersNext
  <2>2. CASE MemberCalls(c)
    <3>1. members' = members
      BY <2>2 DEF MemberCalls, AddRead, UpdateRead, RevokeRead, RemoveRead, GrantRead, UngrantRead,
                  CreateTransaction, AttributeRead, SplitRead, memberVars
    <3> QED
      BY <3>1 DEF People, Known
  <2>3. CASE ~MemberCalls(c)
    BY <2>1, <2>3, WritesStep
  <2> QED
    BY <2>2, <2>3
<1>3. [][Kept]_<<connVars, memberVars>> => HistoryIsKept
  BY DEF HistoryIsKept
<1> HIDE DEF Kept
<1> QED
  BY <1>2, <1>3, MembersInvariant, PTL DEF MembersSpec

(***************************************************************************)
(* Proved of splits: whatever members are removed, and however many calls  *)
(* are under way, a transaction that is split is split without rest.       *)
(***************************************************************************)
\* Shares, in minor units, of people who may be known or not.
SharesOf(split) ==
    /\ DOMAIN split \in SUBSET Persons
    /\ \A p \in DOMAIN split : split[p] \in Int

CoversTxn(split, t) == DOMAIN split # {} => Total(split) = Magnitude(t)

\* What a call under way was given: a split its validation let through, or a person to
\* remove and another to take over.
GivenSplit(c) == SharesOf(seen[c].split) /\ CoversTxn(seen[c].split, seen[c].txn)
GivenPeople(c) == seen[c].who \in Persons /\ (seen[c].to # None => seen[c].to # seen[c].who)

\* The inductive invariant.
SplitInv ==
    /\ shares = [t \in Spending |-> shares[t]]
    /\ \A t \in Spending : SharesOf(shares[t]) /\ CoversTxn(shares[t], t)
    /\ \A c \in Conns : seen[c] # None =>
           /\ seen[c].job = "split" => GivenSplit(c)
           /\ seen[c].job = "remove" => GivenPeople(c)

LEMMA PersonsFinite == ASSUME NEW D \in SUBSET Persons PROVE IsFiniteSet(D)
<1>1. MaxMembers \in Int /\ 1 \in Int
  BY MembersAssumption
<1>2. IsFiniteSet(1 .. MaxMembers)
  BY <1>1, FS_Interval
<1> QED
  BY <1>2, FS_Subset DEF Persons

\* Reassigning a share moves it, whole, onto the target's own.
LEMMA ReassignedTotal ==
    ASSUME NEW split, SharesOf(split), NEW from \in DOMAIN split, NEW to \in Persons, to # from
    PROVE  SharesOf(Reassigned(split, from, to)) /\ Total(Reassigned(split, from, to)) = Total(split)
<1> DEFINE D == DOMAIN split
           E == (D \ {from}) \cup {to}
           F == E \ {to}
           h == Reassigned(split, from, to)
<1>1. D \in SUBSET Persons /\ E \in SUBSET Persons
  BY DEF SharesOf
<1>2. IsFiniteSet(D) /\ IsFiniteSet(E) /\ IsFiniteSet(F)
  BY <1>1, PersonsFinite
<1>3. /\ DOMAIN h = E
      /\ \A p \in E : h[p] = (IF p \in D THEN split[p] ELSE 0) + (IF p = to THEN split[from] ELSE 0)
  BY DEF Reassigned
<1>4. /\ \A p \in D : split[p] \in Int
      /\ \A p \in E : h[p] \in Int
      /\ \A p \in F : h[p] = split[p]
      /\ h[to] = (IF to \in D THEN split[to] ELSE 0) + split[from]
  BY <1>3 DEF SharesOf
<1> HIDE DEF h
<1>5. PartSum(h, E) = h[to] + PartSum(h, F)
  <2>1. E \in SUBSET E /\ to \in E
    OBVIOUS
  <2> QED
    BY <1>2, <1>4, <2>1, SumRemove
<1>6. PartSum(h, F) = PartSum(split, F)
  BY <1>2, <1>4, SumSame
<1>7. PartSum(split, D) = split[from] + PartSum(split, D \ {from})
  <2>1. D \in SUBSET D /\ from \in D
    OBVIOUS
  <2> QED
    BY <1>2, <1>4, <2>1, SumRemove
<1>8. F \in SUBSET D /\ PartSum(split, F) \in Int
  <2>1. F \in SUBSET D
    OBVIOUS
  <2> QED
    BY <1>2, <1>4, <2>1, SumInt
<1>9. CASE to \in D
  <2>1. D \ {from} \in SUBSET D /\ to \in D \ {from} /\ (D \ {from}) \ {to} = F
    BY <1>9
  <2>2. PartSum(split, D \ {from}) = split[to] + PartSum(split, F)
    <3>1. PartSum(split, D \ {from}) = split[to] + PartSum(split, (D \ {from}) \ {to})
      BY <1>2, <1>4, <1>9, <2>1, SumRemove
    <3> QED
      BY <2>1, <3>1
  <2> QED
    BY <1>1, <1>3, <1>4, <1>5, <1>6, <1>7, <1>8, <1>9, <2>2, TotalIsSum DEF SharesOf, h
<1>10. CASE to \notin D
  <2>1. D \ {from} = F
    BY <1>10
  <2>2. PartSum(split, D) = split[from] + PartSum(split, F)
    BY <1>7, <2>1
  <2>3. h[to] = split[from] /\ split[from] \in Int
    BY <1>4, <1>10
  <2>4. PartSum(h, E) = PartSum(split, D)
    BY <1>5, <1>6, <1>8, <2>2, <2>3
  <2> QED
    BY <1>1, <1>3, <1>4, <2>4, TotalIsSum DEF SharesOf, h
<1> QED
  BY <1>9, <1>10

\* A call that begins answers for what it was given; one that ends leaves the splits covered.
LEMMA SplitMoves ==
    ASSUME MemberInv, SplitInv, NEW c \in team, NEW call, Keep(c, call),
           call # None => /\ call.job = "split" => /\ SharesOf(call.split)
                                                   /\ CoversTxn(call.split, call.txn)
                          /\ call.job = "remove" =>
                                 call.who \in Persons /\ (call.to # None => call.to # call.who),
           shares' = [t \in Spending |-> shares'[t]],
           \A t \in Spending : SharesOf(shares'[t]) /\ CoversTxn(shares'[t], t)
    PROVE  SplitInv'
<1>1. c \in Conns /\ seen' = [seen EXCEPT ![c] = call]
  BY DEF MemberInv, CallsTyped, Keep
<1>2. seen'[c] = call /\ \A d \in Conns : d # c => seen'[d] = seen[d]
  BY <1>1 DEF MemberInv, CallsTyped
<1>3. \A t \in Spending : SharesOf(shares[t])' /\ CoversTxn(shares[t], t)'
  BY DEF SharesOf, CoversTxn
<1>4. ASSUME NEW d \in Conns, seen'[d] # None, seen'[d].job = "split"
      PROVE  GivenSplit(d)'
  BY <1>2, <1>4 DEF SplitInv, GivenSplit, SharesOf, CoversTxn
<1>5. ASSUME NEW d \in Conns, seen'[d] # None, seen'[d].job = "remove"
      PROVE  GivenPeople(d)'
  BY <1>2, <1>5 DEF SplitInv, GivenPeople
<1> QED
  BY <1>3, <1>4, <1>5 DEF SplitInv

\* What transaction_split_set lets through covers the transaction.
LEMMA ValidatedSplitCovers ==
    ASSUME NEW t \in Spending, NEW split \in SplitsOf(t)
    PROVE  SharesOf(split) /\ CoversTxn(split, t)
<1>1. Magnitude(t) \in Int
  BY MembersAssumption DEF Magnitude
<1>2. People \in SUBSET Persons
  BY DEF People
<1>3. CASE split = NoSplit
  BY <1>3 DEF NoSplit, SharesOf, CoversTxn
<1>4. ASSUME NEW who \in SUBSET People \ {{}}, split \in [who -> 1 .. Magnitude(t)],
             Total(split) = Magnitude(t)
      PROVE  SharesOf(split) /\ CoversTxn(split, t)
  BY <1>1, <1>2, <1>4 DEF SharesOf, CoversTxn
<1> QED
  BY <1>3, <1>4 DEF SplitsOf

LEMMA CallsKeepSplits ==
    ASSUME MemberInv, SplitInv, NEW c \in team, MemberCalls(c)
    PROVE  SplitInv'
<1>1. ASSUME NEW call, Read(c, call), UNCHANGED memberVars,
             /\ call.job = "split" => SharesOf(call.split) /\ CoversTxn(call.split, call.txn)
             /\ call.job = "remove" => call.who \in Persons /\ (call.to # None => call.to # call.who)
      PROVE  SplitInv'
  <2>1. Keep(c, call) /\ shares' = shares
    BY <1>1 DEF Read, Keep, memberVars
  <2>2. /\ shares' = [t \in Spending |-> shares'[t]]
        /\ \A t \in Spending : SharesOf(shares'[t]) /\ CoversTxn(shares'[t], t)
    BY <2>1 DEF SplitInv
  <2> QED
    BY <1>1, <2>1, <2>2, SplitMoves
<1>2. ASSUME NEW call, Read(c, call), UNCHANGED memberVars, call.job \notin {"split", "remove"}
      PROVE  SplitInv'
  BY <1>1, <1>2
<1>3. ASSUME NEW label \in Labels, NEW account \in OwnedBy \cup {None}, AddRead(c, label, account)
      PROVE  SplitInv'
  BY <1>2, <1>3 DEF AddRead
<1>4. ASSUME NEW p \in People, NEW label \in Labels, NEW account \in OwnedBy \cup {None},
             UpdateRead(c, p, label, account)
      PROVE  SplitInv'
  BY <1>2, <1>4 DEF UpdateRead
<1>5. ASSUME NEW p \in People, RevokeRead(c, p)
      PROVE  SplitInv'
  BY <1>2, <1>5 DEF RevokeRead
<1>6. ASSUME NEW p \in People, NEW to \in People \cup {None}, RemoveRead(c, p, to)
      PROVE  SplitInv'
  <2>1. PICK call : call = [job |-> "remove", who |-> p, to |-> to]
    OBVIOUS
  <2>2. call.job = "remove" /\ call.who = p /\ call.to = to
    BY <2>1
  <2>3. p \in Persons /\ (to # None => to # p)
    BY <1>6 DEF RemoveRead, People
  <2>4. Read(c, call) /\ UNCHANGED memberVars
    BY <1>6, <2>1 DEF RemoveRead
  <2> QED
    BY <1>1, <2>2, <2>3, <2>4
<1>7. ASSUME NEW p \in People, NEW operation \in Operations, GrantRead(c, p, operation)
      PROVE  SplitInv'
  BY <1>2, <1>7 DEF GrantRead
<1>8. ASSUME NEW p \in People, NEW operation \in Operations, UngrantRead(c, p, operation)
      PROVE  SplitInv'
  BY <1>2, <1>8 DEF UngrantRead
<1>9. ASSUME NEW t \in Spending, CreateTransaction(c, t)
      PROVE  SplitInv'
  <2>1. seen' = seen /\ shares' = shares
    BY <1>9 DEF CreateTransaction, connVars
  <2> QED
    BY <2>1 DEF SplitInv, SharesOf, CoversTxn, GivenSplit, GivenPeople
<1>10. ASSUME NEW t \in Spending, NEW p \in People \cup {None}, AttributeRead(c, t, p)
       PROVE  SplitInv'
  BY <1>2, <1>10 DEF AttributeRead
<1>11. ASSUME NEW t \in Spending, NEW split \in SplitsOf(t), SplitRead(c, t, split)
       PROVE  SplitInv'
  <2>1. PICK call : call = [job |-> "split", txn |-> t, split |-> split]
    OBVIOUS
  <2>2. call.job = "split" /\ call.split = split /\ call.txn = t
    BY <2>1
  <2>3. SharesOf(split) /\ CoversTxn(split, t)
    BY ValidatedSplitCovers
  <2>4. Read(c, call) /\ UNCHANGED memberVars
    BY <1>11, <2>1 DEF SplitRead
  <2> QED
    BY <1>1, <2>2, <2>3, <2>4
<1> QED
  BY <1>3, <1>4, <1>5, <1>6, <1>7, <1>8, <1>9, <1>10, <1>11 DEF MemberCalls

LEMMA WritesKeepSplits ==
    ASSUME MemberInv, SplitInv, NEW c \in team,
           \/ Add(c) \/ Update(c) \/ Revoke(c) \/ RemoveMember(c) \/ Grant(c) \/ Ungrant(c)
           \/ Attribute(c) \/ Split(c) \/ (Abandon(c) /\ UNCHANGED memberVars)
    PROVE  SplitInv'
<1>1. c \in Conns
  BY DEF MemberInv, CallsTyped
<1>2. Keep(c, None)
  BY DEF Add, Update, Revoke, RemoveMember, Grant, Ungrant, Attribute, Split, Abandon, Done
<1>3. CASE UNCHANGED shares
  <2>1. /\ shares' = [t \in Spending |-> shares'[t]]
        /\ \A t \in Spending : SharesOf(shares'[t]) /\ CoversTxn(shares'[t], t)
    BY <1>3 DEF SplitInv
  <2> QED
    BY <1>2, <2>1, SplitMoves
<1>4. CASE Split(c)
  <2>1. /\ shares' = [shares EXCEPT ![seen[c].txn] = seen[c].split]
        /\ SharesOf(seen[c].split) /\ CoversTxn(seen[c].split, seen[c].txn)
    BY <1>1, <1>4 DEF Split, Doing, Idle, SplitInv, GivenSplit
  <2>2. \A t \in Spending : shares'[t] = IF t = seen[c].txn THEN seen[c].split ELSE shares[t]
    BY <2>1 DEF SplitInv
  <2>3. /\ shares' = [t \in Spending |-> shares'[t]]
        /\ \A t \in Spending : SharesOf(shares'[t]) /\ CoversTxn(shares'[t], t)
    BY <2>1, <2>2 DEF SplitInv
  <2> QED
    BY <1>2, <2>3, SplitMoves
<1>5. CASE RemoveMember(c)
  <2>1. PICK from, to : from = seen[c].who /\ to = seen[c].to
    OBVIOUS
  <2>2. /\ from \in Persons /\ (to # None => to # from)
        /\ IF to = None THEN \A t \in Spending : from \notin DOMAIN shares[t]
                        ELSE Known(to) \/ ~HasAttributions(from)
        /\ shares' = [t \in Spending |-> Reassigned(shares[t], from, to)]
    BY <1>1, <1>5, <2>1 DEF RemoveMember, Doing, Idle, SplitInv, GivenPeople
  <2>3. ASSUME NEW t \in Spending
        PROVE  SharesOf(shares'[t]) /\ CoversTxn(shares'[t], t)
    <3>1. shares'[t] = Reassigned(shares[t], from, to)
      BY <2>2
    <3>2. SharesOf(shares[t]) /\ CoversTxn(shares[t], t)
      BY DEF SplitInv
    <3>3. CASE from \notin DOMAIN shares[t]
      BY <3>1, <3>2, <3>3 DEF Reassigned
    <3>4. CASE from \in DOMAIN shares[t]
      <4>1. to \in Persons /\ to # from
        BY <2>2, <3>4 DEF HasAttributions, Known
      <4>2. /\ SharesOf(Reassigned(shares[t], from, to))
            /\ Total(Reassigned(shares[t], from, to)) = Total(shares[t])
        BY <3>2, <3>4, <4>1, ReassignedTotal
      <4> QED
        BY <3>1, <3>2, <3>4, <4>2 DEF CoversTxn
    <3> QED
      BY <3>3, <3>4
  <2>4. shares' = [t \in Spending |-> shares'[t]]
    BY <2>2
  <2> QED
    BY <1>2, <2>3, <2>4, SplitMoves
<1> QED
  BY <1>3, <1>4, <1>5 DEF Add, Update, Revoke, Grant, Ungrant, Attribute, memberVars

LEMMA SplitsInitially == ConnInit /\ MembersInit => SplitInv
<1> SUFFICES ASSUME ConnInit, MembersInit PROVE SplitInv
  OBVIOUS
<1>1. /\ shares = [t \in Spending |-> shares[t]]
      /\ \A t \in Spending : shares[t] = NoSplit
  BY DEF MembersInit
<1>2. \A t \in Spending : SharesOf(NoSplit) /\ CoversTxn(NoSplit, t)
  BY DEF NoSplit, SharesOf, CoversTxn
<1>3. \A c \in Conns : seen[c] = None
  BY DEF ConnInit
<1> QED
  BY <1>1, <1>2, <1>3 DEF SplitInv

LEMMA SplitsStep ==
    MemberInv /\ SplitInv /\ [MembersNext]_<<connVars, memberVars>> => SplitInv'
<1> SUFFICES ASSUME MemberInv, SplitInv, [MembersNext]_<<connVars, memberVars>>
             PROVE  SplitInv'
  OBVIOUS
<1>1. CASE MembersNext
  BY <1>1, CallsKeepSplits, WritesKeepSplits DEF MembersNext
<1>2. CASE UNCHANGED <<connVars, memberVars>>
  BY <1>2 DEF connVars, memberVars, SplitInv, SharesOf, CoversTxn, GivenSplit, GivenPeople
<1> QED
  BY <1>1, <1>2

\* Through reassignments, removals and replacements, by any number of processes, the shares
\* of a transaction make its absolute amount (service.rs: transaction_split_set's validation
\* and member_remove's reassignment).
THEOREM SplitsAreWhole == MembersSpec => []SplitsCoverTheirTransaction
<1>1. SplitInv => SplitsCoverTheirTransaction
  BY DEF SplitInv, CoversTxn, SplitsCoverTheirTransaction
<1> QED
  BY <1>1, SplitsInitially, SplitsStep, MembersInvariant, PTL DEF MembersSpec

(***************************************************************************)
(* Proved of the rows the members' tables refer to: no attribution, share  *)
(* or capability is left to a person who is not there.                     *)
(***************************************************************************)
\* The inductive invariant.
RefersInv ==
    /\ booked \subseteq Spending
    /\ attributed = [t \in Spending |-> attributed[t]]
    /\ \A t \in Spending : /\ attributed[t] = None \/ Known(attributed[t])
                           /\ DOMAIN shares[t] \subseteq People
    /\ capabilities \subseteq People \X Operations
    /\ \A c \in Conns : seen[c] # None /\ seen[c].job = "grant" =>
           seen[c].operation \in Operations

LEMMA MembersTypes == MemberInv /\ RefersInv => MembersTypeOK
BY DEF MemberInv, RowsTyped, RefersInv, MembersTypeOK, Known

\* Of several persons one was the first to be added, as they are numbers.
LEMMA OneIsFirst ==
    ASSUME NEW S, S \subseteq Nat, S # {}
    PROVE  \E p \in S : \A q \in S : p <= q
<1> DEFINE less == {p \in Nat \X Nat : p[1] < p[2]}
<1>1. IsWellFoundedOn(less, Nat)
  <2>1. less = OpToRel(<, Nat)
    BY DEF OpToRel
  <2> HIDE DEF less
  <2> QED
    BY <2>1, NatLessThanWellFounded
<1>2. PICK m \in S : \A n \in S : <<n, m>> \notin less
  <2> HIDE DEF less
  <2> QED
    BY <1>1, WFMin
<1>3. ASSUME NEW n \in S PROVE m <= n
  <2>1. m \in Nat /\ n \in Nat /\ <<n, m>> \notin less
    BY <1>2
  <2> QED
    BY <2>1
<1> QED
  BY <1>3

\* Who owns the account of a transaction is known, if anybody does.
LEMMA OwnerIsKnown ==
    ASSUME MemberInv, NEW t \in Spending
    PROVE  DefaultOwner(t) = None \/ Known(DefaultOwner(t))
<1> DEFINE owners == {p \in People : members[p].account = AccountOf[t]}
<1>1. owners \subseteq Nat /\ \A p \in owners : Known(p)
  BY MembersAssumption DEF People, Persons
<1>2. CASE owners # {}
  <2>1. \E p \in owners : \A q \in owners : p <= q
    BY <1>1, <1>2, OneIsFirst
  <2>2. DefaultOwner(t) \in owners
    BY <1>2, <2>1 DEF DefaultOwner
  <2> QED
    BY <1>1, <2>2
<1> QED
  BY <1>2 DEF DefaultOwner

\* The steps that write nothing of what refers to people, and lose nobody.
LEMMA NobodyGoes ==
    ASSUME MemberInv, RefersInv, NEW c \in team, NEW call, Keep(c, call),
           call # None => (call.job = "grant" => call.operation \in Operations),
           \A p \in Persons : Known(p) => members'[p] # None,
           UNCHANGED <<booked, attributed, shares, capabilities>>
    PROVE  RefersInv'
<1>1. c \in Conns /\ seen' = [seen EXCEPT ![c] = call]
  BY DEF MemberInv, CallsTyped, Keep
<1>2. seen'[c] = call /\ \A d \in Conns : d # c => seen'[d] = seen[d]
  BY <1>1 DEF MemberInv, CallsTyped
<1>3. (\A p : Known(p) => Known(p)') /\ People \subseteq People'
  BY DEF Known, People
<1> QED
  BY <1>2, <1>3 DEF RefersInv

LEMMA CallsRefer ==
    ASSUME MemberInv, RefersInv, NEW c \in team, MemberCalls(c)
    PROVE  RefersInv'
<1>1. ASSUME NEW call, Read(c, call), UNCHANGED memberVars,
             call.job = "grant" => call.operation \in Operations
      PROVE  RefersInv'
  <2>1. Keep(c, call) /\ UNCHANGED <<members, booked, attributed, shares, capabilities>>
    BY <1>1 DEF Read, Keep, memberVars
  <2> QED
    BY <1>1, <2>1, NobodyGoes DEF Known
<1>2. ASSUME NEW label, NEW account, AddRead(c, label, account) PROVE RefersInv'
  <2>1. PICK call : call = [job |-> "add", label |-> label, account |-> account]
    OBVIOUS
  <2> QED
    BY <1>1, <1>2, <2>1 DEF AddRead
<1>3. ASSUME NEW p, NEW label, NEW account, UpdateRead(c, p, label, account) PROVE RefersInv'
  <2>1. PICK call : call = [job |-> "update", who |-> p, label |-> label, account |-> account]
    OBVIOUS
  <2> QED
    BY <1>1, <1>3, <2>1 DEF UpdateRead
<1>4. ASSUME NEW p, RevokeRead(c, p) PROVE RefersInv'
  <2>1. PICK call : call = [job |-> "revoke", who |-> p]
    OBVIOUS
  <2> QED
    BY <1>1, <1>4, <2>1 DEF RevokeRead
<1>5. ASSUME NEW p, NEW to, RemoveRead(c, p, to) PROVE RefersInv'
  <2>1. PICK call : call = [job |-> "remove", who |-> p, to |-> to]
    OBVIOUS
  <2> QED
    BY <1>1, <1>5, <2>1 DEF RemoveRead
<1>6. ASSUME NEW p, NEW operation \in Operations, GrantRead(c, p, operation) PROVE RefersInv'
  <2>1. PICK call : call = [job |-> "grant", who |-> p, operation |-> operation,
                            principal |-> members[p].principal]
    OBVIOUS
  <2>2. call.operation = operation
    BY <2>1
  <2> QED
    BY <1>1, <1>6, <2>1, <2>2 DEF GrantRead
<1>7. ASSUME NEW p, NEW operation, UngrantRead(c, p, operation) PROVE RefersInv'
  <2>1. PICK call : call = [job |-> "ungrant", who |-> p, operation |-> operation]
    OBVIOUS
  <2> QED
    BY <1>1, <1>7, <2>1 DEF UngrantRead
<1>8. ASSUME NEW t \in Spending, CreateTransaction(c, t) PROVE RefersInv'
  <2>1. /\ seen' = seen /\ members' = members /\ shares' = shares /\ capabilities' = capabilities
        /\ booked' = booked \cup {t} /\ attributed' = [attributed EXCEPT ![t] = DefaultOwner(t)]
    BY <1>8 DEF CreateTransaction, connVars
  <2>2. /\ attributed' = [u \in Spending |-> attributed'[u]]
        /\ attributed'[t] = DefaultOwner(t)
        /\ \A u \in Spending : u # t => attributed'[u] = attributed[u]
    BY <2>1 DEF RefersInv
  <2> QED
    BY <2>1, <2>2, OwnerIsKnown DEF RefersInv, Known, People
<1>9. ASSUME NEW t, NEW p, AttributeRead(c, t, p) PROVE RefersInv'
  <2>1. PICK call : call = [job |-> "attribute", txn |-> t, to |-> p]
    OBVIOUS
  <2> QED
    BY <1>1, <1>9, <2>1 DEF AttributeRead
<1>10. ASSUME NEW t, NEW split, SplitRead(c, t, split) PROVE RefersInv'
  <2>1. PICK call : call = [job |-> "split", txn |-> t, split |-> split]
    OBVIOUS
  <2> QED
    BY <1>1, <1>10, <2>1 DEF SplitRead
<1> QED
  BY <1>2, <1>3, <1>4, <1>5, <1>6, <1>7, <1>8, <1>9, <1>10 DEF MemberCalls

LEMMA WritesRefer ==
    ASSUME MemberInv, SplitInv, RefersInv, NEW c \in team,
           \/ Add(c) \/ Update(c) \/ Revoke(c) \/ RemoveMember(c) \/ Grant(c) \/ Ungrant(c)
           \/ Attribute(c) \/ Split(c) \/ (Abandon(c) /\ UNCHANGED memberVars)
    PROVE  RefersInv'
<1>1. c \in Conns
  BY DEF MemberInv, CallsTyped
<1>2. Keep(c, None)
  BY DEF Add, Update, Revoke, RemoveMember, Grant, Ungrant, Attribute, Split, Abandon, Done
<1>3. \A d \in Conns : seen'[d] = None \/ seen'[d] = seen[d]
  BY <1>1, <1>2 DEF Keep, MemberInv, CallsTyped
<1>4. CASE Add(c) \/ Update(c) \/ Revoke(c) \/ (Abandon(c) /\ UNCHANGED memberVars)
  <2>1. CASE Abandon(c) /\ UNCHANGED memberVars
    BY <1>2, <2>1, NobodyGoes DEF Known, memberVars
  <2>2. CASE Add(c) \/ Update(c) \/ Revoke(c)
    <3>1. ~RemoveMember(c)
      BY <2>2 DEF Add, Update, Revoke, RemoveMember, Doing
    <3>2. \A p \in People : members'[p] # None
      BY <2>2, <3>1, WritesStep
    <3>3. \A p \in Persons : Known(p) => members'[p] # None
      BY <3>2 DEF People, Known
    <3> QED
      BY <1>2, <2>2, <3>3, NobodyGoes DEF Add, Update, Revoke
  <2> QED
    BY <1>4, <2>1, <2>2
<1>5. CASE RemoveMember(c)
  <2>1. PICK from, to : from = seen[c].who /\ to = seen[c].to
    OBVIOUS
  <2>2. /\ from \in Persons /\ (to # None => to # from)
        /\ IF to = None THEN \A t \in Spending : from \notin DOMAIN shares[t]
                        ELSE Known(to) \/ ~HasAttributions(from)
        /\ members' = [members EXCEPT ![from] = None]
        /\ attributed' = [t \in Spending |-> IF attributed[t] = from THEN to ELSE attributed[t]]
        /\ shares' = [t \in Spending |-> Reassigned(shares[t], from, to)]
        /\ capabilities' = {g \in capabilities : g[1] # from}
        /\ booked' = booked
    BY <1>1, <1>5, <2>1 DEF RemoveMember, Doing, Idle, SplitInv, GivenPeople
  <2>3. \A p : Known(p) /\ p # from => Known(p)'
    BY <2>2 DEF MemberInv, RowsTyped, Known
  <2>4. ASSUME NEW t \in Spending
        PROVE  attributed'[t] = None \/ Known(attributed[t])'
    <3>1. CASE attributed[t] = from
      BY <2>2, <2>3, <3>1 DEF HasAttributions
    <3>2. CASE attributed[t] # from
      BY <2>2, <2>3, <3>2 DEF RefersInv
    <3> QED
      BY <3>1, <3>2
  <2>5. ASSUME NEW t \in Spending, NEW p \in DOMAIN shares'[t]
        PROVE  p \in People'
    <3>1. DOMAIN shares[t] \subseteq People
      BY DEF RefersInv
    <3>2. CASE from \notin DOMAIN shares[t]
      <4>1. shares'[t] = shares[t]
        BY <2>2, <3>2 DEF Reassigned
      <4> QED
        BY <2>3, <2>5, <3>1, <3>2, <4>1 DEF People, Known
    <3>3. CASE from \in DOMAIN shares[t]
      <4>1. Known(to) /\ to # from
        BY <2>2, <3>3 DEF HasAttributions
      <4>2. p \in (DOMAIN shares[t] \ {from}) \cup {to}
        BY <2>2, <2>5, <3>3 DEF Reassigned
      <4> QED
        BY <2>3, <3>1, <4>1, <4>2 DEF People, Known
    <3> QED
      BY <3>2, <3>3
  <2>6. capabilities' \subseteq People' \X Operations
    BY <2>2, <2>3 DEF RefersInv, People
  <2> QED
    BY <1>3, <2>2, <2>4, <2>5, <2>6 DEF RefersInv
<1>6. CASE Grant(c)
  <2>1. \A p \in People : members'[p] # None
    <3>1. ~RemoveMember(c)
      BY <1>6 DEF Grant, RemoveMember, Doing
    <3> QED
      BY <1>6, <3>1, WritesStep
  <2>2. People \subseteq People' /\ \A p : Known(p) => Known(p)'
    BY <2>1 DEF People, Known
  <2>3. /\ seen[c].operation \in Operations /\ seen[c].who \in People
        /\ capabilities' = capabilities \cup {<<seen[c].who, seen[c].operation>>}
        /\ UNCHANGED <<booked, attributed, shares>>
    BY <1>1, <1>6 DEF Grant, Doing, Idle, RefersInv, People, Known
  <2> QED
    BY <1>3, <2>2, <2>3 DEF RefersInv
<1>7. CASE Ungrant(c) \/ Attribute(c) \/ Split(c)
  <2>1. /\ members' = members /\ booked' = booked /\ capabilities' \subseteq capabilities
        /\ People' = People /\ \A p : Known(p)' <=> Known(p)
    BY <1>7 DEF Ungrant, Attribute, Split, People, Known
  <2>2. CASE Ungrant(c)
    BY <1>3, <2>1, <2>2 DEF Ungrant, RefersInv
  <2>3. CASE Attribute(c)
    <3>1. /\ attributed' = [t \in Spending |-> attributed'[t]]
          /\ \A t \in Spending : attributed'[t] = IF t = seen[c].txn THEN seen[c].to ELSE attributed[t]
          /\ seen[c].to # None => Known(seen[c].to)
          /\ shares' = shares
      BY <2>3 DEF Attribute, RefersInv
    <3> QED
      BY <1>3, <2>1, <3>1 DEF RefersInv
  <2>4. CASE Split(c)
    <3>1. /\ \A t \in Spending : shares'[t] = IF t = seen[c].txn THEN seen[c].split ELSE shares[t]
          /\ DOMAIN seen[c].split \subseteq People
          /\ attributed' = attributed
      BY <2>4 DEF Split, SplitInv
    <3> QED
      BY <1>3, <2>1, <3>1 DEF RefersInv
  <2> QED
    BY <1>7, <2>2, <2>3, <2>4
<1> QED
  BY <1>4, <1>5, <1>6, <1>7

LEMMA RefersInitially == ConnInit /\ MembersInit => RefersInv
BY DEF ConnInit, MembersInit, RefersInv, NoSplit

LEMMA RefersStep ==
    MemberInv /\ SplitInv /\ RefersInv /\ [MembersNext]_<<connVars, memberVars>> => RefersInv'
<1> SUFFICES ASSUME MemberInv, SplitInv, RefersInv, [MembersNext]_<<connVars, memberVars>>
             PROVE  RefersInv'
  OBVIOUS
<1>1. CASE MembersNext
  BY <1>1, CallsRefer, WritesRefer DEF MembersNext
<1>2. CASE UNCHANGED <<connVars, memberVars>>
  BY <1>2 DEF connVars, memberVars, RefersInv, Known, People
<1> QED
  BY <1>1, <1>2

-----------------------------------------------------------------------------
(***************************************************************************)
(* What holds of packs for any files, merchants and processes, proved:     *)
(* every opinion the book has of a merchant has somebody to answer for it, *)
(* and the preflight promises no more and no less than the install does.   *)
(***************************************************************************)
Stages == {"adopt", "pin", "signer", "trust", "write"}
Reading == [job : Stages, offer : Offers,
            planned : {"refuse", "install", "upgrade"}, sure : BOOLEAN]

PackRowsTyped ==
    /\ legacy \in LegacyIndex
    /\ installs \in [PackIds -> InstallRow \cup {None}]
    /\ owned \in [PackIds -> SUBSET Categories]
    /\ mappings \in [Merchants -> MappingRow \cup {None}]
    /\ chosen \in [Merchants -> Categories \cup {None}]

PackCallsTyped ==
    /\ team \in SUBSET Conns
    /\ seen = [c \in Conns |-> seen[c]]
    /\ \A c \in Conns : seen[c] # None => c \in team /\ seen[c] \in Reading

\* A pack owns every category the installed version of its file declares.
FilesAreMapped ==
    \A p \in PackIds : installs[p] # None =>
        CategoriesIn[<<p, installs[p].version>>] \subseteq owned[p]

\* What the preflight of a call under way said is what it would say now, and a signer
\* that passed its gate is still trusted: nobody else is there to change it.
CallInSight(c) ==
    seen[c] # None =>
        /\ seen[c].sure => PendingLegacy = {} /\ seen[c].planned = Plan(seen[c].offer)
        /\ seen[c].job \in {"trust", "write"} => seen[c].offer.signer \in trusted

CallsInSight == Alone => \A c \in Conns : CallInSight(c)

\* The inductive invariant.
PackInv == PackRowsTyped /\ PackCallsTyped /\ FilesAreMapped /\ MappingsHaveTheirReason /\ CallsInSight

-----------------------------------------------------------------------------
(* What the tables keep.                                                   *)

Tables == PackRowsTyped /\ FilesAreMapped /\ MappingsHaveTheirReason

\* Writing a verified file keeps the tables: what it seeds, it also owns.
LEMMA WritingKeepsTables ==
    ASSUME Tables, NEW p \in PackIds, NEW v \in Versions,
           NEW signer \in Signers \cup {LegacySigner}, WriteInstall(p, v, signer)
    PROVE  Tables'
<1> DEFINE row == [version |-> v, signer |-> signer]
           file == <<p, v>>
<1>1. row \in InstallRow /\ row # None /\ file \in PackIds \X Versions
  BY PacksAssumption DEF InstallRow
<1>2. CategoriesIn[file] \subseteq Categories
  BY <1>1 DEF Categories
<1>3. /\ installs' = [installs EXCEPT ![p] = row]
      /\ owned' = [owned EXCEPT ![p] = @ \cup CategoriesIn[file]]
      /\ mappings' = Seeded(p, v)
      /\ legacy' = legacy /\ chosen' = chosen
  BY DEF WriteInstall
<1>4. installs' \in [PackIds -> InstallRow \cup {None}] /\ owned' \in [PackIds -> SUBSET Categories]
  BY <1>1, <1>2, <1>3 DEF Tables, PackRowsTyped
<1>5. /\ installs'[p] = row /\ owned'[p] = owned[p] \cup CategoriesIn[file]
      /\ \A q \in PackIds : q # p => installs'[q] = installs[q] /\ owned'[q] = owned[q]
  BY <1>3 DEF Tables, PackRowsTyped
<1>6. FilesAreMapped'
  BY <1>5 DEF Tables, FilesAreMapped
<1>7. ASSUME NEW m \in Merchants
      PROVE  \/ mappings'[m] = mappings[m]
             \/ /\ mappings[m] = None \/ mappings[m].source = "pack"
                /\ mappings'[m] \in MappingRow
                /\ mappings'[m].source = "pack"
                /\ mappings'[m].category \in CategoriesIn[file]
  <2> DEFINE exact == {r \in RulesIn[file] : r.merchant = m /\ r.exact}
             r == CHOOSE r \in exact : TRUE
  <2>1. mappings'[m] = IF exact = {} \/ (mappings[m] # None /\ mappings[m].source # "pack")
                       THEN mappings[m] ELSE [category |-> r.category, source |-> "pack"]
    BY <1>3 DEF Seeded
  <2>2. exact # {} => r \in exact
    OBVIOUS
  <2>3. exact # {} => r.category \in CategoriesIn[file]
    BY <1>1, <2>2, PacksAssumption
  <2> HIDE DEF exact, r
  <2> QED
    BY <1>2, <2>1, <2>3 DEF MappingRow
<1>8. mappings' \in [Merchants -> MappingRow \cup {None}]
  <2>1. mappings' = [m \in Merchants |-> mappings'[m]]
    BY <1>3 DEF Seeded
  <2> QED
    BY <1>7, <2>1 DEF Tables, PackRowsTyped
<1>9. MappingsHaveTheirReason'
  <2> SUFFICES ASSUME NEW m \in Merchants
               PROVE  /\ chosen'[m] # None =>
                             mappings'[m] = [category |-> chosen'[m], source |-> "user"]
                      /\ mappings'[m] # None /\ mappings'[m].source = "pack" =>
                             \E q \in PackIds : installs'[q] # None
                                                /\ mappings'[m].category \in owned'[q]
    BY DEF MappingsHaveTheirReason
  <2>1. CASE mappings'[m] = mappings[m]
    <3>1. \A q \in PackIds : owned[q] \subseteq owned'[q] /\ (installs[q] # None => installs'[q] # None)
      BY <1>1, <1>5
    <3> QED
      BY <1>3, <2>1, <3>1 DEF Tables, MappingsHaveTheirReason
  <2>2. CASE /\ mappings[m] = None \/ mappings[m].source = "pack"
             /\ mappings'[m].source = "pack"
             /\ mappings'[m].category \in CategoriesIn[file]
    <3>1. chosen[m] = None
      <4>1. SUFFICES ASSUME chosen[m] # None PROVE FALSE
        OBVIOUS
      <4>2. mappings[m] = [category |-> chosen[m], source |-> "user"]
        BY <4>1 DEF Tables, MappingsHaveTheirReason
      <4>3. chosen[m] \in Categories
        BY <4>1 DEF Tables, PackRowsTyped
      <4>4. mappings[m] \in MappingRow /\ mappings[m].source = "user"
        BY <4>2, <4>3 DEF MappingRow
      <4> QED
        BY <2>2, <4>4, PacksAssumption
    <3>2. installs'[p] # None /\ mappings'[m].category \in owned'[p]
      BY <1>1, <1>5, <2>2
    <3> QED
      BY <1>3, <3>1, <3>2
  <2> QED
    BY <1>7, <2>1, <2>2
<1> QED
  BY <1>3, <1>4, <1>6, <1>8, <1>9 DEF Tables, PackRowsTyped

\* An action of a call under way, and what it holds.
LEMMA PackUnderWay ==
    ASSUME PackCallsTyped, NEW c \in team, NEW job, Doing(c, job)
    PROVE  c \in Conns /\ seen[c] \in Reading /\ seen[c].job = job /\ Offer(c) \in Offers
BY DEF PackCallsTyped, Doing, Idle, Offer, Reading

\* Whatever a step does, the tables keep their rows and their reasons.
LEMMA TablesStep ==
    ASSUME Tables, PackCallsTyped, [PacksNext]_<<connVars, packVars>>
    PROVE  Tables'
<1>1. CASE UNCHANGED <<legacy, installs, owned, mappings, chosen>>
  BY <1>1 DEF Tables, PackRowsTyped, FilesAreMapped, MappingsHaveTheirReason
<1>2. ASSUME NEW p \in PackIds, Adopt(p)
      PROVE  Tables'
  <2>1. p \in DOMAIN legacy /\ legacy \in LegacyIndex
    BY <1>2 DEF Adopt, PendingLegacy, Tables, PackRowsTyped
  <2>2. legacy[p] \in Versions
    BY <2>1, PacksAssumption
  <2> QED
    BY <1>2, <2>2, WritingKeepsTables DEF Adopt
<1>3. ASSUME NEW p \in PendingLegacy
      PROVE  p \in PackIds
  BY <1>3, PacksAssumption DEF PendingLegacy, Tables, PackRowsTyped
<1>4. ASSUME NEW c \in team, Install(c)
      PROVE  Tables'
  <2>1. Offer(c) \in Offers
    BY <1>4, PackUnderWay DEF Install
  <2>2. WriteInstall(Offer(c).pack, Offer(c).version, Offer(c).signer)
    BY <1>4 DEF Install, InstallWrites
  <2> QED
    BY <2>1, <2>2, WritingKeepsTables DEF Offers
<1>5. ASSUME NEW c \in team, NEW p \in DOMAIN Seeds, InstallSeed(c, p)
      PROVE  Tables'
  <2>1. p \in PackIds /\ Seeds[p] \in Versions
    BY PacksAssumption
  <2>2. WriteInstall(p, Seeds[p], SeedKey)
    BY <1>5 DEF InstallSeed, InstallWrites
  <2> QED
    BY <2>1, <2>2, WritingKeepsTables DEF Signers
<1>6. ASSUME NEW c \in team, NEW p \in PackIds, Uninstall(c, p)
      PROVE  Tables'
  <2>1. /\ installs' = [installs EXCEPT ![p] = None]
        /\ mappings' = [m \in Merchants |->
                           IF mappings[m] # None /\ mappings[m].source = "pack"
                              /\ mappings[m].category \in owned[p]
                           THEN None ELSE mappings[m]]
        /\ legacy' = legacy /\ owned' = owned /\ chosen' = chosen
    BY <1>6 DEF Uninstall
  <2>2. PackRowsTyped'
    BY <2>1 DEF Tables, PackRowsTyped
  <2>3. installs'[p] = None /\ \A q \in PackIds : q # p => installs'[q] = installs[q]
    BY <2>1 DEF Tables, PackRowsTyped
  <2>4. FilesAreMapped'
    BY <2>1, <2>3 DEF Tables, FilesAreMapped
  <2>5. ASSUME NEW m \in Merchants, chosen[m] # None
        PROVE  mappings'[m] = [category |-> chosen[m], source |-> "user"]
    BY <2>1, <2>5 DEF Tables, MappingsHaveTheirReason
  <2>6. ASSUME NEW m \in Merchants, mappings'[m] # None, mappings'[m].source = "pack"
        PROVE  \E q \in PackIds : installs'[q] # None /\ mappings'[m].category \in owned'[q]
    <3>1. mappings'[m] = mappings[m] /\ mappings[m].category \notin owned[p]
      BY <2>1, <2>6
    <3>2. PICK q \in PackIds : installs[q] # None /\ mappings[m].category \in owned[q]
      BY <2>6, <3>1 DEF Tables, MappingsHaveTheirReason
    <3> QED
      BY <2>1, <2>3, <3>1, <3>2
  <2> QED
    BY <2>1, <2>2, <2>4, <2>5, <2>6 DEF Tables, MappingsHaveTheirReason
<1>7. ASSUME NEW c \in team, NEW m \in Merchants, Spend(c, m)
      PROVE  Tables'
  <2>1. PICK r \in LiveRules(m) :
            mappings' = [mappings EXCEPT ![m] = [category |-> r.category, source |-> "pack"]]
    BY <1>7 DEF Spend
  <2>2. PICK p \in PackIds : installs[p] # None /\ r \in RulesIn[<<p, installs[p].version>>]
    BY <2>1 DEF LiveRules
  <2>3. installs[p].version \in Versions
    BY <2>2 DEF Tables, PackRowsTyped, InstallRow
  <2>4. r.category \in CategoriesIn[<<p, installs[p].version>>]
    BY <2>2, <2>3, PacksAssumption
  <2>5. r.category \in owned[p] /\ r.category \in Categories
    BY <2>2, <2>4 DEF Tables, FilesAreMapped, PackRowsTyped
  <2>6. mappings[m] = None /\ UNCHANGED <<legacy, installs, owned, chosen>>
    BY <1>7 DEF Spend
  <2>7. chosen[m] = None
    <3>1. chosen[m] \in Categories => [category |-> chosen[m], source |-> "user"] \in MappingRow
      BY DEF MappingRow
    <3> QED
      BY <2>6, <3>1, PacksAssumption DEF Tables, PackRowsTyped, MappingsHaveTheirReason
  <2>8. /\ mappings'[m] = [category |-> r.category, source |-> "pack"]
        /\ mappings'[m].category \in owned[p]
        /\ mappings'[m] \in MappingRow
        /\ \A n \in Merchants : n # m => mappings'[n] = mappings[n]
        /\ mappings' \in [Merchants -> MappingRow \cup {None}]
    BY <2>1, <2>5 DEF Tables, PackRowsTyped, MappingRow
  <2>9. MappingsHaveTheirReason'
    BY <2>2, <2>6, <2>7, <2>8 DEF Tables, MappingsHaveTheirReason
  <2> QED
    BY <2>6, <2>8, <2>9 DEF Tables, PackRowsTyped, FilesAreMapped
<1>8. ASSUME NEW c \in team, NEW m \in Merchants, NEW k \in Categories, Categorize(c, m, k)
      PROVE  Tables'
  <2>1. /\ mappings' = [mappings EXCEPT ![m] = [category |-> k, source |-> "user"]]
        /\ chosen' = [chosen EXCEPT ![m] = k]
        /\ UNCHANGED <<legacy, installs, owned>>
    BY <1>8 DEF Categorize
  <2>2. /\ mappings'[m] = [category |-> k, source |-> "user"] /\ chosen'[m] = k
        /\ \A n \in Merchants : n # m => mappings'[n] = mappings[n] /\ chosen'[n] = chosen[n]
        /\ mappings' \in [Merchants -> MappingRow \cup {None}]
        /\ chosen' \in [Merchants -> Categories \cup {None}]
    BY <2>1 DEF Tables, PackRowsTyped, MappingRow
  <2>3. MappingsHaveTheirReason'
    BY <2>1, <2>2 DEF Tables, MappingsHaveTheirReason
  <2> QED
    BY <2>1, <2>2, <2>3 DEF Tables, PackRowsTyped, FilesAreMapped
<1>9. CASE PacksNext
  <2>1. PICK c \in team :
            \/ Free /\ \E o \in Offers : BeginInstall(c, o)
            \/ AdoptFirst(c) \/ PinGate(c) \/ SignerGate(c) \/ TrustGate(c) \/ Install(c)
            \/ Refuse(c)
            \/ Abandon(c) /\ UNCHANGED packVars
            \/ \E p \in PackIds : List(c, p) \/ Uninstall(c, p)
            \/ \E p \in DOMAIN Seeds : InstallSeed(c, p)
            \/ \E k \in Keys : RevokeSigner(c, k)
            \/ \E m \in Merchants : Spend(c, m) \/ \E k \in Categories : Categorize(c, m, k)
    BY <1>9 DEF PacksNext
  <2>2. CASE \/ \E o \in Offers : BeginInstall(c, o)
             \/ PinGate(c) \/ SignerGate(c) \/ TrustGate(c) \/ Refuse(c)
             \/ UNCHANGED packVars \/ \E k \in Keys : RevokeSigner(c, k)
    BY <1>1, <2>2 DEF BeginInstall, PinGate, SignerGate, TrustGate, Refuse, RevokeSigner, packVars
  <2>3. CASE AdoptFirst(c)
    BY <1>1, <1>2, <1>3, <2>3 DEF AdoptFirst, packVars
  <2>4. CASE \E p \in PackIds : List(c, p)
    BY <1>2, <2>4 DEF List
  <2> QED
    BY <1>4, <1>5, <1>6, <1>7, <1>8, <2>1, <2>2, <2>3, <2>4
<1> QED
  BY <1>1, <1>9 DEF packVars

-----------------------------------------------------------------------------
(* What the calls under way hold.                                          *)

CallInv == PackCallsTyped /\ CallsInSight

\* A call that reads and writes at once disturbs no other: with one process there is none.
LEMMA AtOnce ==
    ASSUME CallInv, Free, UNCHANGED connVars
    PROVE  CallInv'
<1>1. team' = team /\ seen' = seen /\ Alone' = Alone
  BY DEF connVars, Alone
<1>2. Alone => \A c \in Conns : seen'[c] = None
  BY <1>1 DEF Free, Idle
<1> QED
  BY <1>1, <1>2 DEF CallInv, PackCallsTyped, CallsInSight, CallInSight

\* A call that moves on, or ends, answers for itself alone.
LEMMA OneMoves ==
    ASSUME CallInv, NEW c \in team, NEW call, Keep(c, call),
           call # None => /\ call \in Reading
                          /\ Alone /\ call.sure => PendingLegacy' = {}
                          /\ Alone /\ call.sure => call.planned = Plan(call.offer)'
                          /\ Alone /\ call.job \in {"trust", "write"} => call.offer.signer \in trusted',
           Alone => \A d \in Conns : d # c => seen[d] = None
    PROVE  CallInv'
<1>1. /\ seen' = [seen EXCEPT ![c] = call] /\ team' = team /\ Alone' = Alone
      /\ c \in Conns
  BY DEF Keep, Alone, CallInv, PackCallsTyped
<1>2. seen'[c] = call /\ \A d \in Conns : d # c => seen'[d] = seen[d]
  BY <1>1 DEF CallInv, PackCallsTyped
<1>3. PackCallsTyped'
  BY <1>1, <1>2 DEF CallInv, PackCallsTyped
<1>4. ASSUME Alone, NEW d \in Conns
      PROVE  CallInSight(d)'
  BY <1>2, <1>4 DEF CallInSight, Plan, PinAllows, VersionAllows
<1> QED
  BY <1>1, <1>3, <1>4 DEF CallInv, CallsInSight

\* Whatever a step does, what the preflight said of a call under way stays true.
LEMMA PackCallsStep ==
    ASSUME PackRowsTyped, CallInv, PacksNext
    PROVE  CallInv'
<1>1. PICK c \in team :
          \/ Free /\ \E o \in Offers : BeginInstall(c, o)
          \/ AdoptFirst(c) \/ PinGate(c) \/ SignerGate(c) \/ TrustGate(c) \/ Install(c)
          \/ Refuse(c)
          \/ Abandon(c) /\ UNCHANGED packVars
          \/ \E p \in PackIds : List(c, p) \/ Uninstall(c, p)
          \/ \E p \in DOMAIN Seeds : InstallSeed(c, p)
          \/ \E k \in Keys : RevokeSigner(c, k)
          \/ \E m \in Merchants : Spend(c, m) \/ \E k \in Categories : Categorize(c, m, k)
  BY DEF PacksNext
<1>2. c \in Conns /\ (Alone => \A d \in Conns : d # c => seen[d] = None)
  BY DEF CallInv, PackCallsTyped, Alone
<1>3. CASE Done(c)
  BY <1>2, <1>3, OneMoves DEF Done
<1>4. ASSUME NEW o \in Offers, Free, BeginInstall(c, o)
      PROVE  CallInv'
  <2>1. PICK call : call = [job |-> "adopt", offer |-> o, planned |-> Plan(o),
                            sure |-> PendingLegacy = {}]
    OBVIOUS
  <2>2. Keep(c, call) /\ UNCHANGED packVars
    BY <1>4, <2>1 DEF BeginInstall, Read, Keep
  <2>3. Plan(o) \in {"refuse", "install", "upgrade"}
    BY DEF Plan
  <2>4. call \in Reading
    BY <2>1, <2>3 DEF Reading, Stages
  <2>5. PendingLegacy' = PendingLegacy /\ Plan(o)' = Plan(o)
    BY <2>2 DEF packVars, PendingLegacy, Plan, PinAllows, VersionAllows
  <2>6. call.sure => PendingLegacy' = {}
    BY <2>1, <2>5
  <2>7. call.planned = Plan(call.offer)'
    BY <2>1, <2>5
  <2>8. call.job \notin {"trust", "write"}
    BY <2>1
  <2> QED
    BY <1>2, <2>2, <2>4, <2>6, <2>7, <2>8, OneMoves
<1>5. ASSUME NEW stage \in Stages, NEW job, Doing(c, job), GoOn(c, stage),
             UNCHANGED <<legacy, pins, installs>>,
             trusted' = trusted \/ (/\ trusted' = trusted \cup {Offer(c).signer}
                                    /\ Offer(c).signer \in trusted
                                       \/ Offer(c).signer # SeedKey),
             stage \in {"trust", "write"} => Offer(c).signer \in trusted'
      PROVE  CallInv'
  <2>1. PICK call : call = [seen[c] EXCEPT !.job = stage]
    OBVIOUS
  <2>2. seen[c] \in Reading /\ seen[c] # None
    BY <1>5, PackUnderWay DEF CallInv, Doing, Idle
  <2>3. /\ call \in Reading /\ call.job = stage
        /\ call.offer = Offer(c) /\ call.sure = seen[c].sure /\ call.planned = seen[c].planned
    BY <2>1, <2>2 DEF Reading, Offer
  <2>4. PendingLegacy' = PendingLegacy /\ Keep(c, call)
    BY <1>5, <2>1 DEF PendingLegacy, GoOn
  <2>5. Plan(call.offer)' = Plan(call.offer)
    BY <1>5, <2>3 DEF Plan, PinAllows, VersionAllows
  <2>6. Alone /\ call.sure => PendingLegacy = {} /\ call.planned = Plan(call.offer)
    BY <1>2, <2>2, <2>3 DEF CallInv, CallsInSight, CallInSight, Offer
  <2>7. call.job \in {"trust", "write"} => call.offer.signer \in trusted'
    BY <1>5, <2>3
  <2> QED
    BY <1>2, <2>3, <2>4, <2>5, <2>6, <2>7, OneMoves
<1>6. CASE AdoptFirst(c)
  <2>1. CASE GoOn(c, "pin") /\ UNCHANGED packVars
    BY <1>5, <1>6, <2>1 DEF AdoptFirst, packVars, Stages
  <2>2. CASE PendingLegacy # {} /\ UNCHANGED connVars
    <3>1. seen[c] # None /\ seen[c] \in Reading /\ seen[c].job = "adopt"
      BY <1>6, PackUnderWay DEF CallInv, AdoptFirst, Doing, Idle
    <3>2. team' = team /\ seen' = seen /\ Alone' = Alone
      BY <2>2 DEF connVars, Alone
    <3>3. Alone => ~seen[c].sure
      BY <1>2, <2>2, <3>1 DEF CallInv, CallsInSight, CallInSight
    <3>4. ASSUME Alone, NEW d \in Conns
          PROVE  CallInSight(d)'
      BY <1>2, <3>1, <3>2, <3>3, <3>4 DEF CallInSight
    <3> QED
      BY <3>2, <3>4 DEF CallInv, PackCallsTyped, CallsInSight
  <2> QED
    BY <1>6, <2>1, <2>2 DEF AdoptFirst
<1>7. CASE PinGate(c)
  BY <1>5, <1>7 DEF PinGate, packVars, Stages
<1>8. CASE SignerGate(c)
  <2>1. /\ Doing(c, "signer") /\ GoOn(c, "trust") /\ UNCHANGED <<legacy, pins, installs>>
        /\ trusted' = trusted \cup {Offer(c).signer} /\ Offer(c).signer \in trusted'
        /\ Offer(c).signer \in trusted \/ Offer(c).signer # SeedKey
    BY <1>8 DEF SignerGate
  <2>2. "trust" \in Stages
    BY DEF Stages
  <2> QED
    BY <1>5, <2>1, <2>2
<1>9. CASE TrustGate(c)
  BY <1>5, <1>9 DEF TrustGate, packVars, Stages
<1>10. CASE Free /\ UNCHANGED connVars
  BY <1>10, AtOnce
<1> QED
  BY <1>1, <1>3, <1>4, <1>6, <1>7, <1>8, <1>9, <1>10
     DEF Install, Refuse, Abandon, List, Uninstall, InstallSeed, RevokeSigner, Spend, Categorize

-----------------------------------------------------------------------------
LEMMA PackInitially == ConnInit /\ PacksInit => PackInv
<1> SUFFICES ASSUME ConnInit, PacksInit PROVE PackInv
  OBVIOUS
<1>1. PackCallsTyped /\ CallsInSight
  BY TeamsAssumption DEF ConnInit, PackCallsTyped, CallsInSight, CallInSight
<1>2. PackRowsTyped /\ FilesAreMapped /\ MappingsHaveTheirReason
  BY DEF PacksInit, PackRowsTyped, FilesAreMapped, MappingsHaveTheirReason
<1> QED
  BY <1>1, <1>2 DEF PackInv

LEMMA PacksStep == PackInv /\ [PacksNext]_<<connVars, packVars>> => PackInv'
<1> SUFFICES ASSUME PackInv, [PacksNext]_<<connVars, packVars>> PROVE PackInv'
  OBVIOUS
<1>1. Tables'
  BY TablesStep DEF PackInv, Tables
<1>2. CASE PacksNext
  BY <1>1, <1>2, PackCallsStep DEF PackInv, Tables, CallInv
<1>3. CASE UNCHANGED <<connVars, packVars>>
  <2>1. /\ team' = team /\ seen' = seen /\ Alone' = Alone /\ trusted' = trusted
        /\ installs' = installs /\ legacy' = legacy /\ pins' = pins
    BY <1>3 DEF connVars, packVars, Alone
  <2>2. PackCallsTyped' /\ CallsInSight'
    BY <2>1 DEF PackInv, PackCallsTyped, CallsInSight, CallInSight, PendingLegacy, Plan,
                PinAllows, VersionAllows
  <2> QED
    BY <1>1, <2>2 DEF PackInv, Tables
<1> QED
  BY <1>2, <1>3

\* The invariant holds whatever packs are offered, adopted and removed, by whom and when.
THEOREM PacksInvariant == PacksSpec => []PackInv
BY PackInitially, PacksStep, PTL DEF PacksSpec

\* No sequence of installs, upgrades, removals, imports and corrections, of any number of
\* processes, leaves the book an opinion of a merchant that nobody answers for
\* (service.rs: seeding, uninstall and correction of merchant mappings).
THEOREM MappingsAreAnsweredFor == PacksSpec => []MappingsHaveTheirReason
<1>1. PackInv => MappingsHaveTheirReason
  BY DEF PackInv
<1> QED
  BY <1>1, PacksInvariant, PTL

\* One process, the index adopted: an install does what its preflight said, through all
\* of its gates (service.rs: pack_install_plan and pack_install).
THEOREM PreflightIsTrue == PacksSpec => PlanTellsTheInstall
<1> DEFINE Told == Alone => \A c \in team :
           /\ Refuse(c) /\ seen[c].sure =>
                  \/ seen[c].planned = "refuse"
                  \/ (Offer(c).signer \notin trusted /\ ~Offer(c).accept)
           /\ Install(c) /\ seen[c].sure =>
                  seen[c].planned =
                      IF installs[Offer(c).pack] = None THEN "install" ELSE "upgrade"
<1>1. PackInv => Told
  <2> SUFFICES ASSUME PackInv, Alone, NEW c \in team, seen[c].sure, seen[c] # None
               PROVE  /\ Refuse(c) =>
                            \/ seen[c].planned = "refuse"
                            \/ (Offer(c).signer \notin trusted /\ ~Offer(c).accept)
                      /\ Install(c) =>
                            seen[c].planned =
                                IF installs[Offer(c).pack] = None THEN "install" ELSE "upgrade"
    BY DEF Refuse, Install, Doing, Idle
  <2>1. c \in Conns /\ seen[c].planned = Plan(Offer(c))
    BY DEF PackInv, PackCallsTyped, CallsInSight, CallInSight, Offer
  <2>2. seen[c].job \in {"trust", "write"} => Offer(c).signer \in trusted
    BY <2>1 DEF PackInv, CallsInSight, CallInSight, Offer
  <2> QED
    BY <2>1, <2>2 DEF Refuse, Install, InstallWrites, Doing, Plan
<1>2. [][Told]_<<connVars, packVars>> => PlanTellsTheInstall
  BY DEF PlanTellsTheInstall
<1> HIDE DEF Told
<1>3. []PackInv => [][Told]_<<connVars, packVars>>
  BY <1>1, PTL
<1> QED
  BY <1>2, <1>3, PacksInvariant, PTL

-----------------------------------------------------------------------------
(* Whom the book trusts, and whom a pack's id is bound to.                 *)

SignersTyped ==
    /\ trusted \subseteq Keys
    /\ pins \in [PackIds -> Signers \cup {None}]

LEMMA PacksTypes == PackInv /\ SignersTyped => PacksTypeOK
BY DEF PackInv, PackRowsTyped, SignersTyped, PacksTypeOK

LEMMA SignersInitially == PacksInit => SignersTyped
BY DEF PacksInit, SignersTyped

LEMMA SignersStep ==
    PackInv /\ SignersTyped /\ [PacksNext]_<<connVars, packVars>> => SignersTyped'
<1> SUFFICES ASSUME PackInv, SignersTyped, [PacksNext]_<<connVars, packVars>>
             PROVE  SignersTyped'
  OBVIOUS
<1>1. CASE UNCHANGED <<trusted, pins>>
  BY <1>1 DEF SignersTyped
<1>2. ASSUME NEW p \in PackIds, NEW v, NEW signer \in Signers, InstallWrites(p, v, signer)
      PROVE  SignersTyped'
  BY <1>2 DEF InstallWrites, WriteInstall, SignersTyped
<1>3. ASSUME NEW c \in team, SignerGate(c)
      PROVE  SignersTyped'
  <2>1. Offer(c).signer \in Signers
    BY <1>3, PackUnderWay DEF PackInv, SignerGate, Offers
  <2> QED
    BY <1>3, <2>1 DEF SignerGate, SignersTyped, Signers
<1>4. ASSUME NEW c \in team, Install(c)
      PROVE  SignersTyped'
  <2>1. Offer(c) \in Offers
    BY <1>4, PackUnderWay DEF PackInv, Install
  <2>2. InstallWrites(Offer(c).pack, Offer(c).version, Offer(c).signer)
    BY <1>4 DEF Install
  <2> QED
    BY <1>2, <2>1, <2>2 DEF Offers
<1>5. ASSUME NEW c \in team, NEW p \in DOMAIN Seeds, InstallSeed(c, p)
      PROVE  SignersTyped'
  <2>1. p \in PackIds
    BY PacksAssumption
  <2> QED
    BY <1>2, <1>5, <2>1 DEF InstallSeed, Signers
<1>6. ASSUME NEW c \in team, NEW k \in Keys, RevokeSigner(c, k)
      PROVE  SignersTyped'
  BY <1>6 DEF RevokeSigner, SignersTyped
<1>7. ASSUME NEW p, Adopt(p)
      PROVE  UNCHANGED <<trusted, pins>>
  BY <1>7 DEF Adopt, WriteInstall
<1>8. CASE PacksNext
  <2>1. PICK c \in team :
            \/ Free /\ \E o \in Offers : BeginInstall(c, o)
            \/ AdoptFirst(c) \/ PinGate(c) \/ SignerGate(c) \/ TrustGate(c) \/ Install(c)
            \/ Refuse(c)
            \/ Abandon(c) /\ UNCHANGED packVars
            \/ \E p \in PackIds : List(c, p) \/ Uninstall(c, p)
            \/ \E p \in DOMAIN Seeds : InstallSeed(c, p)
            \/ \E k \in Keys : RevokeSigner(c, k)
            \/ \E m \in Merchants : Spend(c, m) \/ \E k \in Categories : Categorize(c, m, k)
    BY <1>8 DEF PacksNext
  <2>2. CASE \/ \E o \in Offers : BeginInstall(c, o)
             \/ PinGate(c) \/ TrustGate(c) \/ Refuse(c) \/ UNCHANGED packVars
             \/ \E p \in PackIds : Uninstall(c, p)
             \/ \E m \in Merchants : Spend(c, m) \/ \E k \in Categories : Categorize(c, m, k)
    BY <1>1, <2>2
       DEF BeginInstall, PinGate, TrustGate, Refuse, Uninstall, Spend, Categorize, packVars
  <2>3. CASE AdoptFirst(c) \/ \E p \in PackIds : List(c, p)
    BY <1>1, <1>7, <2>3 DEF AdoptFirst, List, packVars
  <2> QED
    BY <1>3, <1>4, <1>5, <1>6, <2>1, <2>2, <2>3
<1> QED
  BY <1>1, <1>8 DEF packVars

(***************************************************************************)
(* Proved of net worth: for any days, accounts and amounts, and any number *)
(* of processes, the series tells what the transactions made.              *)
(***************************************************************************)
DayTable == [Holdings -> [Days -> Int \cup {None}]]

SnapshotsTrue ==
    \A a \in Holdings, d \in Days :
        snapshots[a][d] # None /\ <<a, d>> \notin outdated => snapshots[a][d] = Balance(a, d)

\* Once backfilled, every day that moved has its snapshot.
NoGaps == filled => \A a \in opened : \A d \in MovedOn(a) : snapshots[a][d] # None

\* The inductive invariant.
WorthInv ==
    /\ movements \in DayTable
    /\ snapshots \in DayTable
    /\ opened \in SUBSET Holdings
    /\ \A a \in Holdings : a \notin opened => MovedOn(a) = {}
    /\ SnapshotsTrue
    /\ NoGaps

LEMMA DaysFinite == ASSUME NEW D \in SUBSET Days PROVE IsFiniteSet(D)
BY WorthAssumption, FS_Subset

LEMMA SumOverInt ==
    ASSUME movements \in DayTable, NEW a \in Holdings, NEW D \in SUBSET MovedOn(a)
    PROVE  SumOver(a, D) \in Int
<1> DEFINE f == [d \in D |-> movements[a][d]]
<1>1. IsFiniteSet(D) /\ DOMAIN f = D
  BY DaysFinite DEF MovedOn
<1>2. \A d \in D : f[d] \in Int
  BY DEF DayTable, MovedOn
<1> HIDE DEF f
<1>3. Total(f) \in Int
  BY <1>1, <1>2, TotalInt
<1> QED
  BY <1>3 DEF SumOver, f

LEMMA BalanceInt ==
    ASSUME movements \in DayTable, NEW a \in Holdings, NEW d \in Days
    PROVE  Balance(a, d) \in Int
<1>1. {e \in MovedOn(a) : e <= d} \in SUBSET MovedOn(a)
  OBVIOUS
<1>2. OpeningOf[a] \in Int
  BY WorthAssumption
<1> QED
  BY <1>1, <1>2, SumOverInt DEF Balance

\* Walking back from today's total gives the balance added up to the day.
LEMMA WalkIsBalance ==
    ASSUME movements \in DayTable, NEW a \in Holdings, NEW day \in Days
    PROVE  WalkedBack(a, day) = Balance(a, day)
<1> DEFINE S == MovedOn(a)
           P == {d \in MovedOn(a) : d <= day}
           Q == {d \in MovedOn(a) : d > day}
           f == [d \in S |-> movements[a][d]]
           e == [d \in P |-> movements[a][d]]
           h == [d \in Q |-> movements[a][d]]
<1>1. P \in SUBSET S /\ S \in SUBSET Days /\ Q \in SUBSET S
  BY DEF MovedOn
<1>2. Q = S \ P
  <2>1. day \in Int /\ \A d \in S : d \in Int
    BY <1>1, WorthAssumption
  <2>2. \A d \in S : d > day <=> ~(d <= day)
    BY <2>1
  <2> QED
    BY <2>2
<1>3. IsFiniteSet(S)
  BY <1>1, DaysFinite
<1>4. /\ DOMAIN f = S /\ \A d \in S : f[d] \in Int
      /\ DOMAIN e = P /\ \A d \in P : e[d] = f[d]
      /\ DOMAIN h = Q /\ \A d \in Q : h[d] = f[d]
  BY <1>1 DEF DayTable, MovedOn
<1>5. Total(f) = SumOver(a, S) /\ Total(e) = SumOver(a, P) /\ Total(h) = SumOver(a, Q)
  BY DEF SumOver
<1> HIDE DEF f, e, h
<1>6. Total(f) = Total(e) + Total(h)
  <2> HIDE DEF S, P, Q
  <2>1. DOMAIN h = S \ P /\ \A d \in S \ P : h[d] = f[d]
    BY <1>2, <1>4
  <2> QED
    BY <1>1, <1>3, <1>4, <2>1, TotalSplit
<1>7. SumOver(a, S) = SumOver(a, P) + SumOver(a, Q)
  BY <1>5, <1>6
<1>8. SumOver(a, S) \in Int /\ SumOver(a, P) \in Int /\ SumOver(a, Q) \in Int /\ OpeningOf[a] \in Int
  BY <1>1, SumOverInt, WorthAssumption
<1>9. WalkedBack(a, day) = (OpeningOf[a] + SumOver(a, S)) - SumOver(a, Q)
  BY DEF WalkedBack
<1>10. Balance(a, day) = SumOver(a, P) + OpeningOf[a]
  BY DEF Balance
<1> HIDE DEF S, P, Q
<1> QED
  BY <1>7, <1>8, <1>9, <1>10

\* The balance of a day asks only the movements up to it.
LEMMA BalanceOfPast ==
    ASSUME movements \in DayTable, NEW a \in Holdings, NEW d \in Days,
           movements' \in DayTable,
           \A e \in Days : e <= d => movements'[a][e] = movements[a][e]
    PROVE  Balance(a, d)' = Balance(a, d)
<1>1. {e \in MovedOn(a)' : e <= d} = {e \in MovedOn(a) : e <= d}
  BY DEF MovedOn
<1>2. [e \in {x \in MovedOn(a)' : x <= d} |-> movements'[a][e]]
          = [e \in {x \in MovedOn(a) : x <= d} |-> movements[a][e]]
  BY <1>1 DEF MovedOn
<1> QED
  BY <1>2 DEF Balance, SumOver

\* Between two days without a movement in between the balance stands.
LEMMA BalanceStands ==
    ASSUME NEW a \in Holdings, NEW d \in Days, NEW e \in Days, e <= d,
           \A x \in MovedOn(a) : x <= d => x <= e
    PROVE  Balance(a, d) = Balance(a, e)
<1>1. {x \in MovedOn(a) : x <= d} = {x \in MovedOn(a) : x <= e}
  <2>1. d \in Int /\ e \in Int /\ \A x \in MovedOn(a) : x \in Int
    BY WorthAssumption DEF MovedOn
  <2>2. \A x \in MovedOn(a) : x <= d <=> x <= e
    BY <2>1
  <2> QED
    BY <2>2
<1> QED
  BY <1>1 DEF Balance

LEMMA BalanceAtFirst ==
    ASSUME NEW a \in Holdings, NEW d \in Days, \A x \in MovedOn(a) : ~(x <= d)
    PROVE  Balance(a, d) = OpeningOf[a]
<1> DEFINE f == [x \in {y \in MovedOn(a) : y <= d} |-> movements[a][x]]
<1>1. DOMAIN f = {}
  OBVIOUS
<1>2. Total(f) = 0
  BY <1>1, TotalEmpty
<1>3. OpeningOf[a] \in Int
  BY WorthAssumption
<1> QED
  BY <1>2, <1>3 DEF Balance, SumOver

\* Finitely many days, and a latest of them.
LEMMA LatestDay ==
    ASSUME NEW D \in SUBSET Days, D # {}
    PROVE  Max(D) \in D /\ \A d \in D : d <= Max(D)
<1> DEFINE Good == {T \in SUBSET D : T = {} \/ \E x \in T : \A y \in T : x >= y}
<1>1. D \in SUBSET Int /\ IsFiniteSet(D)
  BY WorthAssumption, DaysFinite
<1>2. {} \in Good
  OBVIOUS
<1>3. \A T \in SUBSET D, x \in D : T \in Good /\ x \notin T => T \cup {x} \in Good
  <2> SUFFICES ASSUME NEW T \in SUBSET D, NEW x \in D, T \in Good
               PROVE  T \cup {x} \in Good
    OBVIOUS
  <2> SUFFICES \E z \in T \cup {x} : \A y \in T \cup {x} : z >= y
    OBVIOUS
  <2>1. CASE T = {}
    BY <1>1, <2>1
  <2>2. CASE \E z \in T : \A y \in T : z >= y
    <3>1. PICK z \in T : \A y \in T : z >= y
      BY <2>2
    <3>2. CASE z >= x
      BY <3>1, <3>2
    <3>3. CASE ~(z >= x)
      BY <1>1, <3>1, <3>3
    <3> QED
      BY <3>2, <3>3
  <2> QED
    BY <2>1, <2>2
<1> HIDE DEF Good
<1>4. D \in Good
  BY <1>1, <1>2, <1>3, FiniteInduction
<1>5. PICK x \in D : \A y \in D : x >= y
  BY <1>4 DEF Good
<1>6. Max(D) \in D /\ \A y \in D : Max(D) >= y
  BY <1>5 DEF Max
<1> QED
  BY <1>1, <1>6

\* A step that leaves the movements leaves every balance.
LEMMA BalancesStay ==
    ASSUME UNCHANGED movements
    PROVE  \A a \in Holdings : /\ MovedOn(a)' = MovedOn(a)
                               /\ \A d \in Days : Balance(a, d)' = Balance(a, d)
BY DEF Balance, SumOver, MovedOn

\* Snapshots are only added, and each tells its day's balance.
LEMMA AddedSnapshots ==
    ASSUME WorthInv, UNCHANGED <<opened, movements, outdated>>, snapshots' \in DayTable,
           \A a \in Holdings, d \in Days :
               snapshots'[a][d] # snapshots[a][d] =>
                   snapshots[a][d] = None /\ snapshots'[a][d] = Balance(a, d),
           filled' => \/ filled
                      \/ \A a \in opened : \A d \in MovedOn(a) : snapshots'[a][d] # None
    PROVE  WorthInv'
<1>1. \A a \in Holdings : /\ MovedOn(a)' = MovedOn(a)
                          /\ \A d \in Days : Balance(a, d)' = Balance(a, d)
  BY BalancesStay
<1>2. \A a \in Holdings, d \in Days : Balance(a, d) # None
  BY BalanceInt, WorthAssumption DEF WorthInv
<1>3. SnapshotsTrue'
  BY <1>1 DEF WorthInv, SnapshotsTrue
<1>4. NoGaps'
  <2> SUFFICES ASSUME filled', NEW a \in opened', NEW d \in MovedOn(a)'
               PROVE  snapshots'[a][d] # None
    BY DEF NoGaps
  <2>1. a \in opened /\ a \in Holdings /\ d \in MovedOn(a) /\ d \in Days
    BY <1>1 DEF WorthInv, MovedOn
  <2> QED
    BY <1>2, <2>1 DEF WorthInv, NoGaps
<1> QED
  BY <1>1, <1>3, <1>4 DEF WorthInv

LEMMA WorthStep == WorthInv /\ [WorthNext]_<<connVars, worthVars>> => WorthInv'
<1> SUFFICES ASSUME WorthInv, [WorthNext]_<<connVars, worthVars>> PROVE WorthInv'
  OBVIOUS
<1>1. CASE UNCHANGED worthVars
  <2>1. /\ movements' = movements /\ snapshots' = snapshots /\ opened' = opened
        /\ outdated' = outdated /\ filled' = filled
    BY <1>1 DEF worthVars
  <2> QED
    BY <2>1, AddedSnapshots DEF WorthInv
<1>2. ASSUME NEW c \in team, NEW a \in Holdings, OpenAccount(c, a)
      PROVE  WorthInv'
  <2>1. /\ opened' = opened \cup {a} /\ a \notin opened /\ movements' = movements
        /\ snapshots' = snapshots /\ outdated' = outdated /\ filled' = filled
    BY <1>2 DEF OpenAccount
  <2>2. \A b \in Holdings : /\ MovedOn(b)' = MovedOn(b)
                            /\ \A d \in Days : Balance(b, d)' = Balance(b, d)
    BY <2>1, BalancesStay
  <2> QED
    BY <2>1, <2>2 DEF WorthInv, SnapshotsTrue, NoGaps
<1>3. ASSUME NEW c \in team, NEW a \in Holdings, DeleteAccount(c, a)
      PROVE  WorthInv'
  <2>1. /\ opened' = opened \ {a} /\ movements' = movements
        /\ snapshots' = snapshots /\ outdated' = outdated /\ filled' = filled
        /\ MovedOn(a) = {}
    BY <1>3 DEF DeleteAccount, MovedOn
  <2>2. \A b \in Holdings : /\ MovedOn(b)' = MovedOn(b)
                            /\ \A d \in Days : Balance(b, d)' = Balance(b, d)
    BY <2>1, BalancesStay
  <2> QED
    BY <2>1, <2>2 DEF WorthInv, SnapshotsTrue, NoGaps
<1>4. ASSUME NEW c \in team, NEW a \in Holdings, NEW day \in Days, NEW amount \in Amounts,
             Book(c, a, day, amount)
      PROVE  WorthInv'
  <2> DEFINE sum == (IF movements[a][day] = None THEN 0 ELSE movements[a][day]) + amount
  <2>1. /\ a \in opened /\ opened' = opened /\ snapshots' = snapshots /\ filled' = FALSE
        /\ movements' = [movements EXCEPT ![a][day] = sum]
        /\ outdated' = outdated \cup {<<a, d>> : d \in {e \in Days : e >= day
                                                                /\ snapshots[a][e] # None}}
    BY <1>4 DEF Book
  <2>2. sum \in Int
    <3>1. amount \in Int /\ movements[a][day] \in Int \cup {None}
      BY WorthAssumption DEF WorthInv, DayTable
    <3> QED
      BY <3>1
  <2> HIDE DEF sum
  <2>3. /\ movements' \in DayTable
        /\ \A b \in Holdings, d \in Days : b # a \/ d # day => movements'[b][d] = movements[b][d]
    BY <2>1, <2>2 DEF WorthInv, DayTable
  <2>4. \A b \in Holdings : b \notin opened' => MovedOn(b)' = {}
    BY <2>1, <2>3 DEF WorthInv, MovedOn
  <2>5. ASSUME NEW b \in Holdings, NEW d \in Days, snapshots'[b][d] # None,
               <<b, d>> \notin outdated'
        PROVE  snapshots'[b][d] = Balance(b, d)'
    <3>1. <<b, d>> \notin outdated /\ (b # a \/ ~(d >= day)) /\ snapshots[b][d] # None
      BY <2>1, <2>5
    <3>2. \A e \in Days : e <= d => movements'[b][e] = movements[b][e]
      BY <2>3, <3>1, WorthAssumption
    <3>3. Balance(b, d)' = Balance(b, d)
      BY <2>3, <3>2, BalanceOfPast DEF WorthInv
    <3> QED
      BY <2>1, <3>1, <3>3 DEF WorthInv, SnapshotsTrue
  <2>6. SnapshotsTrue'
    BY <2>5 DEF SnapshotsTrue
  <2> QED
    BY <2>1, <2>3, <2>4, <2>6 DEF WorthInv, NoGaps
<1>5. ASSUME NEW c \in team, Capture(c)
      PROVE  WorthInv'
  <2>1. PICK day, those : day = seen[c].day /\ those = seen[c].accounts
    OBVIOUS
  <2>2. /\ snapshots' = [a \in Holdings |->
               IF a \in those /\ snapshots[a][day] = None
               THEN [snapshots[a] EXCEPT ![day] = Balance(a, day)]
               ELSE snapshots[a]]
        /\ UNCHANGED <<opened, movements, outdated, filled>>
    BY <1>5, <2>1 DEF Capture
  <2>3. \A a \in Holdings, d \in Days : Balance(a, d) \in Int
    BY BalanceInt DEF WorthInv
  <2>4. ASSUME NEW a \in Holdings
        PROVE  /\ snapshots'[a] \in [Days -> Int \cup {None}]
               /\ \A d \in Days : snapshots'[a][d] # snapshots[a][d] =>
                      snapshots[a][d] = None /\ snapshots'[a][d] = Balance(a, d)
    <3>1. snapshots[a] \in [Days -> Int \cup {None}]
      BY DEF WorthInv, DayTable
    <3> QED
      BY <2>2, <2>3, <3>1
  <2>5. snapshots' \in DayTable
    BY <2>2, <2>4 DEF DayTable
  <2> QED
    BY <2>2, <2>4, <2>5, AddedSnapshots
<1>6. ASSUME NEW c \in team, Backfill(c)
      PROVE  WorthInv'
  <2>1. PICK those : those = seen[c].accounts
    OBVIOUS
  <2>2. /\ snapshots' = [a \in Holdings |-> [d \in Days |->
               IF a \in those /\ movements[a][d] # None /\ snapshots[a][d] = None
               THEN WalkedBack(a, d) ELSE snapshots[a][d]]]
        /\ filled' = (opened \subseteq those)
        /\ UNCHANGED <<opened, movements, outdated>>
    BY <1>6, <2>1 DEF Backfill
  <2>3. \A a \in Holdings, d \in Days : Balance(a, d) \in Int /\ WalkedBack(a, d) = Balance(a, d)
    BY BalanceInt, WalkIsBalance DEF WorthInv
  <2>4. snapshots' \in DayTable
    BY <2>2, <2>3 DEF WorthInv, DayTable
  <2>5. \A a \in Holdings, d \in Days :
            snapshots'[a][d] # snapshots[a][d] =>
                snapshots[a][d] = None /\ snapshots'[a][d] = Balance(a, d)
    BY <2>2, <2>3
  <2>6. ASSUME filled', NEW a \in opened, NEW d \in MovedOn(a)
        PROVE  snapshots'[a][d] # None
    <3>1. a \in Holdings /\ d \in Days /\ a \in those /\ movements[a][d] # None
      BY <2>2, <2>6 DEF WorthInv, MovedOn
    <3> QED
      BY <2>2, <2>3, <3>1, WorthAssumption
  <2> QED
    BY <2>2, <2>4, <2>5, <2>6, AddedSnapshots
<1>7. CASE WorthNext
  BY <1>1, <1>2, <1>3, <1>4, <1>5, <1>6, <1>7 DEF WorthNext, BackfillRead, CaptureRead
<1> QED
  BY <1>1, <1>7 DEF worthVars

LEMMA WorthInitially == WorthInit => WorthInv
<1> SUFFICES ASSUME WorthInit PROVE WorthInv
  OBVIOUS
<1>1. /\ \A a \in Holdings, d \in Days : movements[a][d] = None /\ snapshots[a][d] = None
      /\ movements \in DayTable /\ snapshots \in DayTable
      /\ opened = {} /\ filled = FALSE
  BY DEF WorthInit, DayTable
<1> QED
  BY <1>1 DEF WorthInv, SnapshotsTrue, NoGaps, MovedOn

\* By one process or several, a snapshot tells what the transactions made of its day, and a
\* backfilled series tells every day's balance (service.rs: net_worth_capture and
\* net_worth_backfill's walk from today's total).
THEOREM SeriesIsTrue == WorthSpec => []SeriesTellsTheLedger
<1>1. WorthInv => SeriesTellsTheLedger
  <2> SUFFICES ASSUME WorthInv, NEW a \in opened, NEW day \in Days
               PROVE  /\ snapshots[a][day] # None /\ <<a, day>> \notin outdated =>
                             snapshots[a][day] = Balance(a, day)
                      /\ filled =>
                             IF PointOf(a, day) = None THEN Balance(a, day) = OpeningOf[a]
                             ELSE <<a, PointOf(a, day)>> \notin outdated =>
                                      snapshots[a][PointOf(a, day)] = Balance(a, day)
    BY DEF SeriesTellsTheLedger
  <2>1. a \in Holdings
    BY DEF WorthInv
  <2>2. snapshots[a][day] # None /\ <<a, day>> \notin outdated =>
            snapshots[a][day] = Balance(a, day)
    BY <2>1 DEF WorthInv, SnapshotsTrue
  <2>3. ASSUME filled
        PROVE  IF PointOf(a, day) = None THEN Balance(a, day) = OpeningOf[a]
               ELSE <<a, PointOf(a, day)>> \notin outdated =>
                        snapshots[a][PointOf(a, day)] = Balance(a, day)
    <3> DEFINE known == {d \in Days : d <= day /\ snapshots[a][d] # None}
    <3>1. known \in SUBSET Days /\ \A d \in MovedOn(a) : d <= day => d \in known
      BY <2>1, <2>3 DEF WorthInv, NoGaps, MovedOn
    <3>2. CASE known = {}
      <4>1. \A x \in MovedOn(a) : ~(x <= day)
        BY <3>1, <3>2
      <4>2. Balance(a, day) = OpeningOf[a]
        BY <2>1, <4>1, BalanceAtFirst
      <4> QED
        BY <3>2, <4>2 DEF PointOf
    <3>3. CASE known # {}
      <4> DEFINE e == Max(known)
      <4>1. PointOf(a, day) = e
        BY <3>3 DEF PointOf
      <4>2. e \in known /\ \A d \in known : d <= e
        BY <3>1, <3>3, LatestDay
      <4> HIDE DEF e
      <4>3. e \in Days /\ e <= day /\ snapshots[a][e] # None /\ e # None
        BY <4>2, WorthAssumption
      <4>4. \A x \in MovedOn(a) : x <= day => x <= e
        BY <3>1, <4>2
      <4>5. Balance(a, day) = Balance(a, e)
        BY <2>1, <4>3, <4>4, BalanceStands
      <4>6. <<a, e>> \notin outdated => snapshots[a][e] = Balance(a, e)
        BY <2>1, <4>3 DEF WorthInv, SnapshotsTrue
      <4> QED
        BY <4>1, <4>3, <4>5, <4>6
    <3> QED
      BY <3>2, <3>3
  <2> QED
    BY <2>2, <2>3
<1> QED
  BY <1>1, WorthInitially, WorthStep, PTL DEF WorthSpec

\* What the proof of the series does not need to know of the accounts and their rows.
WorthRows ==
    /\ opened \cap erased = {}
    /\ bookings \in 0 .. MaxBookings
    /\ outdated \subseteq Slots
    /\ filled \in BOOLEAN

LEMMA WorthTypes == WorthInv /\ WorthRows => WorthTypeOK
BY DEF WorthInv, DayTable, WorthRows, WorthTypeOK, Slots

LEMMA RowsInitially == WorthInit => WorthRows
<1>1. 0 \in 0 .. MaxBookings
  BY WorthAssumption
<1> QED
  BY <1>1 DEF WorthInit, WorthRows

LEMMA RowsStep == WorthInv /\ WorthRows /\ [WorthNext]_<<connVars, worthVars>> => WorthRows'
<1> SUFFICES ASSUME WorthInv, WorthRows, [WorthNext]_<<connVars, worthVars>> PROVE WorthRows'
  OBVIOUS
<1>1. CASE UNCHANGED worthVars
  BY <1>1 DEF worthVars, WorthRows
<1>2. ASSUME NEW c \in team, NEW a \in Holdings, OpenAccount(c, a) \/ DeleteAccount(c, a)
      PROVE  WorthRows'
  BY <1>2 DEF OpenAccount, DeleteAccount, WorthRows
<1>3. ASSUME NEW c \in team, NEW a \in Holdings, NEW d \in Days, NEW x \in Amounts, Book(c, a, d, x)
      PROVE  WorthRows'
  <2>1. bookings' \in 0 .. MaxBookings
    <3>1. MaxBookings \in Nat
      BY WorthAssumption
    <3> QED
      BY <1>3, <3>1 DEF Book, WorthRows
  <2>2. outdated' \subseteq Slots
    BY <1>3 DEF Book, WorthRows, Slots
  <2> QED
    BY <1>3, <2>1, <2>2 DEF Book, WorthRows
<1>4. ASSUME NEW c \in team, Capture(c) \/ Backfill(c)
      PROVE  WorthRows'
  BY <1>4 DEF Capture, Backfill, WorthRows
<1>5. CASE WorthNext
  BY <1>1, <1>2, <1>3, <1>4, <1>5 DEF WorthNext, BackfillRead, CaptureRead
<1> QED
  BY <1>1, <1>5 DEF worthVars

(***************************************************************************)
(* Proved of documents: where one process has the book, what a person has  *)
(* reviewed stays.                                                         *)
(***************************************************************************)
\* What a call under way found of its document, of one process, is still so.
DocumentStillSo(c) ==
    /\ seen[c].job = "transition" => <<status[seen[c].doc], seen[c].to>> \in Moves
    /\ seen[c].job = "extraction" => status[seen[c].doc] # "reviewed"

\* The inductive invariant.
PaperInv ==
    /\ team \in SUBSET Conns
    /\ seen = [c \in Conns |-> seen[c]]
    /\ status = [d \in Papers |-> status[d]]
    /\ current = [d \in Papers |-> current[d]]
    /\ \A c \in Conns : seen[c] # None =>
           c \in team /\ (seen[c].job = "transition" => "job" \in DOMAIN seen[c])
    /\ Alone => \A c \in Conns : seen[c] # None => DocumentStillSo(c)

\* No move leads away from a reviewed document.
LEMMA ReviewedStays == ASSUME NEW to PROVE <<"reviewed", to>> \notin Moves
BY DEF Moves

\* A call that moves on holds what it has just found; with one process no other is under way.
LEMMA PaperCallMoves ==
    ASSUME PaperInv, NEW c \in team, NEW call, Keep(c, call),
           status' = [d \in Papers |-> status'[d]], current' = [d \in Papers |-> current'[d]],
           Alone => \A d \in Conns : d # c => seen[d] = None,
           call # None /\ call.job = "transition" =>
               <<status'[call.doc], call.to>> \in Moves /\ "job" \in DOMAIN call,
           call # None /\ call.job = "extraction" => status'[call.doc] # "reviewed"
    PROVE  PaperInv'
<1>1. c \in Conns /\ seen' = [seen EXCEPT ![c] = call] /\ team' = team /\ Alone' = Alone
  BY DEF PaperInv, Keep, Alone
<1>2. seen'[c] = call /\ \A d \in Conns : d # c => seen'[d] = seen[d]
  BY <1>1 DEF PaperInv
<1>3. ASSUME Alone, NEW d \in Conns, seen'[d] # None
      PROVE  DocumentStillSo(d)'
  <2>1. d = c /\ seen'[d] = call
    BY <1>2, <1>3
  <2> QED
    BY <1>2, <1>3, <2>1 DEF DocumentStillSo
<1> QED
  BY <1>1, <1>2, <1>3 DEF PaperInv

LEMMA PaperStep ==
    ASSUME PaperInv, NEW c \in team,
           \/ PaperCalls(c)
           \/ Import(c) \/ Transition(c) \/ Record(c) \/ Post(c)
           \/ \E d \in Papers : RunTakes(c, d)
           \/ \E slip \in Slips : ProviderAnswers(c, slip)
           \/ ProviderFails(c) \/ EndRun(c)
           \/ Abandon(c) /\ UNCHANGED paperVars
    PROVE  /\ PaperInv'
           /\ Alone => \A d \in Papers : status[d] = "reviewed" =>
                  status'[d] = "reviewed" /\ current'[d] = current[d]
<1> DEFINE Stands == Alone => \A d \in Papers : status[d] = "reviewed" =>
                         status'[d] = "reviewed" /\ current'[d] = current[d]
<1>1. c \in Conns /\ (Alone => \A d \in Conns : d # c => seen[d] = None)
  BY DEF PaperInv, Alone
<1>2. Alone /\ seen[c] # None => DocumentStillSo(c)
  BY <1>1 DEF PaperInv
<1>3. ASSUME UNCHANGED <<status, current>>, NEW call, Keep(c, call),
             call # None /\ call.job = "transition" =>
                 <<status[call.doc], call.to>> \in Moves /\ "job" \in DOMAIN call,
             call # None /\ call.job = "extraction" => status[call.doc] # "reviewed"
      PROVE  PaperInv' /\ Stands
  <2>1. status' = [d \in Papers |-> status'[d]] /\ current' = [d \in Papers |-> current'[d]]
    BY <1>3 DEF PaperInv
  <2> QED
    BY <1>1, <1>3, <2>1, PaperCallMoves
<1>4. ASSUME UNCHANGED <<status, current>>, NEW call, Keep(c, call),
             call.job \notin {"transition", "extraction"}
      PROVE  PaperInv' /\ Stands
  BY <1>3, <1>4
<1>5. CASE UNCHANGED <<status, current>> /\ Done(c)
  BY <1>3, <1>5 DEF Done
<1>6. CASE PaperCalls(c)
  <2>1. CASE BeginRun(c)
    BY <1>4, <2>1 DEF BeginRun, Read, Keep, paperVars
  <2>2. ASSUME NEW d \in Papers, ImportRead(c, d)
        PROVE  PaperInv' /\ Stands
    BY <1>4, <2>2 DEF ImportRead, Read, Keep, paperVars
  <2>3. ASSUME NEW d \in Papers, GenerateForDocument(c, d)
        PROVE  PaperInv' /\ Stands
    <3>1. PICK call : call = [job |-> "voucher", source |-> d,
                journal |-> [of |-> current[d], lines |-> DocumentLines(current[d])]]
      OBVIOUS
    <3>2. call.job = "voucher"
      BY <3>1
    <3> QED
      BY <1>4, <2>3, <3>1, <3>2 DEF GenerateForDocument, Read, Keep, paperVars
  <2>4. ASSUME NEW d \in Papers, NEW to \in Statuses, TransitionRead(c, d, to)
        PROVE  PaperInv' /\ Stands
    <3>1. PICK call : call = [job |-> "transition", doc |-> d, to |-> to, todo |-> None]
      OBVIOUS
    <3>2. call.job = "transition" /\ call.doc = d /\ call.to = to /\ "job" \in DOMAIN call
      BY <3>1
    <3>3. Keep(c, call) /\ UNCHANGED <<status, current>> /\ <<status[d], to>> \in Moves
      BY <2>4, <3>1 DEF TransitionRead, Read, Keep, paperVars
    <3> QED
      BY <1>3, <3>2, <3>3
  <2>5. ASSUME NEW d \in Papers, NEW slip \in Slips, RecordRead(c, d, slip)
        PROVE  PaperInv' /\ Stands
    <3>1. PICK call : call = [job |-> "extraction", doc |-> d, slip |-> slip, todo |-> None]
      OBVIOUS
    <3>2. call.job = "extraction" /\ call.doc = d
      BY <3>1
    <3>3. Keep(c, call) /\ UNCHANGED <<status, current>> /\ status[d] # "reviewed"
      BY <2>5, <3>1 DEF RecordRead, Read, Keep, paperVars
    <3> QED
      BY <1>3, <3>2, <3>3
  <2>6. ASSUME NEW t \in BankLines, NEW counter \in Counters, NEW rate \in VatRates \cup {None},
               GenerateForTransaction(c, t, counter, rate)
        PROVE  PaperInv' /\ Stands
    <3> DEFINE kind == CounterKind(AmountOnBank[t], counter)
    <3>1. PICK call : call = [job |-> "voucher", source |-> t,
                    journal |-> [of |-> [kind |-> kind, rate |-> rate],
                                 lines |-> TransactionLines(AmountOnBank[t], kind, rate)]]
      OBVIOUS
    <3>2. call.job = "voucher"
      BY <3>1
    <3>3. Keep(c, call) /\ UNCHANGED <<status, current>>
      BY <2>6, <3>1 DEF GenerateForTransaction, Read, Keep, paperVars
    <3> QED
      BY <1>4, <3>2, <3>3
  <2>7. ASSUME NEW s \in Sources, UndoVoucher(c, s)
        PROVE  PaperInv' /\ Stands
    <3>1. status' = status /\ current' = current /\ team' = team /\ seen' = seen /\ Alone' = Alone
      BY <2>7 DEF UndoVoucher, connVars, Alone
    <3> QED
      BY <3>1 DEF PaperInv, DocumentStillSo
  <2> QED
    <3>1. CASE \E d \in Papers :
                    \/ ImportRead(c, d) \/ GenerateForDocument(c, d)
                    \/ \E to \in Statuses : TransitionRead(c, d, to)
                    \/ \E slip \in Slips : RecordRead(c, d, slip)
      BY <2>2, <2>3, <2>4, <2>5, <3>1
    <3>2. CASE \E t \in BankLines, counter \in Counters, rate \in VatRates \cup {None} :
                    GenerateForTransaction(c, t, counter, rate)
      BY <2>6, <3>2
    <3>3. CASE \E s \in Sources : UndoVoucher(c, s)
      BY <2>7, <3>3
    <3> QED
      BY <1>6, <2>1, <3>1, <3>2, <3>3 DEF PaperCalls
<1>7. CASE Import(c)
  <2>1. PICK d : d = seen[c].doc
    OBVIOUS
  <2>2. /\ status[d] = None /\ status' = [status EXCEPT ![d] = "pending"] /\ current' = current
        /\ Keep(c, None)
    BY <1>7, <2>1 DEF Import, Done
  <2>3. /\ status' = [e \in Papers |-> status'[e]] /\ current' = [e \in Papers |-> current'[e]]
        /\ \A e \in Papers : e # d => status'[e] = status[e]
    BY <2>2 DEF PaperInv
  <2>4. status[d] # "reviewed"
    BY <2>2, PapersAssumption DEF Statuses
  <2>5. PaperInv'
    BY <1>1, <2>2, <2>3, PaperCallMoves
  <2> QED
    BY <2>2, <2>3, <2>4, <2>5
<1>8. CASE Transition(c)
  <2>1. PICK d, to, todo : d = seen[c].doc /\ to = seen[c].to /\ todo = seen[c].todo
    OBVIOUS
  <2>2. /\ status' = [status EXCEPT ![d] = to] /\ current' = current
        /\ seen[c] # None /\ seen[c].job = "transition"
    BY <1>8, <2>1 DEF Transition, Doing, Idle
  <2>3. /\ status' = [e \in Papers |-> status'[e]] /\ current' = [e \in Papers |-> current'[e]]
        /\ \A e \in Papers : e # d => status'[e] = status[e]
    BY <2>2 DEF PaperInv
  <2>4. Alone => status[d] # "reviewed"
    BY <1>2, <2>1, <2>2, ReviewedStays DEF DocumentStillSo
  <2>5. PICK call : /\ Keep(c, call)
                    /\ call # None => call.job \notin {"transition", "extraction"}
    <3>1. CASE Keep(c, [seen[c] EXCEPT !.job = "provider"])
      <4>1. PICK call : call = [seen[c] EXCEPT !.job = "provider"]
        OBVIOUS
      <4>2. "job" \in DOMAIN seen[c]
        BY <1>1, <2>2 DEF PaperInv
      <4>3. call.job = "provider"
        BY <4>1, <4>2
      <4> QED
        BY <3>1, <4>1, <4>3
    <3>2. CASE GoOnWith(c, todo)
      <4>1. PICK call : call = [job |-> "extract", todo |-> todo]
        OBVIOUS
      <4>2. call.job = "extract"
        BY <4>1
      <4> QED
        BY <3>2, <4>1, <4>2 DEF GoOnWith, Done
    <3> QED
      BY <1>8, <2>1, <3>1, <3>2 DEF Transition
  <2>6. PaperInv'
    BY <1>1, <2>3, <2>5, PaperCallMoves
  <2> QED
    BY <2>2, <2>3, <2>4, <2>6
<1>9. CASE Record(c)
  <2>1. PICK d, slip, todo : d = seen[c].doc /\ slip = seen[c].slip /\ todo = seen[c].todo
    OBVIOUS
  <2>2. /\ status' = [status EXCEPT ![d] = "extracted"] /\ current' = [current EXCEPT ![d] = slip]
        /\ seen[c] # None /\ seen[c].job = "extraction" /\ GoOnWith(c, todo)
    BY <1>9, <2>1 DEF Record, Doing, Idle
  <2>3. /\ status' = [e \in Papers |-> status'[e]] /\ current' = [e \in Papers |-> current'[e]]
        /\ \A e \in Papers : e # d => status'[e] = status[e] /\ current'[e] = current[e]
    BY <2>2 DEF PaperInv
  <2>4. Alone => status[d] # "reviewed"
    BY <1>2, <2>1, <2>2 DEF DocumentStillSo
  <2>5. PICK call : /\ Keep(c, call)
                    /\ call # None => call.job \notin {"transition", "extraction"}
    <3>1. PICK call : call = [job |-> "extract", todo |-> todo]
      OBVIOUS
    <3>2. call.job = "extract"
      BY <3>1
    <3> QED
      BY <2>2, <3>1, <3>2 DEF GoOnWith, Done
  <2>6. PaperInv'
    BY <1>1, <2>3, <2>5, PaperCallMoves
  <2> QED
    BY <2>3, <2>4, <2>6
<1>10. ASSUME NEW d \in Papers, RunTakes(c, d)
       PROVE  PaperInv' /\ Stands
  <2>1. PICK to : /\ <<status[d], to>> \in Moves
                  /\ Keep(c, [job |-> "transition", doc |-> d, to |-> to,
                              todo |-> seen[c].todo \ {d}])
                  /\ UNCHANGED <<status, current>>
    BY <1>10 DEF RunTakes, paperVars
  <2>2. PICK call : call = [job |-> "transition", doc |-> d, to |-> to,
                            todo |-> seen[c].todo \ {d}]
    OBVIOUS
  <2>3. call.job = "transition" /\ call.doc = d /\ call.to = to /\ "job" \in DOMAIN call
    BY <2>2
  <2>4. Keep(c, call)
    BY <2>1, <2>2
  <2> QED
    BY <1>3, <2>1, <2>3, <2>4
<1>11. ASSUME NEW slip \in Slips, ProviderAnswers(c, slip)
       PROVE  PaperInv' /\ Stands
  <2>1. PICK call : call = [job |-> "extraction", doc |-> seen[c].doc, slip |-> slip,
                            todo |-> seen[c].todo]
    OBVIOUS
  <2>2. call.job = "extraction" /\ call.doc = seen[c].doc
    BY <2>1
  <2>3. Keep(c, call) /\ UNCHANGED <<status, current>> /\ status[seen[c].doc] # "reviewed"
    BY <1>11, <2>1 DEF ProviderAnswers, paperVars
  <2> QED
    BY <1>3, <2>2, <2>3
<1>12. CASE ProviderFails(c)
  <2>1. PICK call : call = [job |-> "transition", doc |-> seen[c].doc, to |-> "failed",
                            todo |-> seen[c].todo]
    OBVIOUS
  <2>2. /\ call.job = "transition" /\ call.doc = seen[c].doc /\ call.to = "failed"
        /\ "job" \in DOMAIN call
    BY <2>1
  <2>3. /\ Keep(c, call) /\ UNCHANGED <<status, current>>
        /\ <<status[seen[c].doc], "failed">> \in Moves
    BY <1>12, <2>1 DEF ProviderFails, paperVars
  <2> QED
    BY <1>3, <2>2, <2>3
<1>13. CASE Post(c) \/ EndRun(c) \/ (Abandon(c) /\ UNCHANGED paperVars)
  BY <1>5, <1>13 DEF Post, EndRun, Abandon, paperVars
<1> HIDE DEF Stands
<1>14. PaperInv' /\ Stands
  BY <1>6, <1>7, <1>8, <1>9, <1>10, <1>11, <1>12, <1>13 DEF Stands
<1> QED
  BY <1>14 DEF Stands

\* With one process a reviewed document keeps its status and its extraction, whatever call or
\* extraction run comes after (service.rs: document_transition, the extraction's guard and
\* the run over pending documents).
THEOREM ReviewedDocumentsStand == PapersSpec => ReviewStands
<1>1. ConnInit /\ PapersInit => PaperInv
  BY TeamsAssumption DEF ConnInit, PapersInit, PaperInv
<1>2. PaperInv /\ [PapersNext]_<<connVars, paperVars>> => PaperInv'
  <2> SUFFICES ASSUME PaperInv, [PapersNext]_<<connVars, paperVars>> PROVE PaperInv'
    OBVIOUS
  <2>1. CASE PapersNext
    BY <2>1, PaperStep DEF PapersNext
  <2>2. CASE UNCHANGED <<connVars, paperVars>>
    BY <2>2 DEF connVars, paperVars, PaperInv, DocumentStillSo, Alone
  <2> QED
    BY <2>1, <2>2
<1> DEFINE Stand == Alone => \A d \in Papers : status[d] = "reviewed" =>
                        status'[d] = "reviewed" /\ current'[d] = current[d]
<1>3. PaperInv /\ [PapersNext]_<<connVars, paperVars>> => [Stand]_<<connVars, paperVars>>
  <2> SUFFICES ASSUME PaperInv, PapersNext PROVE Stand
    BY DEF connVars, paperVars
  <2> QED
    BY PaperStep DEF PapersNext
<1>4. [][Stand]_<<connVars, paperVars>> => ReviewStands
  BY DEF ReviewStands
<1> HIDE DEF Stand
<1> QED
  BY <1>1, <1>2, <1>3, <1>4, PTL DEF PapersSpec

(***************************************************************************)
(* Proved of the journals generated from documents and bank transactions:  *)
(* each says what its paper says.                                          *)
(***************************************************************************)
LEMMA SlipFields ==
    ASSUME NEW slip \in Slips
    PROVE  /\ slip.total \in Int /\ slip.vat \in Int \cup {None}
           /\ slip.breakdown \in Seq([base : Int, vat : Int])
           /\ slip.items \in Seq([total : Int, rate : Int \cup {None}])
BY PapersAssumption

\* The rows of a sequence are finitely many.
LEMMA RowsAreFinite ==
    ASSUME NEW R, NEW s \in Seq(R)
    PROVE  IsFiniteSet(DOMAIN s) /\ DOMAIN s \subseteq Int /\ \A i \in DOMAIN s : s[i] \in R
<1>1. Len(s) \in Nat /\ DOMAIN s = 1..Len(s) /\ \A i \in 1..Len(s) : s[i] \in R
  OBVIOUS
<1> QED
  BY <1>1, FS_Interval

LEMMA RoundedIsInt ==
    ASSUME NEW n \in Int, NEW d \in Int, d > 0
    PROVE  RoundHalfAway(n, d) \in Int /\ (n # 0 => RoundHalfAway(-n, d) = -RoundHalfAway(n, d))
<1>1. PICK h \in Int : h = d \div 2
  OBVIOUS
<1>2. \A k \in Int : k \div d \in Int
  OBVIOUS
<1>3. h + n \in Int /\ h - n \in Int /\ n + h = h + n /\ -n + h = h - n /\ h - (-n) = h + n
  OBVIOUS
<1>4. (h + n) \div d \in Int /\ (h - n) \div d \in Int
  BY <1>2, <1>3
<1> QED
  BY <1>1, <1>3, <1>4 DEF RoundHalfAway

\* VAT within an amount is an amount, and within the amount taken back it is taken back.
LEMMA VatIsInt ==
    ASSUME NEW gross \in Int, NEW rate \in Int
    PROVE  /\ VatWithin(gross, rate) \in Int
           /\ rate <= 0 => VatWithin(gross, rate) = 0
           /\ gross # 0 => VatWithin(-gross, rate) = -VatWithin(gross, rate)
<1>1. CASE rate <= 0
  <2>1. VatWithin(gross, rate) = 0 /\ VatWithin(-gross, rate) = 0
    BY <1>1 DEF VatWithin
  <2> QED
    BY <2>1
<1>2. CASE rate > 0
  <2>1. PICK d : d = Whole + rate
    OBVIOUS
  <2>2. d \in Int /\ d > 0
    BY <1>2, <2>1 DEF Whole
  <2>3. gross * rate \in Int /\ -gross * rate = -(gross * rate)
    OBVIOUS
  <2>4. gross # 0 => gross * rate # 0
    BY <1>2
  <2>5. VatWithin(gross, rate) = RoundHalfAway(gross * rate, d)
    BY <1>2, <2>1 DEF VatWithin
  <2>6. VatWithin(-gross, rate) = RoundHalfAway(-(gross * rate), d)
    BY <1>2, <2>1, <2>3 DEF VatWithin
  <2> QED
    BY <1>2, <2>2, <2>3, <2>4, <2>5, <2>6, RoundedIsInt
<1> QED
  BY <1>1, <1>2

\* What a slip's items contain, rate by rate, is what they contain.
LEMMA RatesAddUp ==
    ASSUME NEW slip \in Slips, Tagged(slip)
    PROVE  /\ IsFiniteSet(Rates(slip)) /\ Rates(slip) \subseteq Int
           /\ \A r \in Rates(slip) : GrossAt(slip, r) \in Int /\ VatAt(slip, r) \in Int
           /\ \A r \in Rates(slip) : r <= 0 => VatAt(slip, r) = 0
           /\ Total([r \in Rates(slip) |-> VatAt(slip, r)])
                  = Total([i \in DOMAIN slip.items |-> VatOf(slip.items[i])])
           /\ Total([r \in Rates(slip) |-> VatAt(slip, r)]) \in Int
<1> DEFINE S == DOMAIN slip.items
           T == Rates(slip)
           f == [i \in S |-> VatOf(slip.items[i])]
           g == [i \in S |-> slip.items[i].rate]
           h == [r \in T |-> VatAt(slip, r)]
<1>1. IsFiniteSet(S) /\ \A i \in S : slip.items[i].total \in Int /\ slip.items[i].rate \in Int
  <2>1. IsFiniteSet(S) /\ \A i \in S : slip.items[i] \in [total : Int, rate : Int \cup {None}]
    BY SlipFields, RowsAreFinite
  <2> QED
    BY <2>1 DEF Tagged
<1>2. \A i \in S : VatOf(slip.items[i]) \in Int
  BY <1>1, VatIsInt DEF VatOf
<1>3. T \subseteq Int /\ g \in Surjection(S, T)
  BY <1>1 DEF Rates, Surjection
<1>4. IsFiniteSet(T)
  BY <1>1, <1>3, FS_Surjection
<1>5. \A r : AtRate(slip, r) \subseteq S /\ IsFiniteSet(AtRate(slip, r))
  <2>1. \A r : AtRate(slip, r) \subseteq S
    BY DEF AtRate
  <2> QED
    BY <1>1, <2>1, FS_Subset
<1>6. ASSUME NEW r \in T
      PROVE  GrossAt(slip, r) \in Int /\ VatAt(slip, r) \in Int /\ (r <= 0 => VatAt(slip, r) = 0)
  <2> DEFINE a == [i \in AtRate(slip, r) |-> slip.items[i].total]
             b == [i \in AtRate(slip, r) |-> VatOf(slip.items[i])]
  <2>1. /\ IsFiniteSet(DOMAIN a) /\ IsFiniteSet(DOMAIN b)
        /\ \A i \in DOMAIN a : a[i] \in Int
        /\ \A i \in DOMAIN b : b[i] \in Int
    BY <1>1, <1>2, <1>5
  <2>2. r <= 0 => \A i \in DOMAIN b : b[i] = 0
    BY <1>1, <1>5, VatIsInt DEF AtRate, VatOf
  <2> HIDE DEF a, b
  <2>3. Total(a) \in Int /\ Total(b) \in Int /\ (r <= 0 => Total(b) = 0)
    BY <2>1, <2>2, TotalInt, TotalZero
  <2> QED
    BY <2>3 DEF GrossAt, VatAt, a, b
<1>7. Total(f) = Total(h)
  <2>1. \A r : Grouped(g, S, r) = AtRate(slip, r)
    BY DEF Grouped, AtRate
  <2>2. ASSUME NEW r \in T
        PROVE  h[r] = Total([i \in Grouped(g, S, r) |-> f[i]])
    <3>1. [i \in Grouped(g, S, r) |-> f[i]] = [i \in AtRate(slip, r) |-> VatOf(slip.items[i])]
      BY <1>5, <2>1
    <3> QED
      BY <3>1 DEF VatAt
  <2>3. AddsGroups(h, f, g, S, T)
    BY <2>2 DEF AddsGroups
  <2>4. DOMAIN f = S /\ (\A i \in S : f[i] \in Int) /\ \A i \in S : g[i] \in T
    BY <1>2 DEF Rates
  <2> HIDE DEF S, T, f, g, h
  <2> QED
    BY <1>1, <1>4, <2>3, <2>4, TotalGrouped
<1>8. Total(h) \in Int
  <2>1. IsFiniteSet(DOMAIN h) /\ \A r \in DOMAIN h : h[r] \in Int
    BY <1>4, <1>6
  <2> HIDE DEF h
  <2> QED
    BY <2>1, TotalInt
<1> QED
  BY <1>3, <1>4, <1>6, <1>7, <1>8


\* Of finitely many rates one carries the most.
LEMMA OneLeads ==
    ASSUME NEW T \in SUBSET Int, IsFiniteSet(T), T # {}, NEW w, \A r \in T : w[r] \in Int
    PROVE  \E m \in T : \A q \in T : w[q] < w[m] \/ (w[q] = w[m] /\ q <= m)
<1> DEFINE Leads(m, A) == \A q \in A : w[q] < w[m] \/ (w[q] = w[m] /\ q <= m)
           Good == {A \in SUBSET T : A # {} => \E m \in A : Leads(m, A)}
<1>1. {} \in Good
  OBVIOUS
<1>2. ASSUME NEW A \in SUBSET T, NEW x \in T, A \in Good, x \notin A
      PROVE  A \cup {x} \in Good
  <2>1. CASE A = {}
    <3>1. Leads(x, A \cup {x}) /\ x \in A \cup {x}
      BY <2>1
    <3> QED
      BY <1>2, <3>1
  <2>2. CASE A # {}
    <3>1. PICK m \in A : Leads(m, A)
      BY <1>2, <2>2
    <3>2. m \in Int /\ x \in Int /\ w[m] \in Int /\ w[x] \in Int
          /\ \A q \in A : q \in Int /\ w[q] \in Int
      OBVIOUS
    <3>3. CASE w[x] < w[m] \/ (w[x] = w[m] /\ x <= m)
      BY <3>1, <3>3
    <3>4. CASE ~(w[x] < w[m] \/ (w[x] = w[m] /\ x <= m))
      <4>1. \A q \in A : w[q] < w[x] \/ (w[q] = w[x] /\ q <= x)
        BY <3>1, <3>2, <3>4
      <4>2. Leads(x, A \cup {x})
        BY <3>2, <4>1
      <4> QED
        BY <1>2, <4>2
    <3> QED
      BY <3>3, <3>4
  <2> QED
    BY <2>1, <2>2
<1> HIDE DEF Good
<1>3. T \in Good
  BY <1>1, <1>2, FiniteInduction
<1> QED
  BY <1>3 DEF Good

\* One rate is the dominant one, if any is above nothing, and only one.
LEMMA OneDominates ==
    ASSUME NEW slip \in Slips, Tagged(slip), \E r \in Rates(slip) : r > 0
    PROVE  \E m \in Rates(slip) : \A r \in Rates(slip) : Dominant(slip, r) <=> r = m
<1> DEFINE T == {r \in Rates(slip) : r > 0}
           w == [r \in T |-> VatAt(slip, r)]
<1>1. T \in SUBSET Int /\ IsFiniteSet(T) /\ T # {} /\ \A r \in T : w[r] \in Int
  BY RatesAddUp, FS_Subset
<1>2. \A r \in T : w[r] = VatAt(slip, r)
  OBVIOUS
<1>3. \A r : r \in T <=> r \in Rates(slip) /\ r > 0
  OBVIOUS
<1> HIDE DEF T, w
<1>4. PICK m \in T : \A q \in T : w[q] < w[m] \/ (w[q] = w[m] /\ q <= m)
  BY <1>1, OneLeads
<1>5. Dominant(slip, m)
  BY <1>2, <1>3, <1>4 DEF Dominant
<1>6. ASSUME NEW r \in Rates(slip), Dominant(slip, r)
      PROVE  r = m
  <2>1. r \in T
    BY <1>3, <1>6 DEF Dominant
  <2>2. w[m] < w[r] \/ (w[m] = w[r] /\ m <= r)
    BY <1>2, <1>3, <1>6, <2>1 DEF Dominant
  <2>3. w[r] < w[m] \/ (w[r] = w[m] /\ r <= m)
    BY <1>4, <2>1
  <2>4. w[r] \in Int /\ w[m] \in Int /\ r \in Int /\ m \in Int
    BY <1>1, <2>1
  <2> QED
    BY <2>2, <2>3, <2>4
<1> QED
  BY <1>3, <1>5, <1>6

\* What the rates claim is the VAT the slip states, where it states one and a rate is above
\* nothing, and what the items contain where not.
LEMMA RatesClaim ==
    ASSUME NEW slip \in Slips, Tagged(slip)
    PROVE  /\ \A r \in Rates(slip) : ClaimedAt(slip, r) \in Int
           /\ Total([r \in Rates(slip) |-> ClaimedAt(slip, r)])
                 = IF slip.vat = None \/ \A i \in DOMAIN slip.items : slip.items[i].rate <= 0
                   THEN Total([i \in DOMAIN slip.items |-> VatOf(slip.items[i])])
                   ELSE slip.vat
<1> DEFINE T == Rates(slip)
           h == [r \in T |-> VatAt(slip, r)]
           f == [r \in T |-> ClaimedAt(slip, r)]
           derived == Total([i \in DOMAIN slip.items |-> VatOf(slip.items[i])])
           low == \A i \in DOMAIN slip.items : slip.items[i].rate <= 0
           claimed == IF slip.vat = None \/ low THEN derived ELSE slip.vat
<1>1. /\ IsFiniteSet(T) /\ T \subseteq Int /\ DOMAIN h = T /\ DOMAIN f = T
      /\ \A r \in T : h[r] = VatAt(slip, r) /\ h[r] \in Int /\ f[r] = ClaimedAt(slip, r)
      /\ Total(h) = derived /\ derived \in Int
  BY RatesAddUp
<1>2. Drift(slip) = IF slip.vat = None THEN 0 ELSE slip.vat - derived
  BY RatesAddUp DEF Drift
<1>3. slip.vat \in Int \cup {None} /\ None \notin Int
  BY SlipFields, PapersAssumption
<1>4. Drift(slip) \in Int
  BY <1>1, <1>2, <1>3
<1>5. \A r \in T : f[r] = h[r] + IF Dominant(slip, r) THEN Drift(slip) ELSE 0
  BY <1>1 DEF ClaimedAt
<1>6. low <=> ~(\E r \in T : r > 0)
  <2>1. \A r \in T : r > 0 <=> ~(r <= 0)
    BY <1>1
  <2>2. \A r : r \in T <=> \E i \in DOMAIN slip.items : r = slip.items[i].rate
    BY DEF Rates
  <2> HIDE DEF T
  <2> QED
    BY <2>1, <2>2
<1>7. \A r \in T : f[r] \in Int
  BY <1>1, <1>4, <1>5
<1>8. IsFiniteSet(T) /\ DOMAIN f = T /\ DOMAIN h = T
  BY <1>1
<1>9. Total(h) = derived /\ derived \in Int
  BY <1>1
<1>10. \A r \in T : f[r] \in Int /\ h[r] \in Int
  BY <1>1, <1>7
<1> HIDE DEF T, h, f, derived, low
<1>11. ASSUME Drift(slip) = 0
      PROVE  Total(f) = claimed
  <2>1. \A r \in T : f[r] = h[r]
    BY <1>1, <1>5, <1>11
  <2>2. Total(f) = derived
    <3>1. Total(f) = Total(h)
      BY <1>8, <2>1, TotalSame
    <3> QED
      BY <1>9, <3>1
  <2>3. slip.vat = None \/ slip.vat = derived
    BY <1>1, <1>2, <1>3, <1>11
  <2> QED
    BY <2>2, <2>3
<1>12. ASSUME Drift(slip) # 0 /\ ~(\E r \in T : r > 0)
      PROVE  Total(f) = claimed
  <2>1. \A r \in T : ~Dominant(slip, r)
    BY <1>12 DEF Dominant
  <2>2. \A r \in T : f[r] = h[r]
    BY <1>1, <1>5, <2>1
  <2>3. Total(f) = derived
    <3>1. Total(f) = Total(h)
      BY <1>8, <2>2, TotalSame
    <3> QED
      BY <1>9, <3>1
  <2> QED
    BY <1>6, <1>12, <2>3
<1>13. ASSUME Drift(slip) # 0 /\ \E r \in T : r > 0
       PROVE  Total(f) = claimed
  <2>1. PICK m \in T : \A r \in T : Dominant(slip, r) <=> r = m
    BY <1>13, OneDominates DEF T
  <2>2. f[m] = h[m] + Drift(slip) /\ \A r \in T : r # m => f[r] = h[r]
    BY <1>1, <1>5, <2>1
  <2>3. Total(f) = Total(h) + (f[m] - h[m])
    <3>1. \A r \in T : r # m => f[r] = h[r]
      BY <2>2
    <3> QED
      BY <1>8, <1>10, <3>1, TotalChange
  <2>4. h[m] \in Int
    BY <1>1
  <2>5. Total(f) = derived + Drift(slip)
    BY <1>1, <1>4, <2>2, <2>3, <2>4
  <2>6. slip.vat # None /\ slip.vat \in Int /\ Drift(slip) = slip.vat - derived
    BY <1>2, <1>3, <1>13
  <2>7. Total(f) = slip.vat
    BY <1>1, <2>5, <2>6
  <2> QED
    BY <1>6, <1>13, <2>6, <2>7
<1>14. Total(f) = claimed
  BY <1>11, <1>12, <1>13
<1>15. \A r \in T : ClaimedAt(slip, r) \in Int
  BY <1>1, <1>7
<1> QED
  BY <1>14, <1>15 DEF T, f, derived, low


\* The groups of a slip, each with its base and VAT, of which the VAT is what is claimed.
Groups(groups) ==
    /\ IsFiniteSet(DOMAIN groups) /\ DOMAIN groups \subseteq Int
    /\ \A g \in DOMAIN groups : groups[g].base \in Int /\ groups[g].vat \in Int

VatIn(groups) == Total([g \in DOMAIN groups |-> groups[g].vat])

LEMMA GroupsClaim ==
    ASSUME NEW slip \in Slips
    PROVE  Groups(VatGroups(slip)) /\ VatIn(VatGroups(slip)) = Claimable(slip)
<1>1. StatedVat(slip) \in Int /\ slip.total \in Int
  BY SlipFields DEF StatedVat
<1>2. CASE slip.breakdown # <<>>
  <2>1. IsFiniteSet(DOMAIN slip.breakdown) /\ DOMAIN slip.breakdown \subseteq Int
        /\ \A i \in DOMAIN slip.breakdown : slip.breakdown[i] \in [base : Int, vat : Int]
    BY SlipFields, RowsAreFinite
  <2>2. VatGroups(slip) = slip.breakdown
    BY <1>2 DEF VatGroups
  <2> QED
    BY <1>2, <2>1, <2>2 DEF Groups, VatIn, Claimable
<1>3. CASE slip.breakdown = <<>> /\ Tagged(slip)
  <2> DEFINE groups == GroupsOfItems(slip)
  <2>1. VatGroups(slip) = groups
    BY <1>3 DEF VatGroups
  <2>2. DOMAIN groups = Rates(slip) /\ \A r \in Rates(slip) :
            groups[r].base = GrossAt(slip, r) - ClaimedAt(slip, r) /\ groups[r].vat = ClaimedAt(slip, r)
    BY DEF GroupsOfItems
  <2>3. /\ IsFiniteSet(Rates(slip)) /\ Rates(slip) \subseteq Int
        /\ \A r \in Rates(slip) : GrossAt(slip, r) \in Int
    BY <1>3, RatesAddUp
  <2>4. \A r \in Rates(slip) : ClaimedAt(slip, r) \in Int
    BY <1>3, RatesClaim
  <2> HIDE DEF groups
  <2>5. Groups(groups)
    BY <2>2, <2>3, <2>4 DEF Groups
  <2>6. [g \in DOMAIN groups |-> groups[g].vat] = [r \in Rates(slip) |-> ClaimedAt(slip, r)]
    BY <2>2
  <2>7. VatIn(groups) = Claimable(slip)
    BY <1>3, <2>6, RatesClaim DEF VatIn, Claimable, StatedVat
  <2> QED
    BY <2>1, <2>5, <2>7
<1>4. CASE slip.breakdown = <<>> /\ ~Tagged(slip)
  <2> DEFINE groups == <<[base |-> slip.total - StatedVat(slip), vat |-> StatedVat(slip)]>>
             f == [g \in DOMAIN groups |-> groups[g].vat]
  <2>1. VatGroups(slip) = groups
    BY <1>4 DEF VatGroups
  <2>2. DOMAIN groups = {1} /\ groups[1].base = slip.total - StatedVat(slip)
        /\ groups[1].vat = StatedVat(slip)
    OBVIOUS
  <2>3. DOMAIN f = {1} /\ f[1] = StatedVat(slip)
    BY <2>2
  <2>4. IsFiniteSet({1})
    BY FS_Singleton
  <2> HIDE DEF groups
  <2>5. Groups(groups)
    BY <1>1, <2>2, <2>4 DEF Groups
  <2> HIDE DEF f
  <2>6. Total(f) = StatedVat(slip)
    BY <1>1, <2>3, TotalOne
  <2> QED
    BY <1>4, <2>1, <2>5, <2>6 DEF VatIn, Claimable, f
<1> QED
  BY <1>2, <1>3, <1>4


\* Lines of nothing are left out, and nothing is lost of what is booked.
Amounted(lines) ==
    IsFiniteSet(DOMAIN lines) /\ \A k \in DOMAIN lines : lines[k].amount \in Int

LEMMA NothingIsLost ==
    ASSUME NEW lines, Amounted(lines), NEW P \in SUBSET DOMAIN lines
    PROVE  Booked(NonZero(lines), P \cap DOMAIN NonZero(lines)) = Booked(lines, P)
<1> DEFINE Q == P \cap DOMAIN NonZero(lines)
           f == [k \in P |-> lines[k].amount]
           e == [k \in Q |-> NonZero(lines)[k].amount]
<1>1. /\ DOMAIN NonZero(lines) = {k \in DOMAIN lines : lines[k].amount # 0}
      /\ \A k \in DOMAIN NonZero(lines) : NonZero(lines)[k] = lines[k]
  BY DEF NonZero, Restrict
<1>2. IsFiniteSet(P)
  BY FS_Subset DEF Amounted
<1>3. /\ Q \in SUBSET P /\ DOMAIN f = P /\ DOMAIN e = Q
      /\ \A k \in Q : e[k] = f[k] /\ f[k] \in Int
      /\ \A k \in P \ Q : f[k] = 0
  BY <1>1 DEF Amounted
<1> HIDE DEF Q, f, e
<1>4. Total(f) = Total(e)
  BY <1>2, <1>3, TotalPadded
<1> QED
  BY <1>4 DEF Booked, Q, f, e

LEMMA AccountsStand ==
    ASSUME NEW lines, Amounted(lines)
    PROVE  /\ \A account : OnAccount(NonZero(lines), account) = OnAccount(lines, account)
           /\ \A roles : InRoles(NonZero(lines), roles) = InRoles(lines, roles)
<1>1. /\ DOMAIN NonZero(lines) \subseteq DOMAIN lines
      /\ \A k \in DOMAIN NonZero(lines) : NonZero(lines)[k] = lines[k]
  BY DEF NonZero, Restrict
<1>2. ASSUME NEW account
      PROVE  OnAccount(NonZero(lines), account) = OnAccount(lines, account)
  <2> DEFINE P == {k \in DOMAIN lines : lines[k].account = account}
  <2>1. {k \in DOMAIN NonZero(lines) : NonZero(lines)[k].account = account}
            = P \cap DOMAIN NonZero(lines)
    BY <1>1
  <2> QED
    BY <2>1, NothingIsLost DEF OnAccount
<1>3. ASSUME NEW roles
      PROVE  InRoles(NonZero(lines), roles) = InRoles(lines, roles)
  <2> DEFINE P == {k \in DOMAIN lines : lines[k].role \in roles}
  <2>1. {k \in DOMAIN NonZero(lines) : NonZero(lines)[k].role \in roles}
            = P \cap DOMAIN NonZero(lines)
    BY <1>1
  <2> QED
    BY <2>1, NothingIsLost DEF InRoles
<1> QED
  BY <1>2, <1>3

\* What is booked on the lines of the groups, a rest and the bank: `what` is the account and
\* the role of a kind of line, `keys` its lines, `key` that of each group.
RowsFor(lines, G, keys, key, amount, account, role) ==
    /\ key \in Bijection(G, keys)
    /\ DOMAIN amount = G
    /\ \A g \in G : /\ amount[g] \in Int
                    /\ lines[key[g]].amount = amount[g]
                    /\ lines[key[g]].account = account
                    /\ lines[key[g]].role = role

LEMMA RowsBook ==
    ASSUME NEW lines, NEW G, IsFiniteSet(G), NEW K, NEW key, NEW amount, NEW account, NEW role,
           RowsFor(lines, G, K, key, amount, account, role)
    PROVE  /\ IsFiniteSet(K) /\ Booked(lines, K) = Total(amount) /\ Total(amount) \in Int
           /\ \A k \in K : /\ lines[k].amount \in Int
                           /\ lines[k].account = account /\ lines[k].role = role
<1> DEFINE h == [k \in K |-> lines[k].amount]
<1>1. /\ key \in Surjection(G, K) /\ \A k \in K : \E g \in G : key[g] = k
      /\ \A g \in G : key[g] \in K
  BY DEF RowsFor, Bijection, Surjection
<1>2. DOMAIN h = K /\ \A g \in G : amount[g] \in Int /\ h[key[g]] = amount[g]
  BY <1>1 DEF RowsFor
<1>3. key \in Bijection(G, K) /\ DOMAIN amount = G
  BY DEF RowsFor
<1>4. IsFiniteSet(K)
  BY <1>1, FS_Surjection
<1>5. \A k \in K : /\ lines[k].amount \in Int
                   /\ lines[k].account = account /\ lines[k].role = role
  BY <1>1 DEF RowsFor
<1> HIDE DEF h
<1>6. Total(amount) = Total(h)
  BY <1>2, <1>3, TotalRenamed
<1>7. Total(amount) \in Int
  BY <1>2, <1>3, TotalInt
<1> QED
  BY <1>4, <1>5, <1>6, <1>7 DEF Booked, h

DocumentRows(lines, G, B, toBase, base, V, toVat, vat, rest, bank, amount) ==
    /\ IsFiniteSet(G) /\ amount \in Int
    /\ RowsFor(lines, G, B, toBase, base, "expense", "input_base")
    /\ RowsFor(lines, G, V, toVat, vat, "vat_input", "input_vat")
    /\ DOMAIN lines = B \cup V \cup {rest, bank} /\ rest \notin B
    /\ lines[rest].account = "expense" /\ lines[rest].role = None
    /\ lines[rest].amount = amount - (Total(base) + Total(vat))
    /\ lines[bank].account = "bank" /\ lines[bank].role = None
    /\ lines[bank].amount = -amount

LEMMA LinesBook ==
    ASSUME NEW lines, NEW G, NEW B, NEW toBase, NEW base, NEW V, NEW toVat, NEW vat,
           NEW rest, NEW bank, NEW amount,
           DocumentRows(lines, G, B, toBase, base, V, toVat, vat, rest, bank, amount)
    PROVE  /\ Amounted(lines)
           /\ OnAccount(lines, "bank") = -amount
           /\ InRoles(lines, {"input_vat"}) = Total(vat)
           /\ OnAccount(lines, "expense") = amount - Total(vat)
<1>0. /\ IsFiniteSet(G) /\ amount \in Int
      /\ RowsFor(lines, G, B, toBase, base, "expense", "input_base")
      /\ RowsFor(lines, G, V, toVat, vat, "vat_input", "input_vat")
      /\ DOMAIN lines = B \cup V \cup {rest, bank} /\ rest \notin B
      /\ lines[rest].account = "expense" /\ lines[rest].role = None
      /\ lines[rest].amount = amount - (Total(base) + Total(vat))
      /\ lines[bank].account = "bank" /\ lines[bank].role = None
      /\ lines[bank].amount = -amount
  BY DEF DocumentRows
<1>1. /\ IsFiniteSet(B) /\ Booked(lines, B) = Total(base) /\ Total(base) \in Int
      /\ \A k \in B : lines[k].amount \in Int /\ lines[k].account = "expense"
                                           /\ lines[k].role = "input_base"
  BY <1>0, RowsBook
<1>2. /\ IsFiniteSet(V) /\ Booked(lines, V) = Total(vat) /\ Total(vat) \in Int
      /\ \A k \in V : lines[k].amount \in Int /\ lines[k].account = "vat_input"
                                           /\ lines[k].role = "input_vat"
  BY <1>0, RowsBook
<1>3. Amounted(lines)
  <2>1. IsFiniteSet({rest}) /\ IsFiniteSet({bank}) /\ {rest, bank} = {rest} \cup {bank}
    BY FS_Singleton
  <2>2. IsFiniteSet(B \cup V) /\ IsFiniteSet({rest} \cup {bank})
    BY <1>0, <1>1, <1>2, <2>1, FS_Union
  <2>3. IsFiniteSet((B \cup V) \cup ({rest} \cup {bank}))
    BY <2>2, FS_Union
  <2>4. IsFiniteSet(DOMAIN lines)
    BY <1>0, <2>1, <2>3
  <2>5. \A k \in DOMAIN lines : lines[k].amount \in Int
    BY <1>0, <1>1, <1>2
  <2> QED
    BY <2>4, <2>5 DEF Amounted
<1>4. OnAccount(lines, "bank") = -amount
  <2> DEFINE one == [k \in {bank} |-> lines[k].amount]
  <2>1. {k \in DOMAIN lines : lines[k].account = "bank"} = {bank}
    BY <1>0, <1>1, <1>2
  <2>2. DOMAIN one = {bank} /\ one[bank] = -amount
    BY <1>0
  <2>3. OnAccount(lines, "bank") = Total(one)
    BY <2>1 DEF OnAccount, Booked
  <2> HIDE DEF one
  <2> QED
    BY <1>0, <2>2, <2>3, TotalOne
<1>5. InRoles(lines, {"input_vat"}) = Total(vat)
  <2>1. None # "input_vat"
    BY PapersAssumption DEF Roles
  <2>2. {k \in DOMAIN lines : lines[k].role \in {"input_vat"}} = V
    BY <1>0, <1>1, <1>2, <2>1
  <2> QED
    BY <1>2, <2>2 DEF InRoles
<1>6. OnAccount(lines, "expense") = amount - Total(vat)
  <2> DEFINE f == [k \in B \cup {rest} |-> lines[k].amount]
             e == [k \in B |-> lines[k].amount]
  <2>1. {k \in DOMAIN lines : lines[k].account = "expense"} = B \cup {rest}
    BY <1>0, <1>1, <1>2
  <2>2. OnAccount(lines, "expense") = Total(f)
    BY <2>1 DEF OnAccount, Booked
  <2>3. Total(e) = Total(base)
    BY <1>1 DEF Booked
  <2>4. /\ DOMAIN f = B \cup {rest} /\ DOMAIN e = B
        /\ \A k \in B : e[k] = f[k]
        /\ \A k \in B \cup {rest} : f[k] \in Int
        /\ f[rest] = amount - (Total(base) + Total(vat))
    BY <1>0, <1>1, <1>2
  <2> HIDE DEF f, e
  <2>5. Total(f) = f[rest] + Total(e)
    <3>1. IsFiniteSet(B) /\ rest \notin B
      BY <1>0, <1>1
    <3>2. Grown(f, e, B, rest)
      BY <2>4, <3>1 DEF Grown
    <3> QED
      BY <3>2, TotalGrown
  <2> QED
    BY <1>0, <1>1, <1>2, <2>2, <2>3, <2>4, <2>5
<1> QED
  BY <1>3, <1>4, <1>5, <1>6

LEMMA PairsAreNew ==
    ASSUME NEW G, NEW part
    PROVE  [g \in G |-> <<part, g>>] \in Bijection(G, {part} \X G)
<1> DEFINE to == [g \in G |-> <<part, g>>]
           K == {part} \X G
<1>1. \A g \in G : to[g] = <<part, g>> /\ <<part, g>> \in K
  OBVIOUS
<1>2. \A k \in K : \E g \in G : k = <<part, g>>
  OBVIOUS
<1>3. \A g, h : <<part, g>> = <<part, h>> => g = h
  OBVIOUS
<1>4. /\ to \in [G -> K] /\ \A g, h \in G : to[g] = to[h] => g = h
      /\ \A k \in K : \E g \in G : to[g] = k
  BY <1>1, <1>2, <1>3
<1> HIDE DEF to, K
<1>5. to \in Bijection(G, K)
  BY <1>4 DEF Bijection, Injection, Surjection, IsInjective
<1> QED
  BY <1>5 DEF to, K

LEMMA LineFields ==
    ASSUME NEW account, NEW amount, NEW role
    PROVE  LET l == Line(account, amount, role)
           IN  l.account = account /\ l.amount = amount /\ l.role = role
BY DEF Line

LEMMA DocumentLinesSay ==
    ASSUME NEW slip \in Slips
    PROVE  DocumentSays(business, slip, DocumentLines(slip))
<1> DEFINE groups == IF business THEN VatGroups(slip) ELSE <<>>
           G == DOMAIN groups
           base == [g \in G |-> groups[g].base]
           vat == [g \in G |-> groups[g].vat]
           both == [g \in G |-> groups[g].base + groups[g].vat]
           rest == slip.total - Total(both)
           lines == [k \in ({"base", "vat"} \X G) \cup {<<"rest", 0>>, <<"bank", 0>>} |->
                        IF k[1] = "base" THEN Line("expense", groups[k[2]].base, "input_base")
                        ELSE IF k[1] = "vat" THEN Line("vat_input", groups[k[2]].vat, "input_vat")
                        ELSE IF k[1] = "rest" THEN Line("expense", rest, None)
                        ELSE Line("bank", -slip.total, None)]
           claimed == IF business THEN Claimable(slip) ELSE 0
<1>1. DocumentLines(slip) = NonZero(lines)
  BY DEF DocumentLines
<1>2. Groups(groups) /\ Total(vat) = claimed
  <2>1. CASE business
    BY <2>1, GroupsClaim DEF VatIn
  <2>2. CASE ~business
    <3>1. groups = <<>> /\ G = {} /\ IsFiniteSet(G) /\ DOMAIN vat = {} /\ claimed = 0
      BY <2>2, FS_EmptySet
    <3> HIDE DEF groups, G, vat
    <3> QED
      BY <3>1, TotalEmpty DEF Groups, G
  <2> QED
    BY <2>1, <2>2
<1>3. /\ IsFiniteSet(G) /\ DOMAIN base = G /\ DOMAIN vat = G /\ DOMAIN both = G
      /\ \A g \in G : base[g] \in Int /\ vat[g] \in Int /\ both[g] = base[g] + vat[g]
  BY <1>2 DEF Groups
<1>4. slip.total \in Int
  BY SlipFields
<1>5. /\ DOMAIN lines = ({"base", "vat"} \X G) \cup {<<"rest", 0>>, <<"bank", 0>>}
      /\ \A g \in G : /\ lines[<<"base", g>>] = Line("expense", base[g], "input_base")
                      /\ lines[<<"vat", g>>] = Line("vat_input", vat[g], "input_vat")
      /\ lines[<<"rest", 0>>] = Line("expense", rest, None)
      /\ lines[<<"bank", 0>>] = Line("bank", -slip.total, None)
  OBVIOUS
<1>6. /\ lines[<<"rest", 0>>].amount = rest /\ lines[<<"bank", 0>>].amount = -slip.total
      /\ lines[<<"rest", 0>>].account = "expense" /\ lines[<<"bank", 0>>].account = "bank"
      /\ lines[<<"rest", 0>>].role = None /\ lines[<<"bank", 0>>].role = None
      /\ \A g \in G : /\ lines[<<"base", g>>].amount = base[g]
                      /\ lines[<<"vat", g>>].amount = vat[g]
                      /\ lines[<<"base", g>>].account = "expense"
                      /\ lines[<<"vat", g>>].account = "vat_input"
                      /\ lines[<<"base", g>>].role = "input_base"
                      /\ lines[<<"vat", g>>].role = "input_vat"
  <2> HIDE DEF groups, G, base, vat, rest, lines
  <2> QED
    BY <1>5, LineFields
<1> DEFINE B == {"base"} \X G
           V == {"vat"} \X G
           toBase == [g \in G |-> <<"base", g>>]
           toVat == [g \in G |-> <<"vat", g>>]
<1>7. toBase \in Bijection(G, B) /\ toVat \in Bijection(G, V)
  BY PairsAreNew
<1>8. DOMAIN lines = B \cup V \cup {<<"rest", 0>>, <<"bank", 0>>}
  <2>1. {"base", "vat"} \X G = B \cup V
    OBVIOUS
  <2> HIDE DEF lines, B, V
  <2> QED
    BY <1>5, <2>1
<1>9. <<"rest", 0>> \notin B
  OBVIOUS
<1>10. /\ RowsFor(lines, G, B, toBase, base, "expense", "input_base")
       /\ RowsFor(lines, G, V, toVat, vat, "vat_input", "input_vat")
  <2>1. \A g \in G : toBase[g] = <<"base", g>> /\ toVat[g] = <<"vat", g>>
    OBVIOUS
  <2> HIDE DEF groups, G, base, vat, rest, lines, B, V, toBase, toVat
  <2> QED
    BY <1>3, <1>6, <1>7, <2>1 DEF RowsFor
<1> HIDE DEF groups, G, base, vat, both, rest, lines, claimed, B, V, toBase, toVat
<1>11. rest = slip.total - (Total(base) + Total(vat))
  BY <1>3, TotalPlus DEF rest
<1>12. /\ Amounted(lines)
       /\ OnAccount(lines, "bank") = -slip.total
       /\ InRoles(lines, {"input_vat"}) = Total(vat)
       /\ OnAccount(lines, "expense") = slip.total - Total(vat)
  <2> DEFINE r == <<"rest", 0>>
             b == <<"bank", 0>>
  <2>1. /\ DOMAIN lines = B \cup V \cup {r, b}
        /\ lines[r].account = "expense" /\ lines[r].role = None /\ r \notin B
        /\ lines[r].amount = slip.total - (Total(base) + Total(vat))
        /\ lines[b].account = "bank" /\ lines[b].role = None /\ lines[b].amount = -slip.total
    BY <1>6, <1>8, <1>9, <1>11
  <2> HIDE DEF r, b
  <2>2. DocumentRows(lines, G, B, toBase, base, V, toVat, vat, r, b, slip.total)
    BY <1>3, <1>4, <1>10, <2>1 DEF DocumentRows
  <2> QED
    BY <2>2, LinesBook
<1> QED
  BY <1>1, <1>2, <1>12, AccountsStand DEF DocumentSays, claimed


\* One line is booked as its amount.
LEMMA OneIsBooked ==
    ASSUME NEW lines, NEW k, lines[k].amount \in Int
    PROVE  Booked(lines, {k}) = lines[k].amount /\ Booked(lines, {}) = 0
<1> DEFINE one == [j \in {k} |-> lines[j].amount]
           none == [j \in {} |-> lines[j].amount]
<1>1. DOMAIN one = {k} /\ one[k] = lines[k].amount /\ DOMAIN none = {}
  OBVIOUS
<1>2. Booked(lines, {k}) = Total(one) /\ Booked(lines, {}) = Total(none)
  BY DEF Booked
<1> HIDE DEF one, none
<1> QED
  BY <1>1, <1>2, TotalOne, TotalEmpty

\* The VAT of a bank transaction: taken where the money leaves, given back where it comes.
VatOnBank(amount, rate) ==
    IF rate = None THEN 0
    ELSE IF amount < 0 THEN VatWithin(-amount, rate) ELSE -VatWithin(amount, rate)

LEMMA VatOnBankIs ==
    ASSUME NEW amount \in Int, amount # 0, NEW rate \in Int \cup {None}
    PROVE  /\ VatOnBank(amount, rate) \in Int
           /\ rate # None => VatOnBank(amount, rate) = VatWithin(-amount, rate)
<1>1. -amount \in Int
  OBVIOUS
<1>2. CASE rate = None
  BY <1>2 DEF VatOnBank
<1>3. CASE rate # None
  <2>1. rate \in Int
    BY <1>3
  <2>2. VatWithin(-amount, rate) \in Int
    BY <1>1, <2>1, VatIsInt
  <2>3. VatWithin(-amount, rate) = -VatWithin(amount, rate)
    BY <2>1, VatIsInt
  <2> QED
    BY <1>3, <2>2, <2>3 DEF VatOnBank
<1> QED
  BY <1>2, <1>3

LEMMA TransactionLinesSay ==
    ASSUME NEW amount \in Int, amount # 0, NEW rate \in VatRates \cup {None},
           NEW kind \in {"income", "expense", "other"},
           rate # None => kind \in {"income", "expense"},
           NEW of, of.kind = kind, of.rate = rate
    PROVE  TransactionSays(amount, of, TransactionLines(amount, kind, rate))
<1> DEFINE vat == VatOnBank(amount, rate)
           all == [counter |-> Line(kind, -amount - vat, IF rate = None THEN None ELSE Side(kind).base),
                   vat |-> Line(Side(kind).account, vat, Side(kind).vat),
                   bank |-> Line("bank", amount, None)]
           K == {k \in {"counter", "vat", "bank"} : k = "vat" => vat # 0}
           lines == Restrict(all, K)
<1>1. TransactionLines(amount, kind, rate) = lines
  BY DEF TransactionLines, VatOnBank
<1>2. rate \in Int \cup {None} /\ None \notin Roles
  BY PapersAssumption
<1>3. vat \in Int /\ (rate # None => vat = VatWithin(-amount, rate)) /\ (rate = None => vat = 0)
  <2>1. rate = None => vat = 0
    BY DEF VatOnBank
  <2> HIDE DEF vat
  <2> QED
    BY <1>2, <2>1, VatOnBankIs DEF vat
<1>4. /\ all.counter = Line(kind, -amount - vat, IF rate = None THEN None ELSE Side(kind).base)
      /\ all.vat = Line(Side(kind).account, vat, Side(kind).vat)
      /\ all.bank = Line("bank", amount, None)
  OBVIOUS
<1>5. /\ DOMAIN lines = K
      /\ \A k \in K : lines[k] = all[k]
  BY DEF Restrict
<1>6. /\ "counter" \in K /\ "bank" \in K /\ ("vat" \in K <=> vat # 0)
      /\ \A k \in K : k \in {"counter", "vat", "bank"}
  OBVIOUS
<1>7. IF kind = "expense"
      THEN Side(kind).base = "input_base" /\ Side(kind).vat = "input_vat"
           /\ Side(kind).account = "vat_input"
      ELSE Side(kind).base = "output_base" /\ Side(kind).vat = "output_vat"
           /\ Side(kind).account = "vat_output"
  BY DEF Side
<1> HIDE DEF vat, all, K, lines
<1>8. /\ lines["counter"].account = kind /\ lines["counter"].amount = -amount - vat
      /\ lines["counter"].role = IF rate = None THEN None ELSE Side(kind).base
      /\ lines["bank"].account = "bank" /\ lines["bank"].amount = amount
      /\ lines["bank"].role = None
      /\ "vat" \in K => /\ lines["vat"].account = Side(kind).account
                        /\ lines["vat"].amount = vat
                        /\ lines["vat"].role = Side(kind).vat
  BY <1>4, <1>5, <1>6, LineFields
<1>9. OnAccount(lines, "bank") = amount
  <2>1. {k \in DOMAIN lines : lines[k].account = "bank"} = {"bank"}
    BY <1>5, <1>6, <1>7, <1>8
  <2> QED
    BY <1>8, <2>1, OneIsBooked DEF OnAccount
<1>10. OnAccount(lines, kind) = -amount - vat
  <2>1. {k \in DOMAIN lines : lines[k].account = kind} = {"counter"}
    BY <1>5, <1>6, <1>7, <1>8
  <2> QED
    BY <1>3, <1>8, <2>1, OneIsBooked DEF OnAccount
<1>11. InRoles(lines, {"input_vat", "output_vat"}) = vat
  <2> DEFINE P == {k \in DOMAIN lines : lines[k].role \in {"input_vat", "output_vat"}}
  <2>1. None \notin {"input_vat", "output_vat"}
    BY <1>2 DEF Roles
  <2>2. P = IF vat # 0 THEN {"vat"} ELSE {}
    BY <1>5, <1>6, <1>7, <1>8, <2>1
  <2>3. CASE vat # 0
    <3>1. P = {"vat"} /\ lines["vat"].amount = vat
      BY <1>6, <1>8, <2>2, <2>3
    <3> QED
      BY <1>3, <3>1, OneIsBooked DEF InRoles
  <2>4. CASE vat = 0
    <3>1. P = {} /\ lines["bank"].amount \in Int
      BY <1>8, <2>2, <2>4
    <3> QED
      BY <2>4, <3>1, OneIsBooked DEF InRoles
  <2> QED
    BY <1>3, <2>3, <2>4
<1>12. ASSUME NEW k \in DOMAIN lines, lines[k].role # None
       PROVE  lines[k].role \in IF of.kind = "expense" THEN {"input_base", "input_vat"}
                                                     ELSE {"output_base", "output_vat"}
  <2>1. k = "counter" \/ k = "vat"
    BY <1>5, <1>6, <1>8, <1>12
  <2>2. CASE k = "counter"
    <3>1. lines[k].role = Side(kind).base
      BY <1>8, <1>12, <2>2
    <3> QED
      BY <1>7, <3>1
  <2>3. CASE k = "vat"
    <3>1. lines[k].role = Side(kind).vat
      BY <1>5, <1>8, <2>3
    <3> QED
      BY <1>7, <3>1
  <2> QED
    BY <2>1, <2>2, <2>3
<1>13. OnAccount(lines, of.kind) + vat = -amount
  BY <1>3, <1>10
<1>14. of.rate # None => vat = VatWithin(-amount, of.rate)
  BY <1>3
<1> QED
  BY <1>1, <1>9, <1>11, <1>12, <1>13, <1>14 DEF TransactionSays


\* A journal has two lines at least: what the bank pays, and what for.
TwoLines(lines) == \E k, l \in DOMAIN lines : k # l

LEMMA TransactionHasTwoLines ==
    ASSUME NEW amount, NEW kind, NEW rate
    PROVE  TwoLines(TransactionLines(amount, kind, rate))
<1> DEFINE lines == TransactionLines(amount, kind, rate)
<1>1. "counter" \in DOMAIN lines /\ "bank" \in DOMAIN lines
  BY DEF TransactionLines, Restrict
<1> HIDE DEF lines
<1>2. TwoLines(lines)
  BY <1>1 DEF TwoLines
<1> QED
  BY <1>2 DEF lines

LEMMA DocumentHasTwoLines ==
    ASSUME NEW slip \in Slips, slip.total > 0
    PROVE  TwoLines(DocumentLines(slip))
<1> DEFINE groups == IF business THEN VatGroups(slip) ELSE <<>>
           G == DOMAIN groups
           both == [g \in G |-> groups[g].base + groups[g].vat]
           rest == slip.total - Total(both)
           lines == [k \in ({"base", "vat"} \X G) \cup {<<"rest", 0>>, <<"bank", 0>>} |->
                        IF k[1] = "base" THEN Line("expense", groups[k[2]].base, "input_base")
                        ELSE IF k[1] = "vat" THEN Line("vat_input", groups[k[2]].vat, "input_vat")
                        ELSE IF k[1] = "rest" THEN Line("expense", rest, None)
                        ELSE Line("bank", -slip.total, None)]
<1>1. DocumentLines(slip) = NonZero(lines)
  BY DEF DocumentLines
<1>2. Groups(groups)
  <2>1. CASE business
    BY <2>1, GroupsClaim
  <2>2. CASE ~business
    <3>1. groups = <<>> /\ DOMAIN groups = {} /\ IsFiniteSet({})
      BY <2>2, FS_EmptySet
    <3> HIDE DEF groups, G
    <3> QED
      BY <3>1 DEF Groups
  <2> QED
    BY <2>1, <2>2
<1>3. /\ IsFiniteSet(G) /\ DOMAIN both = G
      /\ \A g \in G : groups[g].base \in Int /\ groups[g].vat \in Int
                    /\ both[g] = groups[g].base + groups[g].vat
  BY <1>2 DEF Groups
<1>4. slip.total \in Int
  BY SlipFields
<1>5. /\ DOMAIN lines = ({"base", "vat"} \X G) \cup {<<"rest", 0>>, <<"bank", 0>>}
      /\ \A g \in G : /\ lines[<<"base", g>>] = Line("expense", groups[g].base, "input_base")
                      /\ lines[<<"vat", g>>] = Line("vat_input", groups[g].vat, "input_vat")
      /\ lines[<<"rest", 0>>] = Line("expense", rest, None)
      /\ lines[<<"bank", 0>>] = Line("bank", -slip.total, None)
  OBVIOUS
<1> HIDE DEF groups, G, both, rest, lines
<1>6. /\ lines[<<"rest", 0>>].amount = rest /\ lines[<<"bank", 0>>].amount = -slip.total
      /\ lines[<<"rest", 0>>].account = "expense" /\ lines[<<"bank", 0>>].account = "bank"
      /\ \A g \in G : /\ lines[<<"base", g>>].amount = groups[g].base
                      /\ lines[<<"vat", g>>].amount = groups[g].vat
                      /\ lines[<<"base", g>>].account = "expense"
                      /\ lines[<<"vat", g>>].account = "vat_input"
  BY <1>5, LineFields
<1>7. /\ <<"rest", 0>> \in DOMAIN lines /\ <<"bank", 0>> \in DOMAIN lines
      /\ \A g \in G : <<"base", g>> \in DOMAIN lines /\ <<"vat", g>> \in DOMAIN lines
  <2> DEFINE D == ({"base", "vat"} \X G) \cup {<<"rest", 0>>, <<"bank", 0>>}
  <2>1. /\ <<"rest", 0>> \in D /\ <<"bank", 0>> \in D
        /\ \A g \in G : <<"base", g>> \in D /\ <<"vat", g>> \in D
    OBVIOUS
  <2> HIDE DEF D
  <2> QED
    BY <1>5, <2>1 DEF D
<1>8. \A k \in DOMAIN lines : lines[k].amount # 0 => k \in DOMAIN NonZero(lines)
  BY DEF NonZero, Restrict
<1>9. \E k \in DOMAIN lines : lines[k].amount # 0 /\ lines[k].account # "bank"
  <2>1. CASE rest # 0
    BY <1>6, <1>7, <2>1
  <2>2. CASE rest = 0
    <3>1. \A g \in G : both[g] \in Int
      BY <1>3
    <3>2. Total(both) \in Int
      BY <1>3, <3>1, TotalInt
    <3>3. Total(both) # 0
      BY <1>4, <2>2, <3>2 DEF rest
    <3>4. PICK g \in G : both[g] # 0
      BY <1>3, <3>3, TotalZero
    <3>5. groups[g].base # 0 \/ groups[g].vat # 0
      BY <1>3, <3>4
    <3> QED
      BY <1>6, <1>7, <3>5
  <2> QED
    BY <2>1, <2>2
<1>10. TwoLines(NonZero(lines))
  <2>1. PICK k \in DOMAIN lines : lines[k].amount # 0 /\ lines[k].account # "bank"
    BY <1>9
  <2>2. PICK b : b = <<"bank", 0>>
    OBVIOUS
  <2>3. b \in DOMAIN lines /\ lines[b].amount # 0 /\ lines[b].account = "bank"
    BY <1>4, <1>6, <1>7, <2>2
  <2> QED
    BY <1>8, <2>1, <2>3 DEF TwoLines
<1> QED
  BY <1>1, <1>10


\* A journal generated for a source says what the source says.
Says(claims, s, voucher) ==
    /\ TwoLines(voucher.lines)
    /\ s \in Papers => DocumentSays(claims, voucher.of, voucher.lines)
    /\ s \in BankLines => TransactionSays(AmountOnBank[s], voucher.of, voucher.lines)

\* What a call under way holds.
CallHolds(claims, call) ==
    /\ call.job = "transition" => call.to \in Statuses /\ "job" \in DOMAIN call
    /\ call.job = "extraction" => call.slip \in Slips
    /\ call.job = "voucher" => Says(claims, call.source, call.journal)

\* The inductive invariant: the journal of a call says so from the moment it is made, and a
\* book does not change its kind.
VoucherInv ==
    /\ team \in SUBSET Conns
    /\ business \in BOOLEAN
    /\ seen = [c \in Conns |-> seen[c]]
    /\ status \in [Papers -> Statuses \cup {None}]
    /\ current \in [Papers -> Slips \cup {None}]
    /\ vouchers = [s \in Sources |-> vouchers[s]]
    /\ \A c \in Conns : seen[c] # None => CallHolds(business, seen[c])
    /\ \A s \in Sources : vouchers[s] # None => Says(business, s, vouchers[s])

LEMMA KindOfCounter ==
    ASSUME NEW amount, NEW counter \in Counters
    PROVE  CounterKind(amount, counter) \in {"income", "expense", "other"}
<1>1. counter \in [category : {None, "income", "expense", "transfer"},
                  mapped : {None, "income", "expense", "other"}]
  BY PapersAssumption
<1> QED
  BY <1>1 DEF CounterKind

\* A call that keeps the tables, and holds what it may.
LEMMA VoucherCallMoves ==
    ASSUME VoucherInv, NEW c \in team, NEW call, Keep(c, call), UNCHANGED business,
           status' \in [Papers -> Statuses \cup {None}],
           current' \in [Papers -> Slips \cup {None}],
           vouchers' = [s \in Sources |-> vouchers'[s]],
           \A s \in Sources : vouchers'[s] # None => Says(business, s, vouchers'[s]),
           call # None => CallHolds(business, call)
    PROVE  VoucherInv'
<1>1. c \in Conns /\ seen' = [seen EXCEPT ![c] = call] /\ team' = team
  BY DEF VoucherInv, Keep
<1>2. seen'[c] = call /\ \A d \in Conns : d # c => seen'[d] = seen[d]
  BY <1>1 DEF VoucherInv
<1> QED
  BY <1>1, <1>2 DEF VoucherInv

LEMMA VoucherStep ==
    ASSUME VoucherInv, NEW c \in team,
           \/ PaperCalls(c)
           \/ Import(c) \/ Transition(c) \/ Record(c) \/ Post(c)
           \/ \E d \in Papers : RunTakes(c, d)
           \/ \E slip \in Slips : ProviderAnswers(c, slip)
           \/ ProviderFails(c) \/ EndRun(c)
           \/ Abandon(c) /\ UNCHANGED paperVars
    PROVE  VoucherInv'
<1>1. c \in Conns /\ (seen[c] # None => CallHolds(business, seen[c]))
  BY DEF VoucherInv
<1>2. ASSUME UNCHANGED paperVars, NEW call, Keep(c, call), call # None => CallHolds(business, call)
      PROVE  VoucherInv'
  <2>1. /\ status' \in [Papers -> Statuses \cup {None}]
        /\ current' \in [Papers -> Slips \cup {None}]
        /\ vouchers' = [s \in Sources |-> vouchers'[s]]
        /\ \A s \in Sources : vouchers'[s] # None => Says(business, s, vouchers'[s])
        /\ business' = business
    BY <1>2 DEF VoucherInv, paperVars
  <2> QED
    BY <1>2, <2>1, VoucherCallMoves
<1>3. ASSUME UNCHANGED paperVars, NEW call, Keep(c, call),
             call.job \notin {"transition", "extraction", "voucher"}
      PROVE  VoucherInv'
  BY <1>2, <1>3 DEF CallHolds
<1>4. ASSUME NEW todo, GoOnWith(c, todo)
      PROVE  \E call : Keep(c, call) /\ (call # None => CallHolds(business, call))
  <2>1. PICK call : call = [job |-> "extract", todo |-> todo]
    OBVIOUS
  <2>2. call.job = "extract"
    BY <2>1
  <2>3. CallHolds(business, call)
    BY <2>2 DEF CallHolds
  <2> QED
    BY <1>4, <2>1, <2>3 DEF GoOnWith, Done
<1>5. CASE PaperCalls(c)
  <2>1. CASE BeginRun(c)
    <3>1. PICK call : call = [job |-> "extract",
                              todo |-> {d \in Readable : status[d] = "pending"}]
      OBVIOUS
    <3>2. call.job = "extract" /\ Keep(c, call) /\ UNCHANGED paperVars
      BY <2>1, <3>1 DEF BeginRun, Read, Keep
    <3> QED
      BY <1>3, <3>2
  <2>2. ASSUME NEW d \in Papers, ImportRead(c, d)
        PROVE  VoucherInv'
    <3>1. PICK call : call = [job |-> "import", doc |-> d]
      OBVIOUS
    <3>2. call.job = "import" /\ Keep(c, call) /\ UNCHANGED paperVars
      BY <2>2, <3>1 DEF ImportRead, Read, Keep
    <3> QED
      BY <1>3, <3>2
  <2>3. ASSUME NEW d \in Papers, GenerateForDocument(c, d)
        PROVE  VoucherInv'
    <3> DEFINE journal == [of |-> current[d], lines |-> DocumentLines(current[d])]
    <3>1. PICK call : call = [job |-> "voucher", source |-> d, journal |-> journal]
      OBVIOUS
    <3>2. call.job = "voucher" /\ call.source = d /\ call.journal = journal
      BY <3>1
    <3>3. Keep(c, call) /\ UNCHANGED paperVars /\ current[d] # None /\ current[d].total > 0
      BY <2>3, <3>1 DEF GenerateForDocument, Read, Keep
    <3>4. current[d] \in Slips
      BY <3>3 DEF VoucherInv
    <3>5. journal.of = current[d] /\ journal.lines = DocumentLines(current[d])
      OBVIOUS
    <3>6. d \notin BankLines
      BY PapersAssumption
    <3> HIDE DEF journal
    <3>7. Says(business, d, journal)
      BY <3>3, <3>4, <3>5, <3>6, DocumentLinesSay, DocumentHasTwoLines DEF Says
    <3>8. CallHolds(business, call)
      BY <3>2, <3>7 DEF CallHolds
    <3> QED
      BY <1>2, <3>3, <3>8
  <2>4. ASSUME NEW d \in Papers, NEW to \in Statuses, TransitionRead(c, d, to)
        PROVE  VoucherInv'
    <3>1. PICK call : call = [job |-> "transition", doc |-> d, to |-> to, todo |-> None]
      OBVIOUS
    <3>2. call.job = "transition" /\ call.to = to /\ "job" \in DOMAIN call
      BY <3>1
    <3>3. Keep(c, call) /\ UNCHANGED paperVars
      BY <2>4, <3>1 DEF TransitionRead, Read, Keep
    <3>4. CallHolds(business, call)
      BY <3>2 DEF CallHolds
    <3> QED
      BY <1>2, <3>3, <3>4
  <2>5. ASSUME NEW d \in Papers, NEW slip \in Slips, RecordRead(c, d, slip)
        PROVE  VoucherInv'
    <3>1. PICK call : call = [job |-> "extraction", doc |-> d, slip |-> slip, todo |-> None]
      OBVIOUS
    <3>2. call.job = "extraction" /\ call.slip = slip
      BY <3>1
    <3>3. Keep(c, call) /\ UNCHANGED paperVars
      BY <2>5, <3>1 DEF RecordRead, Read, Keep
    <3>4. CallHolds(business, call)
      BY <3>2 DEF CallHolds
    <3> QED
      BY <1>2, <3>3, <3>4
  <2>6. ASSUME NEW t \in BankLines, NEW counter \in Counters, NEW rate \in VatRates \cup {None},
               GenerateForTransaction(c, t, counter, rate)
        PROVE  VoucherInv'
    <3> DEFINE amount == AmountOnBank[t]
               kind == CounterKind(amount, counter)
               of == [kind |-> kind, rate |-> rate]
               journal == [of |-> of, lines |-> TransactionLines(amount, kind, rate)]
    <3>1. PICK call : call = [job |-> "voucher", source |-> t, journal |-> journal]
      OBVIOUS
    <3>2. call.job = "voucher" /\ call.source = t /\ call.journal = journal
      BY <3>1
    <3>3. /\ Keep(c, call) /\ UNCHANGED paperVars /\ amount # 0
          /\ rate # None => kind \in {"income", "expense"}
      BY <2>6, <3>1 DEF GenerateForTransaction, Read, Keep
    <3>4. amount \in Int /\ kind \in {"income", "expense", "other"} /\ t \notin Papers
      BY PapersAssumption, KindOfCounter
    <3>5. journal.of = of /\ journal.lines = TransactionLines(amount, kind, rate)
      OBVIOUS
    <3>6. of.kind = kind /\ of.rate = rate
      OBVIOUS
    <3> HIDE DEF journal, of, kind
    <3>7. TransactionSays(amount, of, TransactionLines(amount, kind, rate))
      BY <3>3, <3>4, <3>6, TransactionLinesSay
    <3>8. Says(business, t, journal)
      BY <3>4, <3>5, <3>7, TransactionHasTwoLines DEF Says
    <3>9. CallHolds(business, call)
      BY <3>2, <3>8 DEF CallHolds
    <3> QED
      BY <1>2, <3>3, <3>9
  <2>7. ASSUME NEW s \in Sources, UndoVoucher(c, s)
        PROVE  VoucherInv'
    <3>1. /\ UNCHANGED <<team, seen, business, status, current>>
          /\ vouchers' = [vouchers EXCEPT ![s] = None]
      BY <2>7 DEF UndoVoucher, connVars
    <3>2. /\ vouchers' = [q \in Sources |-> vouchers'[q]]
          /\ \A q \in Sources : vouchers'[q] # None => vouchers'[q] = vouchers[q]
      BY <3>1 DEF VoucherInv
    <3> QED
      BY <3>1, <3>2 DEF VoucherInv
  <2> QED
    <3>1. CASE \E d \in Papers :
                    \/ ImportRead(c, d) \/ GenerateForDocument(c, d)
                    \/ \E to \in Statuses : TransitionRead(c, d, to)
                    \/ \E slip \in Slips : RecordRead(c, d, slip)
      BY <2>2, <2>3, <2>4, <2>5, <3>1
    <3>2. CASE \E t \in BankLines, counter \in Counters, rate \in VatRates \cup {None} :
                    GenerateForTransaction(c, t, counter, rate)
      BY <2>6, <3>2
    <3>3. CASE \E s \in Sources : UndoVoucher(c, s)
      BY <2>7, <3>3
    <3> QED
      BY <1>5, <2>1, <3>1, <3>2, <3>3 DEF PaperCalls
<1>6. ASSUME NEW call, Keep(c, call), call # None => CallHolds(business, call),
             NEW d, NEW to \in Statuses, status' = [status EXCEPT ![d] = to],
             UNCHANGED <<business, current, vouchers>>
      PROVE  VoucherInv'
  <2>1. status' \in [Papers -> Statuses \cup {None}]
    BY <1>6 DEF VoucherInv
  <2>2. /\ current' \in [Papers -> Slips \cup {None}]
        /\ vouchers' = [s \in Sources |-> vouchers'[s]]
        /\ \A s \in Sources : vouchers'[s] # None => Says(business, s, vouchers'[s])
    BY <1>6 DEF VoucherInv
  <2> QED
    BY <1>6, <2>1, <2>2, VoucherCallMoves
<1>7. CASE Import(c)
  <2>1. PICK d : d = seen[c].doc
    OBVIOUS
  <2>2. /\ Keep(c, None) /\ status' = [status EXCEPT ![d] = "pending"]
        /\ UNCHANGED <<business, current, vouchers>>
    BY <1>7, <2>1 DEF Import, Done
  <2>3. "pending" \in Statuses
    BY DEF Statuses
  <2> QED
    BY <1>6, <2>2, <2>3
<1>8. CASE Transition(c)
  <2>1. PICK d, to, todo : d = seen[c].doc /\ to = seen[c].to /\ todo = seen[c].todo
    OBVIOUS
  <2>2. /\ status' = [status EXCEPT ![d] = to] /\ UNCHANGED <<business, current, vouchers>>
        /\ seen[c] # None /\ seen[c].job = "transition"
    BY <1>8, <2>1 DEF Transition, Doing, Idle
  <2>3. to \in Statuses /\ "job" \in DOMAIN seen[c]
    BY <1>1, <2>1, <2>2 DEF CallHolds
  <2>4. PICK call : Keep(c, call) /\ (call # None => CallHolds(business, call))
    <3>1. CASE Keep(c, [seen[c] EXCEPT !.job = "provider"])
      <4>1. PICK call : call = [seen[c] EXCEPT !.job = "provider"]
        OBVIOUS
      <4>2. call.job = "provider"
        BY <2>3, <4>1
      <4>3. CallHolds(business, call)
        BY <4>2 DEF CallHolds
      <4> QED
        BY <3>1, <4>1, <4>3
    <3>2. CASE GoOnWith(c, todo)
      BY <1>4, <3>2
    <3> QED
      BY <1>8, <2>1, <3>1, <3>2 DEF Transition
  <2> QED
    BY <1>6, <2>2, <2>3, <2>4
<1>9. CASE Record(c)
  <2>1. PICK d, slip, todo : d = seen[c].doc /\ slip = seen[c].slip /\ todo = seen[c].todo
    OBVIOUS
  <2>2. /\ status' = [status EXCEPT ![d] = "extracted"] /\ current' = [current EXCEPT ![d] = slip]
        /\ seen[c] # None /\ seen[c].job = "extraction" /\ GoOnWith(c, todo)
        /\ UNCHANGED <<business, vouchers>>
    BY <1>9, <2>1 DEF Record, Doing, Idle
  <2>3. slip \in Slips
    BY <1>1, <2>1, <2>2 DEF CallHolds
  <2>4. "extracted" \in Statuses
    BY DEF Statuses
  <2>5. /\ status' \in [Papers -> Statuses \cup {None}]
        /\ current' \in [Papers -> Slips \cup {None}]
    BY <2>2, <2>3, <2>4 DEF VoucherInv
  <2>6. /\ vouchers' = [s \in Sources |-> vouchers'[s]]
        /\ \A s \in Sources : vouchers'[s] # None => Says(business, s, vouchers'[s])
    BY <2>2 DEF VoucherInv
  <2>7. PICK call : Keep(c, call) /\ (call # None => CallHolds(business, call))
    BY <1>4, <2>2
  <2> QED
    BY <2>2, <2>5, <2>6, <2>7, VoucherCallMoves
<1>10. CASE Post(c)
  <2>1. PICK s, journal : s = seen[c].source /\ journal = seen[c].journal
    OBVIOUS
  <2>2. /\ vouchers' = [vouchers EXCEPT ![s] = journal] /\ Keep(c, None)
        /\ seen[c] # None /\ seen[c].job = "voucher"
        /\ UNCHANGED <<business, status, current>>
    BY <1>10, <2>1 DEF Post, Doing, Idle, Done
  <2>3. Says(business, s, journal)
    BY <1>1, <2>1, <2>2 DEF CallHolds
  <2>4. /\ vouchers' = [q \in Sources |-> vouchers'[q]]
        /\ \A q \in Sources : vouchers'[q] # None => Says(business, q, vouchers'[q])
    BY <2>2, <2>3 DEF VoucherInv
  <2>5. /\ status' \in [Papers -> Statuses \cup {None}]
        /\ current' \in [Papers -> Slips \cup {None}]
    BY <2>2 DEF VoucherInv
  <2> QED
    BY <2>2, <2>4, <2>5, VoucherCallMoves
<1>11. ASSUME NEW d \in Papers, RunTakes(c, d)
       PROVE  VoucherInv'
  <2>1. PICK to \in {"processing", "failed"} :
                  /\ Keep(c, [job |-> "transition", doc |-> d, to |-> to,
                              todo |-> seen[c].todo \ {d}])
                  /\ UNCHANGED paperVars
    BY <1>11 DEF RunTakes
  <2>2. PICK call : call = [job |-> "transition", doc |-> d, to |-> to,
                            todo |-> seen[c].todo \ {d}]
    OBVIOUS
  <2>3. call.job = "transition" /\ call.to = to /\ "job" \in DOMAIN call
    BY <2>2
  <2>4. CallHolds(business, call)
    BY <2>3 DEF CallHolds, Statuses
  <2> QED
    BY <1>2, <2>1, <2>2, <2>4
<1>12. ASSUME NEW slip \in Slips, ProviderAnswers(c, slip)
       PROVE  VoucherInv'
  <2>1. PICK call : call = [job |-> "extraction", doc |-> seen[c].doc, slip |-> slip,
                            todo |-> seen[c].todo]
    OBVIOUS
  <2>2. call.job = "extraction" /\ call.slip = slip
    BY <2>1
  <2>3. Keep(c, call) /\ UNCHANGED paperVars
    BY <1>12, <2>1 DEF ProviderAnswers
  <2>4. CallHolds(business, call)
    BY <2>2 DEF CallHolds
  <2> QED
    BY <1>2, <2>3, <2>4
<1>13. CASE ProviderFails(c)
  <2>1. PICK call : call = [job |-> "transition", doc |-> seen[c].doc, to |-> "failed",
                            todo |-> seen[c].todo]
    OBVIOUS
  <2>2. call.job = "transition" /\ call.to = "failed" /\ "job" \in DOMAIN call
    BY <2>1
  <2>3. Keep(c, call) /\ UNCHANGED paperVars
    BY <1>13, <2>1 DEF ProviderFails
  <2>4. CallHolds(business, call)
    BY <2>2 DEF CallHolds, Statuses
  <2> QED
    BY <1>2, <2>3, <2>4
<1>14. CASE EndRun(c) \/ (Abandon(c) /\ UNCHANGED paperVars)
  BY <1>2, <1>14 DEF EndRun, Abandon, Done
<1> QED
  BY <1>5, <1>7, <1>8, <1>9, <1>10, <1>11, <1>12, <1>13, <1>14

LEMMA VouchersInitially == ConnInit /\ PapersInit => VoucherInv
<1> SUFFICES ASSUME ConnInit, PapersInit PROVE VoucherInv
  OBVIOUS
<1> QED
  BY TeamsAssumption DEF ConnInit, PapersInit, VoucherInv

LEMMA VouchersStep == VoucherInv /\ [PapersNext]_<<connVars, paperVars>> => VoucherInv'
<1> SUFFICES ASSUME VoucherInv, [PapersNext]_<<connVars, paperVars>> PROVE VoucherInv'
  OBVIOUS
<1>1. CASE PapersNext
  BY <1>1, VoucherStep DEF PapersNext
<1>2. CASE UNCHANGED <<connVars, paperVars>>
  BY <1>2 DEF connVars, paperVars, VoucherInv
<1> QED
  BY <1>1, <1>2

\* A book keeps its kind, documents their statuses, and every generated journal says what its
\* document or bank transaction says, with any number of processes at work.
LEMMA VoucherInvariant == PapersSpec => []VoucherInv
BY VouchersInitially, VouchersStep, PTL DEF PapersSpec

LEMMA PapersTypes == VoucherInv => PapersTypeOK
BY DEF VoucherInv, PapersTypeOK, Says, TwoLines

\* The columns of documents, extractions and generated journals hold what they may; a journal
\* has two lines at least (0001_init.sql: documents, document_extractions, journals).
THEOREM PapersTyped == PapersSpec => []PapersTypeOK
BY PapersTypes, VoucherInvariant, PTL

\* A journal generated from a document or a bank transaction says what its paper says:
\* whatever the groups, rounding, discounts and tips, the bank pays the total, the VAT
\* claimed is the VAT of the document, and a refund stays on the side it refunds (slip.rs:
\* vat_groups; service.rs: journal_generate_for_document, journal_generate_for_transaction).
THEOREM VouchersSay == PapersSpec => []VouchersSayWhatPapersSay
<1>1. VoucherInv => VouchersSayWhatPapersSay
  BY DEF VoucherInv, VouchersSayWhatPapersSay, Says, Sources
<1> QED
  BY <1>1, VoucherInvariant, PTL

(***************************************************************************)
(* The parts of the household together: a behaviour of the office is about *)
(* one of them, whose calls `seen` then holds, and the others stand still. *)
(***************************************************************************)
\* The inductive invariant: what a part's own invariant says while the calls are its own.
HouseholdInv ==
    /\ focus = "members" => MemberInv /\ SplitInv /\ RefersInv
    /\ focus = "packs" => PackInv /\ SignersTyped
    /\ focus = "worth" => WorthInv /\ WorthRows
    /\ focus = "papers" => VoucherInv
    /\ HouseholdTypeOK

LEMMA HouseholdInitially == OfficeInit => HouseholdInv
<1> SUFFICES ASSUME OfficeInit PROVE HouseholdInv
  OBVIOUS
<1>1. ConnInit /\ MembersInit /\ PacksInit /\ WorthInit /\ PapersInit
  BY DEF OfficeInit
<1>2. MemberInv /\ SplitInv /\ RefersInv
  BY <1>1, MembersInitially, SplitsInitially, RefersInitially
<1>3. PackInv /\ SignersTyped
  BY <1>1, PackInitially, SignersInitially
<1>4. WorthInv /\ WorthRows
  BY <1>1, WorthInitially, RowsInitially
<1>5. VoucherInv
  BY <1>1, VouchersInitially
<1> QED
  BY <1>2, <1>3, <1>4, <1>5, MembersTypes, PacksTypes, WorthTypes, PapersTypes
     DEF HouseholdInv, HouseholdTypeOK

\* A part that stands still keeps what its tables hold.
LEMMA StandsStill ==
    /\ MembersTypeOK /\ UNCHANGED memberVars => MembersTypeOK'
    /\ PacksTypeOK /\ UNCHANGED packVars => PacksTypeOK'
    /\ WorthTypeOK /\ UNCHANGED worthVars => WorthTypeOK'
    /\ PapersTypeOK /\ UNCHANGED paperVars => PapersTypeOK'
<1>1. MembersTypeOK /\ UNCHANGED memberVars => MembersTypeOK'
  BY DEF MembersTypeOK, memberVars, Known, People
<1>2. PacksTypeOK /\ UNCHANGED packVars => PacksTypeOK'
  BY DEF PacksTypeOK, packVars
<1>3. WorthTypeOK /\ UNCHANGED worthVars => WorthTypeOK'
  BY DEF WorthTypeOK, worthVars
<1>4. PapersTypeOK /\ UNCHANGED paperVars => PapersTypeOK'
  BY DEF PapersTypeOK, paperVars
<1> QED
  BY <1>1, <1>2, <1>3, <1>4

LEMMA HouseholdStep == HouseholdInv /\ [OfficeNext]_officeVars => HouseholdInv'
<1> SUFFICES ASSUME HouseholdInv, [OfficeNext]_officeVars PROVE HouseholdInv'
  OBVIOUS
<1>1. focus' = focus
  BY DEF OfficeNext, officeVars
<1>2. /\ focus = "members" => [MembersNext]_<<connVars, memberVars>>
      /\ focus = "packs" => [PacksNext]_<<connVars, packVars>>
      /\ focus = "worth" => [WorthNext]_<<connVars, worthVars>>
      /\ focus = "papers" => [PapersNext]_<<connVars, paperVars>>
  BY DEF OfficeNext, officeVars, SchedulesNext, PurchasesNext, MatchesNext, FixedAssetsNext,
         HouseholdNext, CommunityNext, SnapshotsNext, DeskNext
<1>3. /\ focus # "members" => UNCHANGED memberVars
      /\ focus # "packs" => UNCHANGED packVars
      /\ focus # "worth" => UNCHANGED worthVars
      /\ focus # "papers" => UNCHANGED paperVars
  BY DEF OfficeNext, officeVars
<1>4. focus = "members" => (MemberInv /\ SplitInv /\ RefersInv)'
  BY <1>2, MembersStep, SplitsStep, RefersStep DEF HouseholdInv
<1>5. focus = "packs" => (PackInv /\ SignersTyped)'
  BY <1>2, PacksStep, SignersStep DEF HouseholdInv
<1>6. focus = "worth" => (WorthInv /\ WorthRows)'
  BY <1>2, WorthStep, RowsStep DEF HouseholdInv
<1>7. focus = "papers" => VoucherInv'
  BY <1>2, VouchersStep DEF HouseholdInv
<1>8. MembersTypeOK'
  <2>1. MemberInv' /\ RefersInv' => MembersTypeOK'
    BY MembersTypes, PTL
  <2> QED
    BY <1>3, <1>4, <2>1, StandsStill DEF HouseholdInv, HouseholdTypeOK
<1>9. PacksTypeOK'
  <2>1. PackInv' /\ SignersTyped' => PacksTypeOK'
    BY PacksTypes, PTL
  <2> QED
    BY <1>3, <1>5, <2>1, StandsStill DEF HouseholdInv, HouseholdTypeOK
<1>10. WorthTypeOK'
  <2>1. WorthInv' /\ WorthRows' => WorthTypeOK'
    BY WorthTypes, PTL
  <2> QED
    BY <1>3, <1>6, <2>1, StandsStill DEF HouseholdInv, HouseholdTypeOK
<1>11. PapersTypeOK'
  <2>1. VoucherInv' => PapersTypeOK'
    BY PapersTypes, PTL
  <2> QED
    BY <1>3, <1>7, <2>1, StandsStill DEF HouseholdInv, HouseholdTypeOK
<1> QED
  BY <1>1, <1>4, <1>5, <1>6, <1>7, <1>8, <1>9, <1>10, <1>11 DEF HouseholdInv, HouseholdTypeOK

\* Whatever a household does with its members, packs, balances and documents, by however many
\* processes, its tables hold what their columns and foreign keys allow: no attribution, share
\* or capability outlives the person it names (0001_init.sql and its successors).
THEOREM HouseholdTyped == OfficeSpec => []HouseholdTypeOK
<1>1. HouseholdInv => HouseholdTypeOK
  BY DEF HouseholdInv
<1> QED
  BY <1>1, HouseholdInitially, HouseholdStep, PTL DEF OfficeSpec
=============================================================================
