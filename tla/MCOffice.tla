------------------------------- MODULE MCOffice -------------------------------
(***************************************************************************)
(* The back office of one book: recurring schedules, purchasing, bank      *)
(* reconciliation, fixed assets, members, packs, net worth and documents,  *)
(* each called by one process or by two.  They keep separate tables, so a  *)
(* behaviour is about one of them, and the others stand still.             *)
(***************************************************************************)
EXTENDS Recurring, Purchasing, Recon, Assets, Members, Packs, NetWorth, Papers

CONSTANTS c1, c2, \* a process each
          Foci    \* the parts a run is about

VARIABLE focus

OneOrTwo == {{c1}, {c1, c2}}
One == {{c1}}

\* A rent invoiced on the last day of the month, and wages every four weeks.
MCStart == [s \in Schedules |-> IF s = "rent" THEN <<2024, 1, 31>> ELSE <<2024, 2, 26>>]
MCRule == [s \in Schedules |-> IF s = "rent" THEN [unit |-> "monthly", every |-> 1]
                                             ELSE [unit |-> "weekly", every |-> 4]]
MCBounds == {<<None, None>>, <<<<2024, 2, 28>>, 2>>}
MCAsOf == {<<2024, 3, 31>>}

MCOrderOf == [l \in PoLines |-> "po"]
MCMaxReceipts == [l \in PoLines |-> IF l = "paper" THEN 2 ELSE 0]
MCDeliveries == {-1, 1}

AllFit == Statement \X Counterparts

StraightLine == [from |-> 1, cost |-> 10, residual |-> 1, life |-> 4, rate |-> None]
ReducingBalance == [from |-> 2, cost |-> 10, residual |-> 1, life |-> 3, rate |-> 5000]
MCTerms == {StraightLine, ReducingBalance}
\* A rate that stops writing anything off before the end of the asset's life.
Lingering == [from |-> 1, cost |-> 10, residual |-> 0, life |-> 6, rate |-> 3000]
MCLingering == {StraightLine, ReducingBalance, Lingering}

MCSpent == [t \in Spending |-> -2]
MCPaidFrom == [t \in Spending |-> "till"]

MCSeeds == [p \in {"seed"} |-> 1]
MCCategoriesIn ==
    [f \in PackIds \X Versions |-> IF f = <<"local", 2>> THEN {"food", "home"} ELSE {"food"}]
MCRulesIn ==
    [f \in PackIds \X Versions |->
        {[merchant |-> "shop", exact |-> f[1] = "local",
          category |-> IF f = <<"local", 2>> THEN "home" ELSE "food"]}]
MCLegacyIndex == {[p \in {} |-> 1], [p \in {"local"} |-> 1]}

MCOpeningOf == [a \in Holdings |-> -5]
MCAmounts == {-1, 2}

MCOnBank == [t \in BankLines |-> IF t = "fee" THEN -3 ELSE 4]
MCCounters == [category : {None, "income", "expense", "transfer"}, mapped : {None}]
              \cup {[category |-> "expense", mapped |-> "other"]}
Item(total, rate) == [total |-> total, rate |-> rate]
\* A discount among the groups; items that round, drift, mix rates or lack one.
MCBreakdown == <<[base |-> 3, vat |-> 1], [base |-> -1, vat |-> -1]>>
MCItems == {<<>>, <<Item(2, 5000), Item(2, 5000)>>, <<Item(2, 0), Item(-1, 0)>>,
            <<Item(1, 10000), Item(2, 5000)>>, <<Item(3, 5000), Item(2, None)>>}
MCSlips == [total : {3, 5}, vat : {None, 1}, breakdown : {<<>>}, items : MCItems]
           \cup [total : {3, 5}, vat : {1}, breakdown : {MCBreakdown}, items : {<<>>}]

\* Payables before inventory, if one at a time, and stock moved by hand or a second line
\* only once both are there.  With two processes: one schedule in
\* open periods, one line received once, in a book whose accounts were there first, no
\* stock moved by hand, two matches, no asset; members without an account of their own, not
\* edited or signed out; one pack, never in the index; slips without items.
OfficeBounds ==
    /\ coa' # {"inventory"}
    /\ coa' # StockAccounts => byHand' = 0 /\ \A l \in PoLines \ {"paper"} : poLines'[l] = None
    /\ ~Alone =>
        /\ focus # "assets"
        /\ schedules'["wages"].status = "none"
        /\ ~closed'
        /\ poLines'["ink"] = None
        /\ receipts'["paper"] <= 1
        /\ (\E o \in Purchases : purchases'[o].status # "none") => coa' = StockAccounts
        /\ byHand' = 0
        /\ Len(matches') <= 2
        /\ \A p \in Persons : members'[p] # None =>
               /\ members'[p].account = None
               /\ members'[p].label = IF p = 1 THEN "ann" ELSE "bob"
        /\ legacy' = <<>>
        /\ \A c \in Conns : seen'[c] # None =>
               /\ focus = "members" => seen'[c].job \in {"add", "remove", "split", "attribute", "grant"}
               /\ focus = "packs" => seen'[c].offer.pack = "local"
               /\ focus = "papers" /\ seen'[c].job = "extraction" => seen'[c].slip.items = <<>>

\* One document or bank transaction at a time.
PapersInUse ==
    {d \in Papers : status[d] # None}
    \cup {t \in BankLines : vouchers[t] # None
                            \/ \E c \in Conns : Doing(c, "voucher") /\ seen[c].source = t}

officeVars == <<focus, connVars, recurringVars, purchasingVars, reconVars, assetVars,
                memberVars, packVars, worthVars, paperVars>>

OfficeInit ==
    /\ focus \in Foci
    /\ ConnInit /\ RecurringInit /\ PurchasingInit /\ ReconInit /\ AssetsInit
    /\ MembersInit /\ PacksInit /\ WorthInit /\ PapersInit
    /\ focus # "packs" => legacy = <<>>
    /\ focus # "papers" => business

SchedulesNext == focus = "schedules" /\ RecurringNext
PurchasesNext == focus = "purchases" /\ PurchasingNext
MatchesNext == focus = "matches" /\ ReconNext
FixedAssetsNext == focus = "assets" /\ AssetsNext
HouseholdNext == focus = "members" /\ MembersNext
CommunityNext == focus = "packs" /\ PacksNext
SnapshotsNext == focus = "worth" /\ WorthNext
DeskNext == focus = "papers" /\ PapersNext /\ Cardinality(PapersInUse') <= 1

OfficeNext ==
    /\ UNCHANGED focus
    /\ \/ SchedulesNext \/ PurchasesNext \/ MatchesNext \/ FixedAssetsNext
       \/ HouseholdNext \/ CommunityNext \/ SnapshotsNext \/ DeskNext
    /\ focus # "schedules" => UNCHANGED recurringVars
    /\ focus # "purchases" => UNCHANGED purchasingVars
    /\ focus # "matches" => UNCHANGED reconVars
    /\ focus # "assets" => UNCHANGED assetVars
    /\ focus # "members" => UNCHANGED memberVars
    /\ focus # "packs" => UNCHANGED packVars
    /\ focus # "worth" => UNCHANGED worthVars
    /\ focus # "papers" => UNCHANGED paperVars
    /\ OfficeBounds

\* A process that runs keeps running.
OfficeFairness ==
    \A c \in Conns : WF_<<connVars, recurringVars>>(focus = "schedules" /\ RunStep(c))

OfficeSpec == OfficeInit /\ [][OfficeNext]_officeVars /\ OfficeFairness

\* Whatever the focus, the tables hold what the columns allow.
OfficeTypeOK == RecurringTypeOK /\ PurchasingTypeOK /\ ReconTypeOK /\ AssetsTypeOK

\* The same of the household's parts.
HouseholdTypeOK == MembersTypeOK /\ PacksTypeOK /\ WorthTypeOK /\ PapersTypeOK
=============================================================================
