-------------------------------- MODULE Packs --------------------------------
(***************************************************************************)
(* Packs: signed files of categories and merchant rules that a user        *)
(* installs into a book, and what the book learns about its merchants.     *)
(*                                                                         *)
(* An install passes its gates one by one - the pin of the pack id to its  *)
(* first signer, the signer's acceptance, the trust store, the version -   *)
(* each reading or writing on its own, and only the last step is one       *)
(* transaction.  `plan` answers beforehand, reading the same tables.       *)
(* Packs an older version of the program had installed are listed in a     *)
(* settings key, the legacy index, and adopted before anything else.       *)
(*                                                                         *)
(* A category stands for the local row a pack's key is mapped to.  Between *)
(* rules of one tier the classifier decides by confidence and length: here *)
(* any of them may win.  One book; the signature itself is checked before. *)
(***************************************************************************)
EXTENDS Connections, Integers

CONSTANTS PackIds,
          Seeds,        \* [the packs in the binary -> their version]
          SeedKey,      \* the key they are signed with, known to everyone
          Keys,         \* the publishers' keys
          LegacySigner, \* written where an adopted pack has no known signer
          Versions,
          Merchants,
          CategoriesIn, \* [PackIds \X Versions -> categories the file declares]
          RulesIn,      \* [PackIds \X Versions -> its rules: merchant, category, exact]
          LegacyIndex   \* what the index may list: functions from pack ids to versions

Signers == Keys \cup {SeedKey}
Categories == UNION {CategoriesIn[f] : f \in PackIds \X Versions}
InstallRow == [version : Versions, signer : Signers \cup {LegacySigner}]
MappingRow == [category : Categories, source : {"user", "pack"}]

\* A file's rules name categories it declares: one that does not is refused unread.
ASSUME PacksAssumption ==
    /\ \A f \in PackIds \X Versions : \A r \in RulesIn[f] : r.category \in CategoriesIn[f]
    /\ \A l \in LegacyIndex \cup {Seeds} :
           DOMAIN l \subseteq PackIds /\ \A p \in DOMAIN l : l[p] \in Versions
    /\ None \notin InstallRow \cup MappingRow

VARIABLES legacy,   \* the index; nothing ever writes it
          trusted,  \* pack_trusted_signers
          pins,     \* [PackIds -> None or the key the id is bound to]
          installs, \* [PackIds -> None or the pack_installs row]
          owned,    \* [PackIds -> its pack_category_map]
          mappings, \* [Merchants -> None or the merchant_mappings row]
          chosen    \* [Merchants -> None or the user's last correction]

packVars == <<legacy, trusted, pins, installs, owned, mappings, chosen>>

\* A verified file, and whether the caller passes the fingerprint as accepted.
Offers == [pack : PackIds, version : Versions, signer : Signers, accept : BOOLEAN]

PacksTypeOK ==
    /\ legacy \in LegacyIndex
    /\ trusted \subseteq Keys
    /\ \A p \in PackIds :
           /\ pins[p] \in Signers \cup {None}
           /\ installs[p] \in InstallRow \cup {None}
           /\ owned[p] \subseteq Categories
    /\ \A m \in Merchants :
           /\ mappings[m] \in MappingRow \cup {None}
           /\ chosen[m] \in Categories \cup {None}

PacksInit ==
    /\ legacy \in LegacyIndex
    /\ trusted = {}
    /\ pins = [p \in PackIds |-> None]
    /\ installs = [p \in PackIds |-> None]
    /\ owned = [p \in PackIds |-> {}]
    /\ mappings = [m \in Merchants |-> None]
    /\ chosen = [m \in Merchants |-> None]

-----------------------------------------------------------------------------
(* What an install writes, always in one transaction.                      *)

\* An exact rule seeds the merchant's mapping, over one a pack wrote and no other.
Seeded(p, v) ==
    [m \in Merchants |->
        LET exact == {r \in RulesIn[<<p, v>>] : r.merchant = m /\ r.exact}
        IN  IF exact = {} \/ (mappings[m] # None /\ mappings[m].source # "pack")
            THEN mappings[m]
            ELSE [category |-> (CHOOSE r \in exact : TRUE).category, source |-> "pack"]]

WriteInstall(p, v, signer) ==
    /\ installs' = [installs EXCEPT ![p] = [version |-> v, signer |-> signer]]
    /\ owned' = [owned EXCEPT ![p] = @ \cup CategoriesIn[<<p, v>>]]
    /\ mappings' = Seeded(p, v)
    /\ UNCHANGED <<legacy, trusted, chosen>>

PinAllows(p, signer) == pins[p] \in {None, signer}
VersionAllows(p, v) == installs[p] # None => v > installs[p].version

\* The transaction of Installer::install.
InstallWrites(p, v, signer) ==
    /\ PinAllows(p, signer)
    /\ VersionAllows(p, v)
    /\ pins' = [pins EXCEPT ![p] = signer]
    /\ WriteInstall(p, v, signer)

-----------------------------------------------------------------------------
(* The legacy index.                                                       *)

PendingLegacy == {p \in DOMAIN legacy : installs[p] = None}

Adopt(p) ==
    /\ p \in PendingLegacy
    /\ WriteInstall(p, legacy[p], LegacySigner)
    /\ UNCHANGED pins

\* Listing the packs adopts first.
List(c, p) == c \in team /\ Free /\ Idle(c) /\ Adopt(p) /\ UNCHANGED connVars

-----------------------------------------------------------------------------
(* The preflight, and an install gate by gate.                             *)

\* As if the preflight did not look at the pin.
PlanUnpinned(o) ==
    IF (o.signer \notin trusted /\ o.signer = SeedKey) \/ ~VersionAllows(o.pack, o.version)
    THEN "refuse"
    ELSE IF installs[o.pack] = None THEN "install" ELSE "upgrade"

Plan(o) ==
    IF \/ ~PinAllows(o.pack, o.signer)
       \/ (o.signer \notin trusted /\ o.signer = SeedKey)
       \/ ~VersionAllows(o.pack, o.version)
    THEN "refuse"
    ELSE IF installs[o.pack] = None THEN "install" ELSE "upgrade"

\* `planned` remembers what the preflight would have said, and `sure` that it saw the
\* packs the index lists already adopted.
BeginInstall(c, o) ==
    /\ Read(c, [job |-> "adopt", offer |-> o, planned |-> Plan(o),
                sure |-> PendingLegacy = {}])
    /\ UNCHANGED packVars

Offer(c) == seen[c].offer
GoOn(c, stage) == Keep(c, [seen[c] EXCEPT !.job = stage])

AdoptFirst(c) ==
    /\ Doing(c, "adopt")
    /\ IF PendingLegacy = {} THEN GoOn(c, "pin") /\ UNCHANGED packVars
                             ELSE (\E p \in PendingLegacy : Adopt(p)) /\ UNCHANGED connVars

PinGate(c) ==
    /\ Doing(c, "pin")
    /\ PinAllows(Offer(c).pack, Offer(c).signer)
    /\ GoOn(c, "signer")
    /\ UNCHANGED packVars

\* An unknown signer becomes trusted once accepted; the seed key cannot be.
SignerGate(c) ==
    /\ Doing(c, "signer")
    /\ Offer(c).signer \in trusted \/ (Offer(c).accept /\ Offer(c).signer # SeedKey)
    /\ trusted' = trusted \cup {Offer(c).signer}
    /\ GoOn(c, "trust")
    /\ UNCHANGED <<legacy, pins, installs, owned, mappings, chosen>>

TrustGate(c) ==
    /\ Doing(c, "trust")
    /\ Offer(c).signer \in trusted
    /\ GoOn(c, "write")
    /\ UNCHANGED packVars

Install(c) ==
    /\ Doing(c, "write")
    /\ InstallWrites(Offer(c).pack, Offer(c).version, Offer(c).signer)
    /\ Done(c)

\* A gate refuses, in the order of the gates.
Refuse(c) ==
    /\ \/ Doing(c, "pin") /\ ~PinAllows(Offer(c).pack, Offer(c).signer)
       \/ Doing(c, "signer") /\ Offer(c).signer \notin trusted
                             /\ (~Offer(c).accept \/ Offer(c).signer = SeedKey)
       \/ Doing(c, "trust") /\ Offer(c).signer \notin trusted
       \/ Doing(c, "write") /\ ~(/\ PinAllows(Offer(c).pack, Offer(c).signer)
                                 /\ VersionAllows(Offer(c).pack, Offer(c).version))
    /\ Done(c)
    /\ UNCHANGED packVars

\* The packs in the binary ask for no trust.
InstallSeed(c, p) ==
    /\ c \in team /\ Free /\ Idle(c)
    /\ InstallWrites(p, Seeds[p], SeedKey)
    /\ UNCHANGED connVars

-----------------------------------------------------------------------------
(* Removing packs and signers.                                             *)

\* As if the mappings a pack seeded stayed.
UninstallRulesOnly(c, p) ==
    /\ c \in team /\ Free /\ Idle(c)
    /\ installs[p] # None
    /\ installs' = [installs EXCEPT ![p] = None]
    /\ UNCHANGED <<connVars, legacy, trusted, pins, owned, mappings, chosen>>

\* Categories stay, as does the map to them; mappings a pack seeded into one go.
Uninstall(c, p) ==
    /\ c \in team /\ Free /\ Idle(c)
    /\ installs[p] # None
    /\ installs' = [installs EXCEPT ![p] = None]
    /\ mappings' = [m \in Merchants |->
                        IF mappings[m] # None /\ mappings[m].source = "pack"
                           /\ mappings[m].category \in owned[p]
                        THEN None ELSE mappings[m]]
    /\ UNCHANGED <<connVars, legacy, trusted, pins, owned, chosen>>

RevokeSigner(c, k) ==
    /\ c \in team /\ Free /\ Idle(c)
    /\ k \in trusted
    /\ trusted' = trusted \ {k}
    /\ UNCHANGED <<connVars, legacy, pins, installs, owned, mappings, chosen>>

-----------------------------------------------------------------------------
(* What a transaction of a merchant does to the book's opinion of it.      *)

LiveRules(m) == UNION {{r \in RulesIn[<<p, installs[p].version>>] : r.merchant = m} :
                       p \in {q \in PackIds : installs[q] # None}}

\* Importing a transaction consults the packs only where the book has no opinion.
Spend(c, m) ==
    /\ c \in team /\ Free /\ Idle(c)
    /\ mappings[m] = None
    /\ \E r \in LiveRules(m) :
           /\ r.exact \/ \A other \in LiveRules(m) : ~other.exact
           /\ mappings' = [mappings EXCEPT ![m] = [category |-> r.category,
                                                   source |-> "pack"]]
    /\ UNCHANGED <<connVars, legacy, trusted, pins, installs, owned, chosen>>

Categorize(c, m, category) ==
    /\ c \in team /\ Free /\ Idle(c)
    /\ \E p \in PackIds : category \in owned[p]
    /\ mappings' = [mappings EXCEPT ![m] = [category |-> category, source |-> "user"]]
    /\ chosen' = [chosen EXCEPT ![m] = category]
    /\ UNCHANGED <<connVars, legacy, trusted, pins, installs, owned>>

-----------------------------------------------------------------------------
PacksNext ==
    \E c \in team :
        \/ Free /\ \E o \in Offers : BeginInstall(c, o)
        \/ AdoptFirst(c) \/ PinGate(c) \/ SignerGate(c) \/ TrustGate(c) \/ Install(c)
        \/ Refuse(c)
        \/ Abandon(c) /\ UNCHANGED packVars
        \/ \E p \in PackIds : List(c, p) \/ Uninstall(c, p)
        \/ \E p \in DOMAIN Seeds : InstallSeed(c, p)
        \/ \E k \in Keys : RevokeSigner(c, k)
        \/ \E m \in Merchants : Spend(c, m) \/ \E k \in Categories : Categorize(c, m, k)

PacksSpec == ConnInit /\ PacksInit /\ [][PacksNext]_<<connVars, packVars>>

-----------------------------------------------------------------------------
\* Every opinion the book has of a merchant has somebody to answer for it: the user's
\* last correction, which no install, upgrade, removal or import ever displaces, or a
\* pack that is installed and owns the category ("corrections always win"; uninstalling
\* drops what was seeded).
MappingsHaveTheirReason ==
    \A m \in Merchants :
        /\ chosen[m] # None => mappings[m] = [category |-> chosen[m], source |-> "user"]
        /\ mappings[m] # None /\ mappings[m].source = "pack" =>
               \E p \in PackIds : installs[p] # None /\ mappings[m].category \in owned[p]

\* "The preflight can never promise something the attempt then refuses": one process, the
\* index adopted, an install reaches its end exactly if the preflight said so, and
\* is the install or the upgrade it said.  Only a signer nobody accepted may still refuse.
PlanTellsTheInstall ==
    [][Alone => \A c \in team :
           /\ Refuse(c) /\ seen[c].sure =>
                  \/ seen[c].planned = "refuse"
                  \/ (Offer(c).signer \notin trusted /\ ~Offer(c).accept)
           /\ Install(c) /\ seen[c].sure =>
                  seen[c].planned =
                      IF installs[Offer(c).pack] = None THEN "install" ELSE "upgrade"
      ]_<<connVars, packVars>>
=============================================================================
