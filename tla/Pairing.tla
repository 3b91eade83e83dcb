-------------------------------- MODULE Pairing --------------------------------
(***************************************************************************)
(* A device's identity, and the pairing of two devices by two blobs that   *)
(* people carry between them: an invite, and the acceptance that answers   *)
(* it.                                                                     *)
(*                                                                         *)
(* The private half of an identity is a vault entry, the public half a     *)
(* row; initialize, rotate and reset write them in transactions of their   *)
(* own, so a death, a failed write or another program in between leaves    *)
(* halves that do not match.  Signing refuses such halves, and reset is    *)
(* the way out.  A key is a pair of the device that generated it and a     *)
(* number; what a blob says is what was signed.                            *)
(***************************************************************************)
EXTENDS Naturals, FiniteSets

CONSTANTS Devices,
          Programs,    \* programs that use a device's database, one call at a time each
          On,          \* the device each runs on
          Missing,     \* no key, no call under way
          MaxKeys,     \* bound: keys a device generates
          Invites,     \* ids of invites
          MaxDeaths    \* bound: calls that die or fail half way

Keys == Devices \X (1..MaxKeys)
Key == Keys \cup {Missing}

\* An acceptance: the invite it answers, who answers whom, and who signed it.
Blobs == [invite : Invites, by : Keys, to : Key, signer : Keys]

\* What a call holds between two of its steps.
Calls == [step : {"set", "first"}, new : Keys]
         \cup [step : {"replace", "log", "next"}, old : Keys, new : Keys]
         \cup [step : {"reset"}]
         \cup [step : {"answer"}, invite : Invites, by : Keys]
         \cup [step : {"confirm"}, blob : Blobs, me : Keys]

ASSUME PairingAssumption ==
    /\ On \in [Programs -> Devices]
    /\ MaxKeys \in Nat /\ MaxDeaths \in Nat
    /\ Missing \notin Keys /\ Missing \notin Calls

VARIABLES generated, \* how many keys each device has generated
          vault,     \* the private key in each vault, or Missing
          identity,  \* device_identity: the public key, or Missing
          rotations, \* device_identity_rotations
          peers,     \* device_peers: per device and key, "unknown", "pinned" or "revoked"
          invites,   \* device_pair_invites, and the key each was signed with
          accepted,  \* acceptance blobs there are
          call,      \* what each program is in the middle of
          torn,      \* was a device's identity write cut short since its last reset?
          deaths,
          pinnedBy,  \* history: keys each device ever pinned
          admitted   \* history: what each invite let in, and by which inviter's key

identityVars == <<generated, vault, identity, rotations>>
pairingVars == <<identityVars, peers, invites, accepted, call, torn, deaths, pinnedBy, admitted>>

PairingInit ==
    /\ generated = [d \in Devices |-> 0]
    /\ vault = [d \in Devices |-> Missing]
    /\ identity = [d \in Devices |-> Missing]
    /\ rotations = [d \in Devices |-> {}]
    /\ peers = [d \in Devices |-> [k \in Keys |-> "unknown"]]
    /\ invites = [i \in Invites |-> [state |-> "none", key |-> Missing, fresh |-> TRUE]]
    /\ accepted = {}
    /\ call = [p \in Programs |-> Missing]
    /\ torn = [d \in Devices |-> FALSE]
    /\ deaths = 0
    /\ pinnedBy = [d \in Devices |-> {}]
    /\ admitted = [i \in Invites |-> {}]

Ready(p) == call[p] = Missing
In(p, step) == ~Ready(p) /\ call[p].step = step
Goes(p, to) == call' = [call EXCEPT ![p] = to]
Returns(p) == Goes(p, Missing)

\* Devices::sign refuses when the vault's key is not the pinned public key.
CanSign(d) == identity[d] # Missing /\ vault[d] = identity[d]

-----------------------------------------------------------------------------
(***************************************************************************)
(* Identity.                                                               *)
(***************************************************************************)

NewKey(d) == <<d, generated[d] + 1>>
Generates(d) == generated[d] < MaxKeys /\ generated' = [generated EXCEPT ![d] = @ + 1]

\* Mutation of Forgets: the key stays in the vault.
ForgetsNothing(d) == UNCHANGED vault

\* vault.revoke, of an entry that may be missing.
Forgets(d) == vault' = [vault EXCEPT ![d] = Missing]

Initialize(p) ==
    LET d == On[p] IN
    /\ Ready(p)
    /\ identity[d] = Missing /\ vault[d] = Missing
    /\ Generates(d)
    /\ Goes(p, [step |-> "set", new |-> NewKey(d)])
    /\ UNCHANGED <<vault, identity, rotations, peers, invites, accepted, torn, deaths,
                   pinnedBy, admitted>>

\* vault.set refuses an entry there is.
VaultSet(p) ==
    LET d == On[p] IN
    /\ In(p, "set")
    /\ IF vault[d] = Missing
       THEN /\ vault' = [vault EXCEPT ![d] = call[p].new]
            /\ Goes(p, [step |-> "first", new |-> call[p].new])
       ELSE Returns(p) /\ UNCHANGED vault
    /\ UNCHANGED <<generated, identity, rotations, peers, invites, accepted, torn, deaths,
                   pinnedBy, admitted>>

\* If the row cannot be written, the vault entry goes again.
InitializeFails(p) ==
    /\ In(p, "first")
    /\ deaths < MaxDeaths
    /\ deaths' = deaths + 1
    /\ Forgets(On[p])
    /\ Returns(p)
    /\ UNCHANGED <<generated, identity, rotations, peers, invites, accepted, torn, pinnedBy,
                   admitted>>

\* rotate signs the new key with the old one before it changes anything.
Rotate(p) ==
    LET d == On[p] IN
    /\ Ready(p)
    /\ CanSign(d)
    /\ Generates(d)
    /\ Goes(p, [step |-> "replace", old |-> identity[d], new |-> NewKey(d)])
    /\ UNCHANGED <<vault, identity, rotations, peers, invites, accepted, torn, deaths,
                   pinnedBy, admitted>>

\* vault.replace refuses an entry there is not.
VaultReplace(p) ==
    LET d == On[p] IN
    /\ In(p, "replace")
    /\ IF vault[d] # Missing
       THEN /\ vault' = [vault EXCEPT ![d] = call[p].new]
            /\ Goes(p, [call[p] EXCEPT !.step = "log"])
       ELSE Returns(p) /\ UNCHANGED vault
    /\ UNCHANGED <<generated, identity, rotations, peers, invites, accepted, torn, deaths,
                   pinnedBy, admitted>>

RotationLogged(p) ==
    /\ In(p, "log")
    /\ rotations' = [rotations EXCEPT ![On[p]] = @ \cup {<<call[p].old, call[p].new>>}]
    /\ Goes(p, [call[p] EXCEPT !.step = "next"])
    /\ UNCHANGED <<generated, vault, identity, peers, invites, accepted, torn, deaths,
                   pinnedBy, admitted>>

WriteIdentity(p) ==
    /\ In(p, "first") \/ In(p, "next")
    /\ identity' = [identity EXCEPT ![On[p]] = call[p].new]
    /\ Returns(p)
    /\ UNCHANGED <<generated, vault, rotations, peers, invites, accepted, torn, deaths,
                   pinnedBy, admitted>>

\* revoke of a missing entry is ignored: reset cleans up torn halves.
Reset(p) ==
    /\ Ready(p)
    /\ Forgets(On[p])
    /\ Goes(p, [step |-> "reset"])
    /\ UNCHANGED <<generated, identity, rotations, peers, invites, accepted, torn, deaths,
                   pinnedBy, admitted>>

InvitesOf(d) == {i \in Invites : invites[i].state # "none" /\ invites[i].key[1] = d}

Withdrawn(gone) == [i \in Invites |-> IF i \in gone THEN [invites[i] EXCEPT !.state = "gone"]
                                                    ELSE invites[i]]

ResetRows(p) ==
    LET d == On[p] IN
    /\ In(p, "reset")
    /\ identity' = [identity EXCEPT ![d] = Missing]
    /\ rotations' = [rotations EXCEPT ![d] = {}]
    /\ invites' = Withdrawn(InvitesOf(d))
    /\ torn' = [torn EXCEPT ![d] = FALSE]
    /\ Returns(p)
    /\ UNCHANGED <<generated, vault, peers, accepted, deaths, pinnedBy, admitted>>

\* A program dies, or a write fails, between two of its steps.
Dies(p) ==
    /\ ~Ready(p)
    /\ deaths < MaxDeaths
    /\ deaths' = deaths + 1
    /\ torn' = [torn EXCEPT ![On[p]] = @ \/ call[p].step \in {"first", "log", "next", "reset"}]
    /\ Returns(p)
    /\ UNCHANGED <<identityVars, peers, invites, accepted, pinnedBy, admitted>>

-----------------------------------------------------------------------------
(***************************************************************************)
(* Pairing.  An invite's blob is never lost or taken back, only its row.   *)
(***************************************************************************)

InviteCreate(p, i) ==
    LET d == On[p] IN
    /\ Ready(p)
    /\ CanSign(d)
    /\ invites[i].state = "none"
    /\ invites' = [invites EXCEPT ![i] = [state |-> "open", key |-> identity[d], fresh |-> TRUE]]
    /\ UNCHANGED <<identityVars, peers, accepted, call, torn, deaths, pinnedBy, admitted>>

InviteCancel(i) ==
    /\ invites[i].state = "open"
    /\ invites' = Withdrawn({i})
    /\ UNCHANGED <<identityVars, peers, accepted, call, torn, deaths, pinnedBy, admitted>>

InviteExpires(i) ==
    /\ invites[i].state # "none"
    /\ invites[i].fresh
    /\ invites' = [invites EXCEPT ![i].fresh = FALSE]
    /\ UNCHANGED <<identityVars, peers, accepted, call, torn, deaths, pinnedBy, admitted>>

\* A revoked key is refused; one already pinned stays as it is.
PinPeer(d, k) ==
    /\ peers[d][k] # "revoked"
    /\ peers' = [peers EXCEPT ![d][k] = "pinned"]
    /\ pinnedBy' = [pinnedBy EXCEPT ![d] = @ \cup {k}]

\* pair_accept pins the inviter, and only then signs its answer.
PairAccept(p, i) ==
    LET d == On[p] IN
    /\ Ready(p)
    /\ identity[d] # Missing
    /\ invites[i].state # "none" /\ invites[i].fresh
    /\ invites[i].key # identity[d]
    /\ PinPeer(d, invites[i].key)
    /\ Goes(p, [step |-> "answer", invite |-> i, by |-> identity[d]])
    /\ UNCHANGED <<identityVars, invites, accepted, torn, deaths, admitted>>

\* The answer names the key read at the start; sign reads the identity once more.
PairAnswer(p) ==
    LET d == On[p] IN
    /\ In(p, "answer")
    /\ accepted' = IF CanSign(d)
                   THEN accepted \cup {[invite |-> call[p].invite, by |-> call[p].by,
                                        to |-> invites[call[p].invite].key,
                                        signer |-> identity[d]]}
                   ELSE accepted
    /\ Returns(p)
    /\ UNCHANGED <<identityVars, peers, invites, torn, deaths, pinnedBy, admitted>>

\* Mutation of Answers: whom the acceptance is addressed to is not looked at.
AnswersSomeone(a, me) == a.by # me /\ a.signer = a.by

\* Is the acceptance addressed to this key, and by another that signed it?
Answers(a, me) == a.to = me /\ a.by # me /\ a.signer = a.by

\* pair_confirm reads the identity and checks the blob...
PairConfirm(p, a) ==
    LET me == identity[On[p]] IN
    /\ Ready(p)
    /\ me # Missing
    /\ Answers(a, me)
    /\ Goes(p, [step |-> "confirm", blob |-> a, me |-> me])
    /\ UNCHANGED <<identityVars, peers, invites, accepted, torn, deaths, pinnedBy, admitted>>

Redeemable(i) == invites[i].state = "open" /\ invites[i].fresh

\* ...then pins the peer and burns the invite in one transaction.
PairBurn(p) ==
    LET d == On[p]
        a == call[p].blob IN
    /\ In(p, "confirm")
    /\ a.invite \in InvitesOf(d)
    /\ Redeemable(a.invite)
    /\ PinPeer(d, a.by)
    /\ invites' = [invites EXCEPT ![a.invite].state = "redeemed"]
    /\ admitted' = [admitted EXCEPT ![a.invite] = @ \cup {[peer |-> a.by, inviter |-> call[p].me]}]
    /\ Returns(p)
    /\ UNCHANGED <<identityVars, accepted, torn, deaths>>

PairRefused(p) ==
    /\ In(p, "confirm")
    /\ \/ ~Redeemable(call[p].blob.invite)
       \/ call[p].blob.invite \notin InvitesOf(On[p])
       \/ peers[On[p]][call[p].blob.by] = "revoked"
    /\ Returns(p)
    /\ UNCHANGED <<identityVars, peers, invites, accepted, torn, deaths, pinnedBy, admitted>>

PeerRevoke(d, k) ==
    /\ peers[d][k] = "pinned"
    /\ peers' = [peers EXCEPT ![d][k] = "revoked"]
    /\ UNCHANGED <<identityVars, invites, accepted, call, torn, deaths, pinnedBy, admitted>>

PeerForget(d, k) ==
    /\ peers[d][k] # "unknown"
    /\ peers' = [peers EXCEPT ![d][k] = "unknown"]
    /\ UNCHANGED <<identityVars, invites, accepted, call, torn, deaths, pinnedBy, admitted>>

PairingNext ==
    \/ \E p \in Programs :
        \/ Initialize(p) \/ VaultSet(p) \/ InitializeFails(p)
        \/ Rotate(p) \/ VaultReplace(p) \/ RotationLogged(p) \/ WriteIdentity(p)
        \/ Reset(p) \/ ResetRows(p) \/ Dies(p)
        \/ \E i \in Invites : InviteCreate(p, i) \/ PairAccept(p, i)
        \/ PairAnswer(p)
        \/ \E a \in accepted : PairConfirm(p, a)
        \/ PairBurn(p) \/ PairRefused(p)
    \/ \E i \in Invites : InviteCancel(i) \/ InviteExpires(i)
    \/ \E d \in Devices, k \in Keys : PeerRevoke(d, k) \/ PeerForget(d, k)

-----------------------------------------------------------------------------
(***************************************************************************)
(* Properties.                                                             *)
(***************************************************************************)

\* The tables hold keys that were generated, and a revoked pin is one there was.
PairingTypeOK ==
    /\ generated \in [Devices -> 0..MaxKeys]
    /\ vault \in [Devices -> Key] /\ identity \in [Devices -> Key]
    /\ \A d \in Devices :
        /\ {vault[d], identity[d]} \subseteq ({d} \X (1..generated[d])) \cup {Missing}
        /\ \A k \in Keys : peers[d][k] # "unknown" => k \in pinnedBy[d]
    /\ \A i \in Invites : /\ invites[i].state \in {"none", "open", "gone", "redeemed"}
                          /\ invites[i].key = Missing <=> invites[i].state = "none"
    /\ \A a \in accepted : {a.by, a.to, a.signer} \subseteq Keys
    /\ deaths \in 0..MaxDeaths

\* Through rotations, resets, deaths, blobs carried twice or to the wrong device: an
\* invite lets in one key at most, and only one whose device had pinned, at its own
\* end, the very key the inviter went by when it let it in.
PairingIsMutual ==
    \A i \in Invites :
        /\ Cardinality(admitted[i]) <= 1
        /\ \A a \in admitted[i] : a.inviter \in pinnedBy[a.peer[1]] /\ a.peer[1] # a.inviter[1]

Alone(d) == \A p, q \in Programs : On[p] = d /\ On[q] = d => p = q

\* Unless a write of its identity was cut short, the identity of a device that one
\* program uses is the key in its vault between two calls, at the end of its chain of
\* rotations; and a reset makes up for everything that was cut short before.
IdentityIsWhole ==
    \A d \in Devices :
        Alone(d) /\ ~torn[d] /\ (\A p \in Programs : On[p] = d => Ready(p)) =>
            /\ vault[d] = identity[d]
            /\ \A r \in rotations[d] :
                r[2] = identity[d] \/ \E s \in rotations[d] : s[1] = r[2]

PairingSpec == PairingInit /\ [][PairingNext]_pairingVars
=============================================================================
