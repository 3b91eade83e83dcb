------------------------------- MODULE MCDevices -------------------------------
(***************************************************************************)
(* What a device keeps beside its books: the data folder, the mailbox      *)
(* cursor, the operation log, and its identity and peers.  They share no   *)
(* state, so a behaviour is about one of them, and the others stand still. *)
(***************************************************************************)
EXTENDS DataDir, Mailbox, Oplog, Pairing

CONSTANTS desktop, cli, home, drive

VARIABLE focus

OneMover == {desktop}
OneUser == {cli}
TwoFolders == {home, drive}

\* A slip, a message that does not parse, an alert that carries the slip again, and an
\* advertisement that carries it too.
MCAttached == [m \in Messages |-> IF m = 2 THEN Unset ELSE "slip"]

MCOn == [p \in Programs |-> IF p = "phone" THEN "phone" ELSE "laptop"]

\* Of the two devices one at most has a second key, and a second program is started on
\* the laptop when an answer is back that both may confirm.
PairingBounds ==
    /\ generated'["laptop"] + generated'["phone"] <= 3
    /\ call'["cli"] # Missing =>
        /\ accepted' # {}
        /\ generated'["laptop"] + generated'["phone"] <= 2

\* Two processes seal at once only under the device's first key.
LogBounds == listed'["cli"] # {} => keys' = 1

devicesVars == <<focus, dataDirVars, mailVars, oplogVars, pairingVars>>

DevicesInit ==
    /\ focus \in {"folder", "mail", "log", "identity"}
    /\ DataDirInit /\ MailboxInit /\ OplogInit /\ PairingInit
    /\ focus # "mail" => connector = "imap"
    /\ focus # "log" => now = 0

DevicesNext ==
    /\ UNCHANGED focus
    /\ \/ /\ focus = "folder"
          /\ DataDirNext
          /\ UNCHANGED <<mailVars, oplogVars, pairingVars>>
       \/ /\ focus = "mail"
          /\ MailboxNext
          /\ UNCHANGED <<dataDirVars, oplogVars, pairingVars>>
       \/ /\ focus = "log"
          /\ OplogNext
          /\ LogBounds
          /\ UNCHANGED <<dataDirVars, mailVars, pairingVars>>
       \/ /\ focus = "identity"
          /\ PairingNext
          /\ PairingBounds
          /\ UNCHANGED <<dataDirVars, mailVars, oplogVars>>

\* The fairness of DataDirFairSpec and of MailboxFairness, each where it belongs.
DevicesFairness ==
    /\ \A m \in Movers :
        /\ WF_dataDirVars(focus = "folder" /\ MoveStep(m))
        /\ \A to \in Folders : WF_dataDirVars(focus = "folder" /\ Resolve(m, to))
    /\ WF_mailVars(focus = "mail" /\ ListNew)
    /\ WF_mailVars(focus = "mail" /\ cursor = Unset /\ Baseline)
    /\ WF_mailVars(focus = "mail" /\ RoundStep)

DevicesSpec == DevicesInit /\ [][DevicesNext]_devicesVars /\ DevicesFairness

\* EveryMoveCanBeResumed, where the folder moves at all: a move that died anywhere can
\* be run again and completes once the other processes are closed (datadir.rs:464).
MovesAreResumed == focus = "folder" => EveryMoveCanBeResumed
=============================================================================
