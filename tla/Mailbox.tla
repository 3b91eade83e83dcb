------------------------------- MODULE Mailbox -------------------------------
(***************************************************************************)
(* The user's mailbox as a source of documents and transactions: list what *)
(* the cursor has not passed, fetch it, import it, acknowledge it.         *)
(*                                                                         *)
(* A round lives in memory; the cursor, the document rows, the attachment  *)
(* files and the transactions are durable, each written on its own.  A     *)
(* round may die between any two of these, and the next one fetches again  *)
(* whatever the cursor has not passed, relying on dedupe by content.       *)
(*                                                                         *)
(* Messages are numbered in the order they arrive.  The IMAP connector     *)
(* keeps the number of the last message acknowledged; Gmail and Graph keep *)
(* a position in the provider's history, stored once the whole listing has *)
(* been acknowledged.                                                      *)
(***************************************************************************)
EXTENDS Naturals, FiniteSets

CONSTANTS Connectors,  \* the kinds of mailbox to consider: "imap", "gmail", "graph"
          Mail,        \* how many messages ever arrive
          Unreadable,  \* messages that do not parse
          Filtered,    \* messages whose sender is not on the allowlist
          Alerts,      \* messages that are bank alerts, each of its own content
          Contents,    \* contents of attachments, what sha256 distinguishes
          Attached,    \* the content attached to each message, or Unset
          Unset,       \* no attachment, no cursor, no round
          MaxFailures  \* bound: rounds that die or fail, and messages that vanish

Messages == 1..Mail

ASSUME MailboxAssumption ==
    /\ Connectors \subseteq {"imap", "gmail", "graph"}
    /\ Mail \in Nat /\ MaxFailures \in Nat
    /\ Unreadable \subseteq Messages /\ Filtered \subseteq Messages /\ Alerts \subseteq Messages
    /\ Attached \in [Messages -> Contents \cup {Unset}]
    /\ Unset \notin Contents \cup Nat

VARIABLES connector, \* which kind of mailbox this is
          arrived,   \* how many messages have arrived
          vanished,  \* those deleted at the provider
          cursor,    \* the stored cursor; for Gmail and Graph Unset before the first
          round,     \* what the running round has in memory, or Unset
          documents, \* contents with a document row
          files,     \* contents whose file is stored
          booked,    \* alerts that became transactions
          acked,     \* messages the connector was told are processed
          missed,    \* messages a new baseline passed over
          failures

mailVars == <<connector, arrived, vanished, cursor, round, documents, files, booked,
              acked, missed, failures>>

MailboxInit ==
    /\ connector \in Connectors
    /\ arrived = 0
    /\ vanished = {}
    /\ cursor = IF connector = "imap" THEN 0 ELSE Unset
    /\ round = Unset
    /\ documents = {} /\ files = {} /\ booked = {} /\ acked = {} /\ missed = {}
    /\ failures = 0

Readable(m) == m \notin Unreadable \cup vanished

\* After the cursor; everything, for a Graph folder that was never read.
Unseen == IF cursor = Unset THEN 1..arrived ELSE (cursor + 1)..arrived

-----------------------------------------------------------------------------
(***************************************************************************)
(* The provider.                                                           *)
(***************************************************************************)

Arrive ==
    /\ arrived < Mail
    /\ arrived' = arrived + 1
    /\ UNCHANGED <<connector, vanished, cursor, round, documents, files, booked, acked,
                   missed, failures>>

Vanish(m) ==
    /\ m <= arrived
    /\ m \notin vanished
    /\ failures < MaxFailures
    /\ failures' = failures + 1
    /\ vanished' = vanished \cup {m}
    /\ UNCHANGED <<connector, arrived, cursor, round, documents, files, booked, acked, missed>>

-----------------------------------------------------------------------------
(***************************************************************************)
(* A round: list_new and fetch_message for all, then message by message.   *)
(***************************************************************************)

\* Gmail's history still lists a message that was deleted since; the others do not.
Listed(unseen) == IF connector = "gmail" THEN unseen ELSE unseen \ vanished

Listing(unseen) ==
    [step |-> "fetch", todo |-> {}, mustWrite |-> FALSE, pending |-> Listed(unseen),
     next |-> arrived]

ListNew ==
    /\ round = Unset
    /\ connector = "gmail" => cursor # Unset
    /\ round' = Listing(Unseen)
    /\ UNCHANGED <<connector, arrived, vanished, cursor, documents, files, booked, acked,
                   missed, failures>>

\* What vanished since the listing, or does not parse, is not handed on.
FetchMessages ==
    /\ round # Unset
    /\ round.step = "fetch"
    /\ round' = [round EXCEPT !.step = "file", !.todo = {m \in round.pending : Readable(m)}]
    /\ UNCHANGED <<connector, arrived, vanished, cursor, documents, files, booked, acked,
                   missed, failures>>

\* Gmail's first round, and any whose history the provider has forgotten, adopts the
\* present as its cursor and reports nothing.
Baseline ==
    /\ round = Unset
    /\ connector = "gmail"
    /\ \/ cursor = Unset /\ UNCHANGED failures
       \/ cursor # Unset /\ failures < MaxFailures /\ failures' = failures + 1
    /\ missed' = missed \cup (Unseen \ acked)
    /\ cursor' = arrived
    /\ UNCHANGED <<connector, arrived, vanished, round, documents, files, booked, acked>>

\* Graph starts from scratch when its delta token has expired.
Resync ==
    /\ round = Unset
    /\ connector = "graph"
    /\ cursor # Unset
    /\ failures < MaxFailures
    /\ failures' = failures + 1
    /\ round' = Listing(1..arrived)
    /\ UNCHANGED <<connector, arrived, vanished, cursor, documents, files, booked, acked,
                   missed>>

MessageInHand == round # Unset /\ round.todo # {}
Oldest == CHOOSE m \in round.todo : \A n \in round.todo : m <= n
Handling(step) == MessageInHand /\ round.step = step
Goto(step) == round' = [round EXCEPT !.step = step]

\* document_import: the row is committed first, if its content is new.
ImportDocument ==
    LET content == Attached[Oldest] IN
    /\ Handling("file")
    /\ Oldest \notin Filtered
    /\ round' = [round EXCEPT !.step = "write",
                              !.mustWrite = content \notin documents \cup {Unset}]
    /\ documents' = documents \cup ({content} \ {Unset})
    /\ UNCHANGED <<connector, arrived, vanished, cursor, files, booked, acked, missed,
                   failures>>

\* Only then, and only for content that was new, is the file written.
WriteFile ==
    /\ Handling("write")
    /\ files' = IF round.mustWrite THEN files \cup {Attached[Oldest]} ELSE files
    /\ Goto("alert")
    /\ UNCHANGED <<connector, arrived, vanished, cursor, documents, booked, acked, missed,
                   failures>>

ImportAlert ==
    /\ Handling("alert")
    /\ booked' = booked \cup ({Oldest} \cap Alerts)
    /\ Goto("ack")
    /\ UNCHANGED <<connector, arrived, vanished, cursor, documents, files, acked, missed,
                   failures>>

\* Mutation of Acknowledged: the first message acknowledged acknowledges the listing.
AcknowledgedAll(m) ==
    IF connector = "imap" THEN IF m > cursor THEN m ELSE cursor
    ELSE round.next

\* Mutation of Acknowledged: the IMAP cursor moves one message at a time.
AcknowledgedInOrder(m) ==
    IF connector = "imap" THEN IF m = cursor + 1 THEN m ELSE cursor
    ELSE IF round.pending = {m} THEN round.next ELSE cursor

\* The IMAP cursor follows each message; the others move when nothing listed is pending.
Acknowledged(m) ==
    IF connector = "imap" THEN IF m > cursor THEN m ELSE cursor
    ELSE IF round.pending = {m} THEN round.next ELSE cursor

MarkProcessed ==
    LET m == Oldest IN
    /\ \/ Handling("ack")
       \/ Handling("file") /\ m \in Filtered
    /\ acked' = acked \cup {m}
    /\ cursor' = Acknowledged(m)
    /\ round' = [round EXCEPT !.todo = @ \ {m}, !.pending = @ \ {m}, !.step = "file",
                              !.mustWrite = FALSE]
    /\ UNCHANGED <<connector, arrived, vanished, documents, files, booked, missed, failures>>

RoundReturns ==
    /\ round # Unset
    /\ round.step # "fetch"
    /\ round.todo = {}
    /\ round' = Unset
    /\ UNCHANGED <<connector, arrived, vanished, cursor, documents, files, booked, acked,
                   missed, failures>>

\* The process dies, the file cannot be written, the provider answers with an error.
RoundFails ==
    /\ round # Unset
    /\ failures < MaxFailures
    /\ failures' = failures + 1
    /\ round' = Unset
    /\ UNCHANGED <<connector, arrived, vanished, cursor, documents, files, booked, acked,
                   missed>>

RoundStep ==
    FetchMessages \/ ImportDocument \/ WriteFile \/ ImportAlert \/ MarkProcessed \/ RoundReturns

MailboxNext ==
    \/ Arrive
    \/ \E m \in Messages : Vanish(m)
    \/ ListNew \/ Baseline \/ Resync
    \/ RoundStep
    \/ RoundFails

\* Rounds are asked for again and again, and one that does not fail goes on.
MailboxFairness ==
    /\ WF_mailVars(ListNew)
    /\ WF_mailVars(Baseline /\ cursor = Unset)
    /\ WF_mailVars(RoundStep)

-----------------------------------------------------------------------------
(***************************************************************************)
(* Properties.                                                             *)
(***************************************************************************)

Positions == 0..Mail

\* The cursor is a position in the mailbox, and a round handles what was listed.
MailboxTypeOK ==
    /\ arrived \in Positions /\ vanished \subseteq Messages
    /\ cursor \in Positions \cup {Unset}
    /\ cursor # Unset => cursor <= arrived
    /\ round # Unset =>
        /\ round.todo \subseteq round.pending
        /\ round.pending \subseteq 1..round.next
        /\ round.next <= arrived
    /\ documents \subseteq Contents /\ files \subseteq documents
    /\ booked \subseteq Alerts /\ acked \subseteq 1..arrived

\* Whenever a round dies and whatever the provider forgets, the cursor passes only
\* messages that were handled, cannot be read, or were given up by a new baseline:
\* nothing readable is skipped, and every alert it passed became a transaction.
CursorPassesNothing ==
    cursor # Unset => \A m \in 1..cursor :
        /\ m \in acked \cup Unreadable \cup vanished \cup missed
        /\ m \in acked /\ m \in Alerts \ Filtered => m \in booked

\* What the code says of acknowledgements (email/mod.rs:302): a message is only acked
\* once its documents are safely in the store, and refetching after a crash is harmless.
AckedMailIsStored ==
    \A m \in acked \ Filtered : Attached[m] # Unset => Attached[m] \in files

\* Whatever fails on the way, a message that can be read is passed by the cursor in the
\* end: in an IMAP folder always, in the others when all their mail can be read.
MailGetsThrough ==
    \A m \in Messages :
        m <= arrived ~> \/ cursor # Unset /\ m <= cursor
                        \/ ~Readable(m)
                        \/ connector # "imap" /\ \E n \in 1..arrived : ~Readable(n)

MailboxSpec == MailboxInit /\ [][MailboxNext]_mailVars /\ MailboxFairness
=============================================================================
