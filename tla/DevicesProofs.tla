---------------------------- MODULE DevicesProofs ----------------------------
(***************************************************************************)
(* What is proved of the devices of one user: the mailbox they sync        *)
(* through, the data folder and its move, the operation log, and their     *)
(* identities and pairing.                                                 *)
(***************************************************************************)
EXTENDS DataDir, Mailbox, Oplog, Pairing, FiniteSetTheorems, WellFoundedInduction, TLAPS

-----------------------------------------------------------------------------
(***************************************************************************)
(* What a mailbox's cursor never does, for any mail, any allowlist, any    *)
(* order of arrival and any failures, proved.                              *)
(***************************************************************************)
Fields(c, t, w, p, n) == [step |-> c, todo |-> t, mustWrite |-> w, pending |-> p, next |-> n]
IsRound(r) == r = Fields(r.step, r.todo, r.mustWrite, r.pending, r.next)

LEMMA FieldsMakeRounds ==
    ASSUME NEW c, NEW t, NEW w, NEW p, NEW n
    PROVE  LET r == Fields(c, t, w, p, n)
           IN  /\ IsRound(r)
               /\ r.step = c /\ r.todo = t /\ r.mustWrite = w /\ r.pending = p /\ r.next = n
BY DEF Fields, IsRound

\* Writing one field of a round leaves the others alone.
LEMMA FieldExcept ==
    ASSUME NEW r, IsRound(r), NEW v
    PROVE  /\ [r EXCEPT !.step = v] = Fields(v, r.todo, r.mustWrite, r.pending, r.next)
           /\ [r EXCEPT !.mustWrite = v] = Fields(r.step, r.todo, v, r.pending, r.next)
           /\ [r EXCEPT !.todo = v] = Fields(r.step, v, r.mustWrite, r.pending, r.next)
           /\ [r EXCEPT !.pending = v] = Fields(r.step, r.todo, r.mustWrite, v, r.next)
BY DEF Fields, IsRound

\* What the steps of a round make of it.
LEMMA RoundExcept ==
    ASSUME NEW r, IsRound(r), NEW s, NEW b, NEW t
    PROVE  /\ [r EXCEPT !.step = s, !.mustWrite = b] = Fields(s, r.todo, b, r.pending, r.next)
           /\ [r EXCEPT !.step = s, !.todo = t] = Fields(s, t, r.mustWrite, r.pending, r.next)
<1> DEFINE q == [r EXCEPT !.step = s]
<1>1. /\ [r EXCEPT !.step = s, !.mustWrite = b] = [q EXCEPT !.mustWrite = b]
      /\ [r EXCEPT !.step = s, !.todo = t] = [q EXCEPT !.todo = t]
  BY Zenon
<1>2. q = Fields(s, r.todo, r.mustWrite, r.pending, r.next)
  BY FieldExcept, Zenon
<1> HIDE DEF q
<1>3. /\ IsRound(q) /\ q.step = s /\ q.todo = r.todo /\ q.mustWrite = r.mustWrite
      /\ q.pending = r.pending /\ q.next = r.next
  BY <1>2, FieldsMakeRounds
<1>4. /\ [q EXCEPT !.mustWrite = b] = Fields(q.step, q.todo, b, q.pending, q.next)
      /\ [q EXCEPT !.todo = t] = Fields(q.step, t, q.mustWrite, q.pending, q.next)
  BY <1>3, FieldExcept, Zenon
<1> QED
  BY <1>1, <1>3, <1>4, Zenon

\* Of the messages to do there is an oldest, as they are numbers.
LEMMA OldestIsLeast ==
    ASSUME round.todo \subseteq Nat, round.todo # {}
    PROVE  Oldest \in round.todo /\ \A n \in round.todo : Oldest <= n
<1> DEFINE less == {p \in Nat \X Nat : p[1] < p[2]}
<1>1. IsWellFoundedOn(less, Nat)
  <2>1. less = OpToRel(<, Nat)
    BY DEF OpToRel
  <2> HIDE DEF less
  <2> QED
    BY <2>1, NatLessThanWellFounded
<1>2. PICK m \in round.todo : \A n \in round.todo : <<n, m>> \notin less
  <2> HIDE DEF less
  <2> QED
    BY <1>1, WFMin
<1>3. ASSUME NEW n \in round.todo PROVE m <= n
  <2>1. m \in Nat /\ n \in Nat /\ <<n, m>> \notin less
    BY <1>2
  <2> QED
    BY <2>1
<1> QED
  BY <1>3 DEF Oldest

\* A message that is not waited for any more has been dealt with, one way or another.
Passed == acked \cup Unreadable \cup vanished \cup missed
Behind(m) == cursor # Unset /\ m <= cursor

\* The messages the cursor must not pass yet: those to do for an IMAP folder, whose
\* cursor follows each message, and all that is pending for the others and while none
\* has been fetched.
Waiting == IF connector = "imap" /\ round.step # "fetch" THEN round.todo ELSE round.pending

RoundInv ==
    /\ IsRound(round)
    /\ round.next \in 0..arrived
    /\ round.todo \subseteq round.pending
    /\ round.pending \subseteq 1..round.next
    /\ \A m \in 1..round.next : Behind(m) \/ m \in Waiting \cup Passed
    /\ round.step = "ack" => (Oldest \in Alerts => Oldest \in booked)

\* The inductive invariant: what a round has listed is waited for, behind the cursor or
\* dealt with, so a cursor that moves only over what is not waited for passes nothing.
MailInv ==
    /\ connector \in {"imap", "gmail", "graph"}
    /\ arrived \in Nat
    /\ cursor \in 0..arrived \/ (cursor = Unset /\ connector # "imap")
    /\ \A m \in acked : m \in Alerts \ Filtered => m \in booked
    /\ \A m \in 1..arrived : Behind(m) => m \in Passed
    /\ round # Unset => RoundInv

LEMMA InitMail == MailboxInit => MailInv
BY MailboxAssumption DEF MailboxInit, MailInv, Behind

LEMMA MailInvPasses == MailInv => CursorPassesNothing
<1> SUFFICES ASSUME MailInv, cursor # Unset, NEW m \in 1..cursor
             PROVE  /\ m \in Passed
                    /\ m \in acked /\ m \in Alerts \ Filtered => m \in booked
  BY DEF CursorPassesNothing, Passed
<1>1. m \in 1..arrived /\ m <= cursor
  BY DEF MailInv
<1> QED
  BY <1>1 DEF MailInv, Behind

\* What the steps outside a round's handling of a message leave to show.
LEMMA SameRound ==
    ASSUME MailInv, round # Unset, UNCHANGED <<connector, cursor, round, missed>>,
           arrived' \in Nat, arrived <= arrived', acked' = acked, booked' = booked,
           vanished \subseteq vanished'
    PROVE  RoundInv'
<1>1. RoundInv
  BY DEF MailInv
<1>2. Oldest' = Oldest
  BY DEF Oldest
<1>3. round.next \in 0..arrived'
  BY <1>1 DEF RoundInv, MailInv
<1>4. ASSUME NEW m \in 1..round.next PROVE Behind(m)' \/ m \in (Waiting \cup Passed)'
  BY <1>1 DEF RoundInv, Behind, Waiting, Passed
<1> QED
  BY <1>1, <1>2, <1>3, <1>4 DEF RoundInv

\* A listing waits for everything that is not behind the cursor and not gone.
LEMMA ListingInv ==
    ASSUME MailInv, NEW unseen, unseen \subseteq 1..arrived,
           \A m \in 1..arrived : Behind(m) \/ m \in unseen,
           round' = Listing(unseen),
           UNCHANGED <<connector, arrived, vanished, cursor, acked, booked, missed>>
    PROVE  RoundInv'
<1>1. /\ IsRound(round)' /\ round'.step = "fetch" /\ round'.todo = {}
      /\ round'.pending = Listed(unseen) /\ round'.next = arrived
  BY DEF Listing, IsRound, Fields
<1>2. Listed(unseen) \subseteq unseen /\ unseen \subseteq Listed(unseen) \cup vanished
  BY DEF Listed
<1>3. ASSUME NEW m \in 1..round'.next PROVE Behind(m)' \/ m \in (Waiting \cup Passed)'
  BY <1>1, <1>2 DEF Behind, Waiting, Passed
<1>4. round'.next \in 0..arrived'
  BY <1>1 DEF MailInv
<1> QED
  BY <1>1, <1>2, <1>3, <1>4 DEF RoundInv

\* Nothing a round does to the message in hand short of acknowledging it changes what
\* the cursor waits for.
LEMMA HandlingInv ==
    ASSUME MailInv, round # Unset, round.step # "fetch", IsRound(round'),
           UNCHANGED <<connector, arrived, vanished, cursor, acked, missed>>,
           round'.step # "fetch", round'.todo = round.todo, round'.pending = round.pending,
           round'.next = round.next, booked \subseteq booked',
           round'.step = "ack" => (Oldest \in Alerts => Oldest \in booked')
    PROVE  MailInv'
<1>1. RoundInv
  BY DEF MailInv
<1>2. Oldest' = Oldest
  BY DEF Oldest
<1>3. Waiting' = Waiting
  BY DEF Waiting
<1>4. RoundInv'
  BY <1>1, <1>2, <1>3 DEF RoundInv, Behind, Passed
<1> QED
  BY <1>4 DEF MailInv, Behind, Passed

LEMMA FetchKeepsInv == MailInv /\ FetchMessages => MailInv'
<1> SUFFICES ASSUME MailInv, FetchMessages PROVE MailInv'
  OBVIOUS
<1> USE DEF FetchMessages
<1>1. RoundInv
  BY DEF MailInv
<1> DEFINE readable == {m \in round.pending : Readable(m)}
<1>2. /\ IsRound(round)' /\ round'.step = "file" /\ round'.todo = readable
      /\ round'.pending = round.pending /\ round'.next = round.next
  <2>1. round' = Fields("file", readable, round.mustWrite, round.pending, round.next)
    BY <1>1, RoundExcept, Zenon DEF RoundInv
  <2> HIDE DEF readable, FetchMessages
  <2> QED
    BY <2>1, FieldsMakeRounds
<1>3. readable \subseteq round.pending /\ round.pending \subseteq readable \cup Unreadable \cup vanished
  BY DEF Readable
<1> HIDE DEF readable
<1>4. ASSUME NEW m \in 1..round'.next PROVE Behind(m)' \/ m \in (Waiting \cup Passed)'
  <2>1. Behind(m) \/ m \in round.pending \cup Passed
    BY <1>1, <1>2 DEF RoundInv, Waiting
  <2> QED
    BY <2>1, <1>2, <1>3 DEF Behind, Waiting, Passed
<1>5. RoundInv'
  BY <1>1, <1>2, <1>3, <1>4 DEF RoundInv
<1> QED
  BY <1>5 DEF MailInv, Behind, Passed

\* The heart of it: the message acknowledged is the oldest of those to do, so for an
\* IMAP folder none before it is still waited for; and the others' cursor moves when it
\* was the last one waited for.
LEMMA AckKeepsInv == MailInv /\ MarkProcessed => MailInv'
<1> SUFFICES ASSUME MailInv, MarkProcessed PROVE MailInv'
  OBVIOUS
<1> USE DEF MarkProcessed
<1> DEFINE o == Oldest
<1>1. RoundInv /\ round # Unset /\ round.todo # {} /\ round.step \in {"ack", "file"}
  BY DEF MailInv, Handling, MessageInHand
<1>2. o \in round.todo /\ \A n \in round.todo : o <= n
  <2>1. round.todo \subseteq Nat
    BY <1>1 DEF RoundInv, MailInv
  <2> QED
    BY <1>1, <2>1, OldestIsLeast
<1>3. o \in 1..round.next /\ round.next \in 0..arrived /\ o \in 1..arrived /\ o \in Nat
  BY <1>1, <1>2 DEF RoundInv, MailInv
<1>4. /\ IsRound(round)' /\ round'.step = "file" /\ round'.todo = round.todo \ {o}
      /\ round'.pending = round.pending \ {o} /\ round'.next = round.next
  <2> DEFINE t == round.todo \ {o}
             p == round.pending \ {o}
             b == FALSE
  <2>1. round' = [round EXCEPT !.todo = t, !.pending = p, !.step = "file", !.mustWrite = b]
    BY Zenon
  <2>2. IsRound(round)
    BY <1>1 DEF RoundInv
  <2> DEFINE q1 == [round EXCEPT !.todo = t]
             q2 == [q1 EXCEPT !.pending = p]
             q3 == [q2 EXCEPT !.step = "file", !.mustWrite = b]
  <2>3. round' = q3
    BY <2>1, Zenon
  <2> HIDE DEF MarkProcessed, o, t, p, b, q3
  <2>4. q1 = Fields(round.step, t, round.mustWrite, round.pending, round.next)
    BY <2>2, FieldExcept, Zenon
  <2> HIDE DEF q1
  <2>5. IsRound(q1) /\ q1.todo = t /\ q1.next = round.next
    BY <2>4, FieldsMakeRounds
  <2>6. q2 = Fields(q1.step, q1.todo, q1.mustWrite, p, q1.next)
    BY <2>5, FieldExcept, Zenon
  <2> HIDE DEF q2
  <2>7. IsRound(q2) /\ q2.todo = t /\ q2.pending = p /\ q2.next = round.next
    BY <2>5, <2>6, FieldsMakeRounds
  <2>8. q3 = Fields("file", q2.todo, b, q2.pending, q2.next)
    BY <2>7, RoundExcept, Zenon DEF q3
  <2>9. IsRound(q3) /\ q3.step = "file" /\ q3.todo = t /\ q3.pending = p /\ q3.next = round.next
    BY <2>7, <2>8, FieldsMakeRounds
  <2> QED
    BY <2>3, <2>9 DEF t, p
<1>5. o \in Alerts \ Filtered => o \in booked
  BY <1>1 DEF RoundInv, Handling
<1>6. acked' = acked \cup {o} /\ cursor' = Acknowledged(o)
      /\ UNCHANGED <<connector, arrived, vanished, booked, missed>>
  OBVIOUS
<1>7. Passed' = Passed \cup {o}
  BY <1>6 DEF Passed
<1> HIDE DEF o, MarkProcessed
<1>8. CASE connector = "imap"
  <2>1. cursor \in 0..arrived /\ cursor \in Nat /\ cursor # Unset
    BY <1>8, MailboxAssumption DEF MailInv
  <2>2. cursor' = IF o > cursor THEN o ELSE cursor
    BY <1>6, <1>8 DEF Acknowledged
  <2>3. cursor' \in 0..arrived /\ cursor' # Unset /\ cursor <= cursor'
    BY <2>1, <2>2, <1>3, MailboxAssumption DEF MailInv
  <2>4. ASSUME NEW m \in 1..arrived, Behind(m)' PROVE m \in Passed'
    <3>1. CASE m <= cursor
      BY <3>1, <2>1, <1>7 DEF MailInv, Behind
    <3>2. CASE ~(m <= cursor)
      <4>1. m <= o
        BY <3>2, <2>2, <2>4, <1>6 DEF Behind
      <4>2. CASE m = o
        BY <4>2, <1>7
      <4>3. CASE m # o
        <5>1. m \in 1..round.next /\ m \notin round.todo
          BY <4>1, <4>3, <1>2, <1>3 DEF MailInv
        <5>2. m \in Waiting \cup Passed
          BY <5>1, <3>2, <1>1 DEF RoundInv, Behind
        <5> QED
          BY <5>1, <5>2, <1>1, <1>7, <1>8 DEF Waiting
      <4> QED
        BY <4>2, <4>3
    <3> QED
      BY <3>1, <3>2
  <2>5. ASSUME NEW m \in 1..round'.next PROVE Behind(m)' \/ m \in (Waiting \cup Passed)'
    <3>1. Behind(m) \/ m \in round.todo \/ m \in Passed
      BY <1>1, <1>4, <1>8 DEF RoundInv, Waiting
    <3>2. Behind(m) => Behind(m)'
      BY <2>1, <2>3, <1>1, <1>4, <1>3 DEF Behind
    <3> QED
      BY <3>1, <3>2, <1>4, <1>6, <1>7, <1>8 DEF Waiting
  <2>6. RoundInv'
    BY <2>5, <1>1, <1>4, <1>6 DEF RoundInv
  <2> QED
    BY <2>3, <2>4, <2>6, <1>5, <1>6 DEF MailInv
<1>9. CASE connector # "imap"
  <2>1. ASSUME NEW m \in 1..round.next
        PROVE  Behind(m) \/ m \in round.pending \/ m \in Passed
    BY <1>1, <1>9 DEF RoundInv, Waiting
  <2>2. CASE round.pending = {o}
    <3>1. cursor' = round.next
      BY <2>2, <1>6, <1>9 DEF Acknowledged
    <3>2. ASSUME NEW m \in 1..arrived, Behind(m)' PROVE m \in Passed'
      <4>1. m \in 1..round.next
        BY <3>1, <3>2, <1>3, <1>6 DEF Behind
      <4>2. Behind(m) => m \in Passed
        BY DEF MailInv
      <4> QED
        BY <4>1, <4>2, <2>1, <2>2, <1>7
    <3>3. ASSUME NEW m \in 1..round'.next PROVE Behind(m)'
      BY <3>1, <1>3, <1>4, MailboxAssumption DEF Behind, MailInv
    <3>4. RoundInv'
      BY <3>3, <1>1, <1>4, <1>6 DEF RoundInv
    <3> QED
      BY <3>1, <3>2, <3>4, <1>3, <1>5, <1>6 DEF MailInv
  <2>3. CASE round.pending # {o}
    <3>1. cursor' = cursor
      BY <2>3, <1>6, <1>9 DEF Acknowledged
    <3>2. ASSUME NEW m \in 1..round'.next PROVE Behind(m)' \/ m \in (Waiting \cup Passed)'
      BY <3>1, <2>1, <1>4, <1>6, <1>7, <1>9 DEF Behind, Waiting
    <3>3. RoundInv'
      BY <3>2, <1>1, <1>4, <1>6 DEF RoundInv
    <3> QED
      BY <3>1, <3>3, <1>5, <1>6, <1>7 DEF MailInv, Behind
  <2> QED
    BY <2>2, <2>3
<1> QED
  BY <1>8, <1>9

LEMMA MailStep == MailInv /\ [MailboxNext]_mailVars => MailInv'
<1> SUFFICES ASSUME MailInv, [MailboxNext]_mailVars PROVE MailInv'
  OBVIOUS
<1>1. CASE Arrive
  <2>1. arrived' \in Nat /\ arrived <= arrived' /\ arrived' = arrived + 1
    BY <1>1 DEF Arrive, MailInv
  <2>2. round' # Unset => RoundInv'
    BY <1>1, <2>1, SameRound DEF Arrive
  <2>3. ASSUME NEW m \in 1..arrived', Behind(m)' PROVE m \in Passed'
    BY <1>1, <2>1, <2>3, MailboxAssumption DEF Arrive, MailInv, Behind, Passed
  <2> QED
    BY <1>1, <2>1, <2>2, <2>3 DEF Arrive, MailInv
<1>2. ASSUME NEW m \in Messages, Vanish(m) PROVE MailInv'
  <2>1. round' # Unset => RoundInv'
    BY <1>2, SameRound DEF Vanish, MailInv
  <2> QED
    BY <1>2, <2>1 DEF Vanish, MailInv, Behind, Passed
<1>3. CASE ListNew
  <2>1. Unseen \subseteq 1..arrived /\ \A m \in 1..arrived : Behind(m) \/ m \in Unseen
    BY MailboxAssumption DEF Unseen, Behind, MailInv
  <2>2. RoundInv'
    BY <1>3, <2>1, ListingInv DEF ListNew
  <2> QED
    BY <1>3, <2>2 DEF ListNew, MailInv, Behind, Passed
<1>4. CASE Baseline
  <2>1. cursor' = arrived /\ cursor' \in 0..arrived
    BY <1>4 DEF Baseline, MailInv
  <2>2. ASSUME NEW m \in 1..arrived PROVE m \in Passed'
    <3>1. m \in Unseen \/ Behind(m)
      BY MailboxAssumption DEF Unseen, Behind, MailInv
    <3> QED
      BY <1>4, <3>1 DEF Baseline, MailInv, Passed
  <2> QED
    BY <1>4, <2>1, <2>2 DEF Baseline, MailInv
<1>5. CASE Resync
  <2>1. RoundInv'
    BY <1>5, ListingInv DEF Resync
  <2> QED
    BY <1>5, <2>1 DEF Resync, MailInv, Behind, Passed
<1>6. CASE FetchMessages
  BY <1>6, FetchKeepsInv
<1>7. CASE ImportDocument
  <2>1. round # Unset /\ round.step = "file" /\ IsRound(round)
    BY <1>7 DEF ImportDocument, Handling, MessageInHand, MailInv, RoundInv
  <2>2. PICK b : round' = [round EXCEPT !.step = "write", !.mustWrite = b]
    BY <1>7 DEF ImportDocument
  <2>3. round' = Fields("write", round.todo, b, round.pending, round.next)
    BY <2>1, <2>2, RoundExcept, Zenon
  <2>4. /\ IsRound(round') /\ round'.step = "write" /\ round'.todo = round.todo
        /\ round'.pending = round.pending /\ round'.next = round.next
    BY <2>3, FieldsMakeRounds
  <2> QED
    BY <1>7, <2>1, <2>4, HandlingInv DEF ImportDocument
<1>8. ASSUME Handling("write") /\ Goto("alert"),
             UNCHANGED <<connector, arrived, vanished, cursor, acked, missed, booked>>
      PROVE  MailInv'
  <2>1. round # Unset /\ round.step = "write" /\ IsRound(round)
    BY <1>8 DEF Handling, MessageInHand, MailInv, RoundInv
  <2>2. round' = Fields("alert", round.todo, round.mustWrite, round.pending, round.next)
    BY <1>8, <2>1, FieldExcept, Zenon DEF Goto
  <2>3. /\ IsRound(round') /\ round'.step = "alert" /\ round'.todo = round.todo
        /\ round'.pending = round.pending /\ round'.next = round.next
    BY <2>2, FieldsMakeRounds
  <2> QED
    BY <1>8, <2>1, <2>3, HandlingInv
<1>9. CASE WriteFile
  BY <1>8, <1>9 DEF WriteFile
<1>10. CASE ImportAlert
  <2>1. round # Unset /\ round.step = "alert" /\ IsRound(round)
    BY <1>10 DEF ImportAlert, Handling, MessageInHand, MailInv, RoundInv
  <2>2. round' = Fields("ack", round.todo, round.mustWrite, round.pending, round.next)
    BY <1>10, <2>1, FieldExcept, Zenon DEF ImportAlert, Goto
  <2>3. /\ IsRound(round') /\ round'.step = "ack" /\ round'.todo = round.todo
        /\ round'.pending = round.pending /\ round'.next = round.next
    BY <2>2, FieldsMakeRounds
  <2> QED
    BY <1>10, <2>1, <2>3, HandlingInv DEF ImportAlert
<1>11. CASE MarkProcessed
  BY <1>11, AckKeepsInv
<1>12. CASE RoundReturns \/ RoundFails
  BY <1>12 DEF RoundReturns, RoundFails, MailInv, Behind, Passed
<1>13. CASE UNCHANGED mailVars
  <2>1. round' # Unset => RoundInv'
    BY <1>13, SameRound DEF mailVars, MailInv
  <2> QED
    BY <1>13, <2>1 DEF mailVars, MailInv, Behind, Passed
<1> QED
  BY <1>1, <1>2, <1>3, <1>4, <1>5, <1>6, <1>7, <1>9, <1>10, <1>11, <1>12, <1>13
  DEF MailboxNext, RoundStep

\* For any mail, connector, allowlist and failures: the cursor passes only messages that
\* were handled, cannot be read, are gone or were given up by a new baseline, and every
\* alert acknowledged has become a transaction (email/mod.rs, the connectors' cursors).
THEOREM CursorsPassNothing == MailboxSpec => []CursorPassesNothing
<1>1. MailboxInit => MailInv
  BY InitMail
<1>2. MailInv /\ [MailboxNext]_mailVars => MailInv'
  BY MailStep
<1>3. MailInv => CursorPassesNothing
  BY MailInvPasses
<1> QED
  BY <1>1, <1>2, <1>3, PTL DEF MailboxSpec

\* What is stored of the mail so far: a file is written only for content whose row is.
MailStored ==
    /\ arrived <= Mail /\ vanished \subseteq Messages
    /\ documents \subseteq Contents /\ files \subseteq documents
    /\ booked \subseteq Alerts /\ acked \subseteq 1..arrived
    /\ round # Unset /\ round.step = "write" /\ round.mustWrite =>
           Attached[Oldest] \in documents

LEMMA MailboxTypes == MailInv /\ MailStored => MailboxTypeOK
<1> SUFFICES ASSUME MailInv, MailStored PROVE MailboxTypeOK
  OBVIOUS
<1>1. arrived \in Positions /\ (cursor # Unset => cursor \in 0..arrived)
  BY MailboxAssumption DEF MailInv, MailStored, Positions
<1>2. cursor \in Positions \cup {Unset} /\ (cursor # Unset => cursor <= arrived)
  BY <1>1, MailboxAssumption DEF MailInv, MailStored, Positions
<1>3. round # Unset => /\ round.todo \subseteq round.pending
                       /\ round.pending \subseteq 1..round.next
                       /\ round.next <= arrived
  BY DEF MailInv, RoundInv
<1> QED
  BY <1>1, <1>2, <1>3 DEF MailStored, MailboxTypeOK

\* The steps that store nothing and do not put a message to be written.
LEMMA StoresNothing ==
    ASSUME MailStored, UNCHANGED <<documents, files, booked, acked>>,
           arrived \in Nat, arrived' \in Nat, arrived <= arrived', arrived' <= Mail,
           vanished' \subseteq Messages,
           round' # Unset => round' = round \/ round'.step # "write"
    PROVE  MailStored'
<1>1. round' = round => Oldest' = Oldest
  BY DEF Oldest
<1>2. acked' \subseteq 1..arrived'
  BY DEF MailStored
<1> QED
  BY <1>1, <1>2 DEF MailStored

LEMMA StoredStep == MailInv /\ MailInv' /\ MailStored /\ [MailboxNext]_mailVars => MailStored'
<1> SUFFICES ASSUME MailInv, MailInv', MailStored, [MailboxNext]_mailVars PROVE MailStored'
  OBVIOUS
<1>1. /\ arrived \in Nat /\ arrived' \in Nat /\ arrived <= Mail /\ Mail \in Nat
      /\ vanished \subseteq Messages
  BY MailboxAssumption DEF MailInv, MailStored
<1>2. CASE Arrive
  BY <1>1, <1>2, StoresNothing DEF Arrive
<1>3. ASSUME NEW m \in Messages, Vanish(m) PROVE MailStored'
  BY <1>1, <1>3, StoresNothing DEF Vanish
<1>4. CASE ListNew \/ Resync
  <2>1. round'.step = "fetch"
    BY <1>4 DEF ListNew, Resync, Listing
  <2> QED
    BY <1>1, <1>4, <2>1, StoresNothing DEF ListNew, Resync
<1>5. CASE Baseline
  BY <1>1, <1>5, StoresNothing DEF Baseline
<1>6. CASE FetchMessages
  <2>1. round # Unset /\ IsRound(round)
    BY <1>6 DEF FetchMessages, MailInv, RoundInv
  <2> DEFINE readable == {m \in round.pending : Readable(m)}
  <2>2. round' = Fields("file", readable, round.mustWrite, round.pending, round.next)
    BY <1>6, <2>1, RoundExcept, Zenon DEF FetchMessages
  <2>3. round'.step = "file"
    BY <2>2, FieldsMakeRounds
  <2> QED
    BY <1>1, <1>6, <2>3, StoresNothing DEF FetchMessages
<1>7. ASSUME Handling(round.step), round.todo' = round.todo
      PROVE  /\ Oldest' = Oldest /\ Oldest \in 1..arrived
             /\ Oldest \in Messages /\ Attached[Oldest] \in Contents \cup {Unset}
  <2>1. round # Unset /\ round.todo # {} /\ round.todo \subseteq 1..arrived
    BY <1>7, <1>1 DEF Handling, MessageInHand, MailInv, RoundInv
  <2>2. Oldest \in round.todo
    BY <2>1, OldestIsLeast
  <2>3. Oldest' = Oldest
    BY <1>7 DEF Oldest
  <2>4. Oldest \in 1..arrived /\ Oldest \in Messages
    BY <2>1, <2>2, <1>1 DEF Messages
  <2> QED
    BY <2>3, <2>4, MailboxAssumption
<1>8. CASE ImportDocument
  <2>1. round # Unset /\ round.step = "file" /\ IsRound(round) /\ Handling(round.step)
    BY <1>8 DEF ImportDocument, Handling, MessageInHand, MailInv, RoundInv
  <2> DEFINE b == Attached[Oldest] \notin documents \cup {Unset}
  <2>2. round' = [round EXCEPT !.step = "write", !.mustWrite = b]
    BY <1>8 DEF ImportDocument
  <2>3. round' = Fields("write", round.todo, b, round.pending, round.next)
    BY <2>1, <2>2, RoundExcept, Zenon
  <2> HIDE DEF b
  <2>4. round'.todo = round.todo /\ round'.mustWrite = b
    BY <2>3, FieldsMakeRounds
  <2>5. Oldest' = Oldest /\ Attached[Oldest] \in Contents \cup {Unset}
    BY <1>7, <2>1, <2>4
  <2>6. documents' = documents \cup ({Attached[Oldest]} \ {Unset})
        /\ UNCHANGED <<arrived, vanished, files, booked, acked>>
    BY <1>8 DEF ImportDocument
  <2>7. documents \subseteq documents' /\ documents' \subseteq Contents
        /\ (Attached[Oldest] # Unset => Attached[Oldest] \in documents')
    BY <2>5, <2>6 DEF MailStored
  <2>8. round'.mustWrite => Attached[Oldest'] \in documents'
    BY <2>4, <2>5, <2>7 DEF b
  <2> QED
    BY <2>6, <2>7, <2>8 DEF MailStored
<1>9. CASE WriteFile
  <2>1. round # Unset /\ round.step = "write" /\ IsRound(round)
    BY <1>9 DEF WriteFile, Handling, MessageInHand, MailInv, RoundInv
  <2>2. round' = Fields("alert", round.todo, round.mustWrite, round.pending, round.next)
    BY <1>9, <2>1, FieldExcept, Zenon DEF WriteFile, Goto
  <2>3. round'.step = "alert"
    BY <2>2, FieldsMakeRounds
  <2>4. files' \subseteq documents'
    BY <1>9, <2>1 DEF WriteFile, MailStored
  <2> QED
    BY <1>9, <2>3, <2>4 DEF WriteFile, MailStored
<1>10. CASE ImportAlert
  <2>1. round # Unset /\ round.step = "alert" /\ IsRound(round)
    BY <1>10 DEF ImportAlert, Handling, MessageInHand, MailInv, RoundInv
  <2>2. round' = Fields("ack", round.todo, round.mustWrite, round.pending, round.next)
    BY <1>10, <2>1, FieldExcept, Zenon DEF ImportAlert, Goto
  <2>3. round'.step = "ack"
    BY <2>2, FieldsMakeRounds
  <2> QED
    BY <1>10, <2>3 DEF ImportAlert, MailStored
<1>11. CASE MarkProcessed
  <2>1. /\ acked' = acked \cup {Oldest} /\ Handling(round.step)
        /\ UNCHANGED <<arrived, vanished, documents, files, booked>>
    BY <1>11 DEF MarkProcessed, Handling
  <2>2. round # Unset /\ round.todo # {} /\ round.todo \subseteq 1..arrived
    BY <2>1, <1>1 DEF Handling, MessageInHand, MailInv, RoundInv
  <2>3. Oldest \in 1..arrived
    BY <2>2, OldestIsLeast
  <2>4. round'.step = "file"
    <3> DEFINE t == round.todo \ {Oldest}
               p == round.pending \ {Oldest}
               b == FALSE
               q2 == [round EXCEPT !.todo = t, !.pending = p]
    <3>1. round' = [q2 EXCEPT !.step = "file", !.mustWrite = b]
      BY <1>11, Zenon DEF MarkProcessed
    <3>2. IsRound(round)
      BY <2>2 DEF MailInv, RoundInv
    <3>3. IsRound(q2)
      <4> DEFINE q1 == [round EXCEPT !.todo = t]
      <4>1. q1 = Fields(round.step, t, round.mustWrite, round.pending, round.next)
        BY <3>2, FieldExcept, Zenon
      <4>2. q2 = [q1 EXCEPT !.pending = p]
        BY Zenon
      <4> HIDE DEF q1, t, p, q2
      <4>3. IsRound(q1)
        BY <4>1, FieldsMakeRounds
      <4>4. q2 = Fields(q1.step, q1.todo, q1.mustWrite, p, q1.next)
        BY <4>2, <4>3, FieldExcept, Zenon
      <4> QED
        BY <4>4, FieldsMakeRounds
    <3> HIDE DEF q2, b
    <3>4. round' = Fields("file", q2.todo, b, q2.pending, q2.next)
      BY <3>1, <3>3, RoundExcept, Zenon
    <3> QED
      BY <3>4, FieldsMakeRounds
  <2> QED
    BY <2>1, <2>3, <2>4 DEF MailStored
<1>12. CASE RoundReturns \/ RoundFails
  BY <1>1, <1>12, StoresNothing DEF RoundReturns, RoundFails
<1>13. CASE UNCHANGED mailVars
  BY <1>1, <1>13, StoresNothing DEF mailVars
<1> QED
  BY <1>2, <1>3, <1>4, <1>5, <1>6, <1>8, <1>9, <1>10, <1>11, <1>12, <1>13
  DEF MailboxNext, RoundStep

\* For any mail, connector and failures: the cursor is a position in the mailbox, a round
\* handles what it listed, and a file is stored only beside its document's row, whose
\* content is what was attached (email/mod.rs, import_bytes).
THEOREM MailTyped == MailboxSpec => []MailboxTypeOK
<1>1. MailboxInit => MailInv /\ MailStored
  BY InitMail, MailboxAssumption DEF MailboxInit, MailStored
<1>2. MailInv /\ MailStored /\ [MailboxNext]_mailVars => (MailInv /\ MailStored)'
  BY MailStep, StoredStep
<1>3. MailInv /\ MailStored => MailboxTypeOK
  BY MailboxTypes
<1> QED
  BY <1>1, <1>2, <1>3, PTL DEF MailboxSpec

-----------------------------------------------------------------------------
(***************************************************************************)
(* What holds of the data folder for any folders, users, commits, attempts *)
(* and crashes, proved for one mover: wherever a move dies the pointer     *)
(* names a folder with a database, and no move replaces books that others  *)
(* put into a folder.  A second mover breaks both.                         *)
(***************************************************************************)
SoleMover == \A m, n \in Movers : m = n

DirAfter == {"swapped", "unlocked", "removed"}

\* Every attempt leaves its audit row in the copy it checks.
Marked(content) == content # None /\ \E k \in 1..MaxAttempts : <<"move", k>> \in content

\* What a move has done so far still stands.
MoveStands(m) ==
    /\ ~At(m, "idle") => /\ From(m) # To(m)
                         /\ pointer = IF mover[m].at \in DirAfter THEN To(m) ELSE From(m)
    /\ At(m, "copied") => partial[To(m)] # None
    /\ At(m, "checking") => Marked(log[To(m)])
    /\ At(m, "checked") \/ At(m, "journaled") => Marked(partial[To(m)])
    /\ At(m, "named") \/ mover[m].at \in DirAfter => db[To(m)] # None

\* Nobody works in a folder that others put books into, nor is on the way there but
\* for a move that will be refused.
Foreign(f) ==
    /\ db[f] = Theirs /\ pointer # f
    /\ \A u \in Users : user[u].at # "away" => user[u].folder # f
    /\ \A m \in Movers :
           /\ ~At(m, "idle") => From(m) # f
           /\ mover[m].at \notin {"idle", "resolved"} => To(m) # f

\* The inductive invariant.
FolderInv ==
    /\ DataDirTypeOK
    /\ theirs \in [Folders -> {Theirs, None}]
    /\ PointerNamesBooks
    /\ \A u \in Users : user[u].at = "open" => db[user[u].folder] # None
    /\ \A m \in Movers : MoveStands(m)
    /\ journal # None => Marked(journal.sha)
    /\ \A f \in Folders : theirs[f] # None => Foreign(f)

MoverRow == [at : Places, from : Folders, to : Folders]
UserRow == [at : {"away", "resolved", "open", "orphan"}, folder : Folders]

\* Who has an unlinked file open keeps it; everyone else stays where they are.
LEMMA UnlinkedUsers ==
    ASSUME user \in [Users -> UserRow], NEW f \in Folders, user' = Unlinked(f)
    PROVE  /\ user' \in [Users -> UserRow]
           /\ \A u \in Users :
                  /\ user'[u].folder = user[u].folder
                  /\ user'[u].at = "away" <=> user[u].at = "away"
                  /\ user'[u].at = "open" => user[u].at = "open" /\ user[u].folder # f
<1>1. ASSUME NEW u \in Users
      PROVE  /\ user'[u] \in UserRow
             /\ user'[u].folder = user[u].folder
             /\ user'[u].at = "away" <=> user[u].at = "away"
             /\ user'[u].at = "open" => user[u].at = "open" /\ user[u].folder # f
  <2>1. user[u] \in UserRow /\ user[u] = [at |-> user[u].at, folder |-> user[u].folder]
    BY DEF UserRow
  <2>2. user'[u] = IF user[u] = [at |-> "open", folder |-> f]
                   THEN [user[u] EXCEPT !.at = "orphan"] ELSE user[u]
    BY DEF Unlinked
  <2>3. [user[u] EXCEPT !.at = "orphan"] = [at |-> "orphan", folder |-> user[u].folder]
    BY <2>1
  <2> QED
    BY <2>1, <2>2, <2>3 DEF UserRow
<1>2. user' = [u \in Users |-> user'[u]]
  BY DEF Unlinked
<1> QED
  BY <1>1, <1>2

\* What SQLite makes of a copy and a log left beside it holds changes of the two.
LEMMA OpenedIsContent ==
    ASSUME NEW main \in Content, NEW left \in Content \cup {None},
           NEW content \in Opened(main, left)
    PROVE  content \in Content
BY DEF Opened, Content

LEMMA OthersBooksAreUnmarked == Theirs \in Content /\ ~Marked(Theirs) /\ Theirs # None
BY FoldersAssumption DEF Theirs, Marked, Content, Changes

LEMMA MoverGoesOn ==
    ASSUME mover \in [Movers -> MoverRow], NEW m \in Movers, NEW place \in Places, GoTo(m, place)
    PROVE  /\ mover' \in [Movers -> MoverRow]
           /\ mover'[m].at = place /\ mover'[m].from = From(m) /\ mover'[m].to = To(m)
BY DEF GoTo, MoverRow, From, To

LEMMA MoverEnds ==
    ASSUME mover \in [Movers -> MoverRow], NEW m \in Movers, mover' = [mover EXCEPT ![m] = Idle]
    PROVE  mover' \in [Movers -> MoverRow] /\ mover'[m].at = "idle"
BY FoldersAssumption DEF MoverRow, Idle, Places

\* A step that touches no database, nor who works in which, has its own stage to answer
\* for and nothing else.
LEMMA DatabasesStay ==
    ASSUME SoleMover, FolderInv, NEW m \in Movers,
           UNCHANGED <<pointer, db, user, theirs>>,
           \/ mover'[m].at = "idle"
           \/ /\ mover[m].at \notin {"idle", "resolved"}
              /\ mover'[m].from = From(m) /\ mover'[m].to = To(m),
           DataDirTypeOK', MoveStands(m)', journal' # None => Marked(journal'.sha)
    PROVE  FolderInv'
<1>1. \A n \in Movers : n = m
  BY DEF SoleMover
<1>2. ASSUME NEW f \in Folders, theirs'[f] # None PROVE Foreign(f)'
  BY <1>1, <1>2 DEF FolderInv, Foreign, At, From, To
<1> QED
  BY <1>1, <1>2 DEF FolderInv, PointerNamesBooks

\* The steps of a move.
LEMMA MoveKeeps ==
    ASSUME SoleMover, FolderInv, NEW m \in Movers, MoveStep(m)
    PROVE  FolderInv'
<1> USE FoldersAssumption
<1>1. /\ mover \in [Movers -> MoverRow] /\ user \in [Users -> UserRow]
      /\ \A n \in Movers : n = m
      /\ From(m) \in Folders /\ To(m) \in Folders
  BY DEF SoleMover, FolderInv, DataDirTypeOK, MoverRow, UserRow, From, To
<1>2. MoveStands(m)
  BY DEF FolderInv
<1> USE DEF At, From, To
<1>3. CASE ClearTarget(m)
  <2>1. mover'[m].at = "clear" /\ mover'[m].from = From(m) /\ mover'[m].to = To(m)
        /\ mover' \in [Movers -> MoverRow]
    BY <1>1, <1>3, MoverGoesOn DEF ClearTarget, Places
  <2>2. theirs[To(m)] = None
    <3>1. SUFFICES ASSUME theirs[To(m)] # None PROVE FALSE
      OBVIOUS
    <3>2. db[To(m)] = Theirs
      BY <1>1, <3>1 DEF FolderInv, Foreign
    <3>3. journal # None /\ journal.sha = Theirs
      BY <1>3, <3>2, OthersBooksAreUnmarked DEF ClearTarget, JournalMatches
    <3> QED
      BY <3>3, OthersBooksAreUnmarked DEF FolderInv
  <2>3. user' \in [Users -> UserRow] /\ \A u \in Users :
           /\ user'[u].folder = user[u].folder
           /\ user'[u].at = "away" <=> user[u].at = "away"
           /\ user'[u].at = "open" => user[u].at = "open" /\ user[u].folder # To(m)
    BY <1>1, <1>3, UnlinkedUsers DEF ClearTarget
  <2>4. /\ db' = [db EXCEPT ![To(m)] = None]
        /\ UNCHANGED <<pointer, partial, log, journal, locked, dataDirCounters, theirs>>
        /\ mover[m].at = "resolved"
    BY <1>3 DEF ClearTarget
  <2>5. DataDirTypeOK'
    BY <2>1, <2>3, <2>4 DEF FolderInv, DataDirTypeOK, dataDirCounters, MoverRow, UserRow
  <2>6. PointerNamesBooks' /\ MoveStands(m)'
    BY <1>1, <1>2, <2>1, <2>4 DEF FolderInv, DataDirTypeOK, PointerNamesBooks, MoveStands, DirAfter
  <2>7. ASSUME NEW f \in Folders, theirs'[f] # None PROVE Foreign(f)'
    BY <1>1, <2>1, <2>2, <2>3, <2>4, <2>7 DEF FolderInv, DataDirTypeOK, Foreign
  <2> QED
    BY <1>1, <2>3, <2>4, <2>5, <2>6, <2>7 DEF FolderInv, DataDirTypeOK, UserRow
<1>4. CASE RefuseTarget(m) \/ RefuseBusy(m)
  <2>1. mover'[m].at = "idle" /\ mover' \in [Movers -> MoverRow]
    BY <1>1, <1>4, MoverEnds DEF RefuseTarget, RefuseBusy
  <2>2. UNCHANGED <<pointer, fileVars, locked, user, dataDirCounters, theirs>>
    BY <1>4 DEF RefuseTarget, RefuseBusy
  <2>3. DataDirTypeOK' /\ MoveStands(m)'
    BY <2>1, <2>2 DEF FolderInv, DataDirTypeOK, dataDirCounters, fileVars, MoverRow, MoveStands, DirAfter
  <2> QED
    BY <2>1, <2>2, <2>3, DatabasesStay DEF FolderInv, fileVars
<1>5. CASE LockSource(m)
  <2>1. mover'[m].at = "locked" /\ mover'[m].from = From(m) /\ mover'[m].to = To(m)
        /\ mover' \in [Movers -> MoverRow]
    BY <1>1, <1>5, MoverGoesOn DEF LockSource, Places
  <2>2. db[From(m)] # None
    BY <1>2, <1>5 DEF LockSource, MoveStands, DirAfter, FolderInv, PointerNamesBooks
  <2>3. db' = db
    BY <1>5, <2>2 DEF LockSource, FolderInv, DataDirTypeOK
  <2>4. /\ locked' = [locked EXCEPT ![From(m)] = m] /\ mover[m].at = "clear"
        /\ UNCHANGED <<pointer, partial, log, journal, user, dataDirCounters, theirs>>
    BY <1>5 DEF LockSource
  <2>5. DataDirTypeOK' /\ MoveStands(m)'
    BY <1>2, <2>1, <2>3, <2>4 DEF FolderInv, DataDirTypeOK, dataDirCounters, MoverRow, MoveStands, DirAfter
  <2> QED
    BY <2>1, <2>3, <2>4, <2>5, DatabasesStay DEF FolderInv
<1>6. CASE CopyDatabase(m)
  <2>1. mover'[m].at = "copied" /\ mover'[m].from = From(m) /\ mover'[m].to = To(m)
        /\ mover' \in [Movers -> MoverRow]
    BY <1>1, <1>6, MoverGoesOn DEF CopyDatabase, Places
  <2>2. /\ mover[m].at = "locked" /\ db[From(m)] # None
        /\ partial' = [partial EXCEPT ![To(m)] = db[From(m)]]
        /\ UNCHANGED <<pointer, db, log, journal, locked, user, dataDirCounters, theirs>>
    BY <1>6 DEF CopyDatabase
  <2>3. DataDirTypeOK' /\ MoveStands(m)'
    BY <1>1, <1>2, <2>1, <2>2 DEF FolderInv, DataDirTypeOK, dataDirCounters, MoverRow, MoveStands, DirAfter
  <2> QED
    BY <2>1, <2>2, <2>3, DatabasesStay DEF FolderInv
<1>7. CASE OpenCopy(m)
  <2>1. mover'[m].at = "checking" /\ mover'[m].from = From(m) /\ mover'[m].to = To(m)
        /\ mover' \in [Movers -> MoverRow]
    BY <1>1, <1>7, MoverGoesOn DEF OpenCopy, Places
  <2>2. /\ mover[m].at = "copied" /\ attempts < MaxAttempts /\ attempts' = attempts + 1
        /\ UNCHANGED <<pointer, db, partial, journal, locked, user, commits, crashes, theirs>>
    BY <1>7 DEF OpenCopy
  <2>3. PICK content \in Opened(partial[To(m)], log[To(m)]) :
            log' = [log EXCEPT ![To(m)] = content \cup {<<"move", attempts'>>}]
    BY <1>7 DEF OpenCopy
  <2>4. attempts' \in 1..MaxAttempts
    BY <2>2 DEF FolderInv, DataDirTypeOK
  <2>5. content \in Content
    BY <1>1, <1>2, <2>2, OpenedIsContent DEF FolderInv, DataDirTypeOK, MoveStands
  <2>6. content \cup {<<"move", attempts'>>} \in Content
    BY <2>4, <2>5 DEF Content, Changes
  <2>7. Marked(content \cup {<<"move", attempts'>>})
    BY <2>4, <2>6 DEF Marked
  <2>8. log' \in [Folders -> Content \cup {None}] /\ Marked(log'[To(m)])
    BY <1>1, <2>3, <2>6, <2>7 DEF FolderInv, DataDirTypeOK
  <2>9. DataDirTypeOK'
    BY <2>1, <2>2, <2>4, <2>8 DEF FolderInv, DataDirTypeOK, MoverRow
  <2>10. MoveStands(m)'
    BY <1>2, <2>1, <2>2, <2>8 DEF MoveStands, DirAfter, Marked
  <2> QED
    BY <2>1, <2>2, <2>9, <2>10, DatabasesStay DEF FolderInv
<1>8. CASE CopyIsBroken(m)
  <2>1. mover'[m].at = "idle" /\ mover' \in [Movers -> MoverRow]
    BY <1>1, <1>8, MoverEnds DEF CopyIsBroken
  <2>2. /\ log' = [log EXCEPT ![To(m)] = None] /\ locked' = [locked EXCEPT ![From(m)] = None]
        /\ UNCHANGED <<pointer, db, partial, journal, user, dataDirCounters, theirs>>
    BY <1>8 DEF CopyIsBroken
  <2>3. DataDirTypeOK' /\ MoveStands(m)'
    BY <2>1, <2>2 DEF FolderInv, DataDirTypeOK, dataDirCounters, MoverRow, MoveStands, DirAfter
  <2> QED
    BY <2>1, <2>2, <2>3, DatabasesStay DEF FolderInv
<1>9. CASE CloseCopy(m)
  <2>1. mover'[m].at = "checked" /\ mover'[m].from = From(m) /\ mover'[m].to = To(m)
        /\ mover' \in [Movers -> MoverRow]
    BY <1>1, <1>9, MoverGoesOn DEF CloseCopy, Places
  <2>2. /\ mover[m].at = "checking" /\ partial' = [partial EXCEPT ![To(m)] = log[To(m)]]
        /\ log' = [log EXCEPT ![To(m)] = None]
        /\ UNCHANGED <<pointer, db, journal, locked, user, dataDirCounters, theirs>>
    BY <1>9 DEF CloseCopy
  <2>3. DataDirTypeOK' /\ MoveStands(m)'
    BY <1>1, <1>2, <2>1, <2>2
       DEF FolderInv, DataDirTypeOK, dataDirCounters, MoverRow, MoveStands, DirAfter, Marked
  <2> QED
    BY <2>1, <2>2, <2>3, DatabasesStay DEF FolderInv
<1>10. CASE WriteJournal(m)
  <2>1. mover'[m].at = "journaled" /\ mover'[m].from = From(m) /\ mover'[m].to = To(m)
        /\ mover' \in [Movers -> MoverRow]
    BY <1>1, <1>10, MoverGoesOn DEF WriteJournal, Places
  <2>2. /\ mover[m].at = "checked"
        /\ journal' = [from |-> From(m), to |-> To(m), sha |-> partial[To(m)]]
        /\ UNCHANGED <<pointer, db, partial, log, locked, user, dataDirCounters, theirs>>
    BY <1>10 DEF WriteJournal
  <2>3. Marked(partial[To(m)]) /\ partial[To(m)] \in Content /\ partial[To(m)] # None
    BY <1>1, <1>2, <2>2 DEF FolderInv, DataDirTypeOK, MoveStands, Marked
  <2>4. DataDirTypeOK'
    BY <1>1, <2>1, <2>2, <2>3 DEF FolderInv, DataDirTypeOK, dataDirCounters, MoverRow
  <2>5. MoveStands(m)'
    BY <1>2, <2>1, <2>2, <2>3 DEF MoveStands, DirAfter, Marked
  <2> QED
    BY <2>1, <2>2, <2>3, <2>4, <2>5, DatabasesStay DEF FolderInv
<1>11. CASE Rename(m)
  <2>1. mover'[m].at = "named" /\ mover'[m].from = From(m) /\ mover'[m].to = To(m)
        /\ mover' \in [Movers -> MoverRow]
    BY <1>1, <1>11, MoverGoesOn DEF Rename, Places
  <2>2. /\ mover[m].at = "journaled"
        /\ db' = [db EXCEPT ![To(m)] = partial[To(m)]]
        /\ partial' = [partial EXCEPT ![To(m)] = None]
        /\ UNCHANGED <<pointer, log, journal, locked, dataDirCounters, theirs>>
    BY <1>11 DEF Rename
  <2>3. partial[To(m)] \in Content /\ partial[To(m)] # None
    BY <1>1, <1>2, <2>2 DEF FolderInv, DataDirTypeOK, MoveStands, Marked
  <2>4. user' \in [Users -> UserRow] /\ \A u \in Users :
           /\ user'[u].folder = user[u].folder
           /\ user'[u].at = "away" <=> user[u].at = "away"
           /\ user'[u].at = "open" => user[u].at = "open" /\ user[u].folder # To(m)
    BY <1>1, <1>11, UnlinkedUsers DEF Rename
  <2>5. DataDirTypeOK'
    BY <1>1, <2>1, <2>2, <2>3, <2>4 DEF FolderInv, DataDirTypeOK, dataDirCounters, MoverRow, UserRow
  <2>6. PointerNamesBooks' /\ MoveStands(m)'
    BY <1>1, <1>2, <2>1, <2>2, <2>3
       DEF FolderInv, DataDirTypeOK, PointerNamesBooks, MoveStands, DirAfter, Marked
  <2>7. ASSUME NEW f \in Folders, theirs'[f] # None PROVE Foreign(f)'
    BY <1>1, <2>1, <2>2, <2>4, <2>7 DEF FolderInv, DataDirTypeOK, Foreign
  <2> QED
    BY <1>1, <2>2, <2>4, <2>5, <2>6, <2>7 DEF FolderInv, DataDirTypeOK, UserRow
<1>12. CASE SwapPointer(m)
  <2>1. mover'[m].at = "swapped" /\ mover'[m].from = From(m) /\ mover'[m].to = To(m)
        /\ mover' \in [Movers -> MoverRow]
    BY <1>1, <1>12, MoverGoesOn DEF SwapPointer, Places
  <2>2. /\ mover[m].at = "named" /\ pointer' = To(m)
        /\ UNCHANGED <<fileVars, locked, user, dataDirCounters, theirs>>
    BY <1>12 DEF SwapPointer
  <2>3. DataDirTypeOK' /\ PointerNamesBooks' /\ MoveStands(m)'
    BY <1>1, <1>2, <2>1, <2>2
       DEF FolderInv, DataDirTypeOK, dataDirCounters, fileVars, MoverRow, PointerNamesBooks,
           MoveStands, DirAfter, Marked
  <2>4. ASSUME NEW f \in Folders, theirs'[f] # None PROVE Foreign(f)'
    BY <1>1, <2>1, <2>2, <2>4 DEF FolderInv, Foreign, fileVars
  <2> QED
    BY <1>1, <2>2, <2>3, <2>4 DEF FolderInv, fileVars
<1>13. CASE Unlock(m)
  <2>1. mover'[m].at = "unlocked" /\ mover'[m].from = From(m) /\ mover'[m].to = To(m)
        /\ mover' \in [Movers -> MoverRow]
    BY <1>1, <1>13, MoverGoesOn DEF Unlock, Places
  <2>2. /\ mover[m].at = "swapped" /\ locked' = [locked EXCEPT ![From(m)] = None]
        /\ UNCHANGED <<pointer, fileVars, user, dataDirCounters, theirs>>
    BY <1>13 DEF Unlock
  <2>3. DataDirTypeOK' /\ MoveStands(m)'
    BY <1>2, <2>1, <2>2 DEF FolderInv, DataDirTypeOK, dataDirCounters, fileVars, MoverRow, MoveStands, DirAfter
  <2> QED
    BY <2>1, <2>2, <2>3, DatabasesStay DEF FolderInv, fileVars
<1>14. CASE RemoveOld(m)
  <2>1. mover'[m].at = "removed" /\ mover'[m].from = From(m) /\ mover'[m].to = To(m)
        /\ mover' \in [Movers -> MoverRow]
    BY <1>1, <1>14, MoverGoesOn DEF RemoveOld, Places
  <2>2. /\ mover[m].at = "unlocked"
        /\ UNCHANGED <<pointer, partial, log, journal, locked, dataDirCounters, theirs>>
    BY <1>14 DEF RemoveOld
  <2>3. CASE UNCHANGED <<db, user>>
    <3>1. DataDirTypeOK' /\ MoveStands(m)'
      BY <1>2, <2>1, <2>2, <2>3 DEF FolderInv, DataDirTypeOK, dataDirCounters, MoverRow, MoveStands, DirAfter
    <3> QED
      BY <2>1, <2>2, <2>3, <3>1, DatabasesStay DEF FolderInv
  <2>4. CASE db' = [db EXCEPT ![From(m)] = None] /\ user' = Unlinked(From(m))
    <3>1. user' \in [Users -> UserRow] /\ \A u \in Users :
             /\ user'[u].folder = user[u].folder
             /\ user'[u].at = "away" <=> user[u].at = "away"
             /\ user'[u].at = "open" => user[u].at = "open" /\ user[u].folder # From(m)
      BY <1>1, <2>4, UnlinkedUsers
    <3>2. DataDirTypeOK'
      BY <2>1, <2>2, <2>4, <3>1 DEF FolderInv, DataDirTypeOK, dataDirCounters, MoverRow, UserRow
    <3>3. PointerNamesBooks' /\ MoveStands(m)'
      BY <1>1, <1>2, <2>1, <2>2, <2>4 DEF FolderInv, DataDirTypeOK, PointerNamesBooks, MoveStands, DirAfter
    <3>4. ASSUME NEW f \in Folders, theirs'[f] # None PROVE Foreign(f)'
      BY <1>1, <2>1, <2>2, <2>4, <3>1, <3>4 DEF FolderInv, DataDirTypeOK, Foreign
    <3> QED
      BY <1>1, <2>2, <2>4, <3>1, <3>2, <3>3, <3>4 DEF FolderInv, DataDirTypeOK, UserRow
  <2> QED
    BY <1>14, <2>3, <2>4 DEF RemoveOld
<1>15. CASE Finish(m)
  <2>1. mover'[m].at = "idle" /\ mover' \in [Movers -> MoverRow]
    BY <1>1, <1>15, MoverEnds DEF Finish
  <2>2. /\ journal' \in {None, journal}
        /\ UNCHANGED <<pointer, db, partial, log, locked, user, dataDirCounters, theirs>>
    BY <1>15 DEF Finish
  <2>3. DataDirTypeOK' /\ MoveStands(m)'
    BY <2>1, <2>2 DEF FolderInv, DataDirTypeOK, dataDirCounters, MoverRow, MoveStands, DirAfter
  <2> QED
    BY <2>1, <2>2, <2>3, DatabasesStay DEF FolderInv
<1> QED
  BY <1>3, <1>4, <1>5, <1>6, <1>7, <1>8, <1>9, <1>10, <1>11, <1>12, <1>13, <1>14, <1>15
     DEF MoveStep

\* A move begins where nobody else's books are, and may aim at them in vain.
LEMMA ResolveKeeps ==
    ASSUME SoleMover, FolderInv, NEW m \in Movers, NEW to \in Folders, Resolve(m, to)
    PROVE  FolderInv'
<1>1. \A n \in Movers : n = m
  BY DEF SoleMover
<1>2. /\ mover' = [mover EXCEPT ![m] = [at |-> "resolved", from |-> pointer, to |-> to]]
      /\ to # pointer
      /\ UNCHANGED <<pointer, fileVars, locked, user, dataDirCounters, theirs>>
  BY DEF Resolve
<1>3. /\ mover'[m].at = "resolved" /\ mover'[m].from = pointer /\ mover'[m].to = to
      /\ mover' \in [Movers -> MoverRow]
  BY <1>2 DEF FolderInv, DataDirTypeOK, MoverRow, Places
<1>4. DataDirTypeOK' /\ MoveStands(m)'
  BY <1>2, <1>3
     DEF FolderInv, DataDirTypeOK, dataDirCounters, fileVars, MoverRow, MoveStands, DirAfter, At, From, To
<1>5. ASSUME NEW f \in Folders, theirs'[f] # None PROVE Foreign(f)'
  BY <1>1, <1>2, <1>3, <1>5 DEF FolderInv, Foreign, fileVars, At, From, To
<1> QED
  BY <1>1, <1>2, <1>4, <1>5 DEF FolderInv, PointerNamesBooks, fileVars

\* Dying anywhere leaves what the next attempt, and everyone else, relies on.
LEMMA CrashKeeps ==
    ASSUME SoleMover, FolderInv, NEW m \in Movers, Crash(m)
    PROVE  FolderInv'
<1> USE FoldersAssumption
<1>1. /\ mover \in [Movers -> MoverRow] /\ crashes < MaxCrashes /\ crashes' = crashes + 1
      /\ UNCHANGED <<pointer, db, user, commits, attempts, theirs>>
      /\ journal' \in {journal, None}
      /\ locked' = [f \in Folders |-> IF locked[f] = m THEN None ELSE locked[f]]
  BY DEF Crash, FolderInv, DataDirTypeOK, MoverRow
<1>2. mover'[m].at = "idle" /\ mover' \in [Movers -> MoverRow]
  BY <1>1, MoverEnds DEF Crash
<1>3. partial' \in [Folders -> Content \cup {None}] /\ log' \in [Folders -> Content \cup {None}]
  BY DEF Crash, FolderInv, DataDirTypeOK, To
<1>4. DataDirTypeOK' /\ MoveStands(m)'
  BY <1>1, <1>2, <1>3 DEF FolderInv, DataDirTypeOK, MoverRow, MoveStands, DirAfter, At
<1> QED
  BY <1>1, <1>2, <1>4, DatabasesStay DEF FolderInv

\* Users open what the pointer named when they started; others' books only appear
\* where nobody works.
LEMMA OthersKeep ==
    ASSUME FolderInv,
           \/ \E u \in Users : Start(u) \/ Open(u) \/ Commit(u) \/ Leave(u)
           \/ \E f \in Folders : TheirsAppear(f)
    PROVE  FolderInv'
<1> USE FoldersAssumption
<1>1. ASSUME NEW u \in Users, Start(u) PROVE FolderInv'
  <2>1. /\ user' = [user EXCEPT ![u] = [at |-> "resolved", folder |-> pointer]]
        /\ UNCHANGED <<pointer, fileVars, locked, mover, dataDirCounters, theirs>>
    BY <1>1 DEF Start
  <2>2. DataDirTypeOK'
    BY <2>1 DEF FolderInv, DataDirTypeOK, dataDirCounters, fileVars
  <2>3. ASSUME NEW f \in Folders, theirs'[f] # None PROVE Foreign(f)'
    BY <2>1, <2>3 DEF FolderInv, DataDirTypeOK, Foreign, fileVars, At, From, To
  <2> QED
    BY <2>1, <2>2, <2>3
       DEF FolderInv, DataDirTypeOK, PointerNamesBooks, fileVars, MoveStands, At, From, To
<1>2. ASSUME NEW u \in Users, Open(u) PROVE FolderInv'
  <2> DEFINE f == user[u].folder
  <2>1. /\ f \in Folders /\ user[u].at = "resolved"
        /\ db' = [db EXCEPT ![f] = IF @ = None THEN {} ELSE @]
        /\ user' = [user EXCEPT ![u].at = "open"]
        /\ UNCHANGED <<pointer, partial, log, journal, locked, mover, dataDirCounters, theirs>>
    BY <1>2 DEF Open, FolderInv, DataDirTypeOK
  <2>2. {} \in Content /\ {} # None
    BY DEF Content
  <2>3. /\ db' \in [Folders -> Content \cup {None}] /\ db'[f] # None
        /\ \A g \in Folders : db[g] # None => db'[g] = db[g]
    BY <2>1, <2>2 DEF FolderInv, DataDirTypeOK
  <2>4. user' \in [Users -> UserRow] /\ user'[u].at = "open"
        /\ \A v \in Users : user'[v].folder = user[v].folder /\ (v # u => user'[v] = user[v])
    BY <2>1 DEF FolderInv, DataDirTypeOK, UserRow
  <2>5. DataDirTypeOK'
    BY <2>1, <2>3, <2>4 DEF FolderInv, DataDirTypeOK, dataDirCounters, UserRow
  <2>6. ASSUME NEW g \in Folders, theirs'[g] # None PROVE Foreign(g)'
    BY <2>1, <2>3, <2>4, <2>6, OthersBooksAreUnmarked DEF FolderInv, Foreign, At, From, To
  <2>7. ASSUME NEW m \in Movers PROVE MoveStands(m)'
    BY <2>1, <2>3, <2>7 DEF FolderInv, DataDirTypeOK, MoveStands, At, From, To
  <2>8. ASSUME NEW v \in Users, user'[v].at = "open" PROVE db'[user'[v].folder] # None
    BY <2>1, <2>3, <2>4, <2>8 DEF FolderInv, DataDirTypeOK
  <2> QED
    BY <2>1, <2>3, <2>5, <2>6, <2>7, <2>8 DEF FolderInv, DataDirTypeOK, PointerNamesBooks
<1>3. ASSUME NEW u \in Users, Commit(u) PROVE FolderInv'
  <2> DEFINE f == user[u].folder
  <2>1. /\ f \in Folders /\ user[u].at \in {"open", "orphan"}
        /\ commits < MaxCommits /\ commits' = commits + 1
        /\ db' = IF user[u].at = "orphan" THEN db
                 ELSE [db EXCEPT ![f] = @ \cup {<<"commit", commits'>>}]
        /\ UNCHANGED <<pointer, partial, log, journal, locked, mover, user, attempts, crashes, theirs>>
    BY <1>3 DEF Commit, FolderInv, DataDirTypeOK
  <2>2. commits' \in 0..MaxCommits /\ <<"commit", commits'>> \in Changes
    BY <2>1 DEF FolderInv, DataDirTypeOK, Changes
  <2>3. user[u].at = "open" => db[f] \in Content
    BY <2>1 DEF FolderInv, DataDirTypeOK
  <2>4. user[u].at = "open" => db[f] \cup {<<"commit", commits'>>} \in Content
    BY <2>2, <2>3 DEF Content
  <2>5. /\ db' \in [Folders -> Content \cup {None}]
        /\ \A g \in Folders : (db'[g] = None <=> db[g] = None) /\ (g # f => db'[g] = db[g])
    BY <2>1, <2>3, <2>4 DEF FolderInv, DataDirTypeOK
  <2>6. DataDirTypeOK'
    BY <2>1, <2>2, <2>5 DEF FolderInv, DataDirTypeOK
  <2>7. ASSUME NEW g \in Folders, theirs'[g] # None PROVE Foreign(g)'
    BY <2>1, <2>5, <2>7 DEF FolderInv, Foreign, At, From, To
  <2>8. ASSUME NEW m \in Movers PROVE MoveStands(m)'
    BY <2>1, <2>5, <2>8 DEF FolderInv, DataDirTypeOK, MoveStands, At, From, To
  <2> QED
    BY <2>1, <2>5, <2>6, <2>7, <2>8 DEF FolderInv, DataDirTypeOK, PointerNamesBooks
<1>4. ASSUME NEW u \in Users, Leave(u) PROVE FolderInv'
  <2>1. /\ user' = [user EXCEPT ![u] = Away]
        /\ UNCHANGED <<pointer, fileVars, locked, mover, dataDirCounters, theirs>>
    BY <1>4 DEF Leave
  <2>2. /\ user' \in [Users -> UserRow] /\ user'[u].at = "away"
        /\ \A v \in Users : v # u => user'[v] = user[v]
    BY <2>1 DEF FolderInv, DataDirTypeOK, UserRow, Away
  <2>3. DataDirTypeOK'
    BY <2>1, <2>2 DEF FolderInv, DataDirTypeOK, dataDirCounters, fileVars, UserRow
  <2>4. ASSUME NEW f \in Folders, theirs'[f] # None PROVE Foreign(f)'
    BY <2>1, <2>2, <2>4 DEF FolderInv, Foreign, fileVars, At, From, To
  <2> QED
    BY <2>1, <2>2, <2>3, <2>4 DEF FolderInv, PointerNamesBooks, fileVars, MoveStands, At, From, To
<1>5. ASSUME NEW f \in Folders, TheirsAppear(f) PROVE FolderInv'
  <2>1. /\ \A m \in Movers : At(m, "idle")
        /\ db[f] = None /\ f # pointer
        /\ \A u \in Users : user[u].folder # f \/ user[u].at = "away"
        /\ db' = [db EXCEPT ![f] = Theirs] /\ theirs' = [theirs EXCEPT ![f] = Theirs]
        /\ UNCHANGED <<pointer, partial, log, journal, locked, mover, user, dataDirCounters>>
    BY <1>5 DEF TheirsAppear
  <2>2. /\ db' \in [Folders -> Content \cup {None}] /\ theirs' \in [Folders -> {Theirs, None}]
        /\ db'[f] = Theirs /\ \A g \in Folders : g # f => db'[g] = db[g] /\ theirs'[g] = theirs[g]
    BY <2>1, OthersBooksAreUnmarked DEF FolderInv, DataDirTypeOK
  <2>3. DataDirTypeOK'
    BY <2>1, <2>2 DEF FolderInv, DataDirTypeOK, dataDirCounters
  <2>4. ASSUME NEW g \in Folders, theirs'[g] # None PROVE Foreign(g)'
    BY <2>1, <2>2, <2>4 DEF FolderInv, Foreign, At, From, To
  <2>5. ASSUME NEW m \in Movers PROVE MoveStands(m)'
    BY <2>1, <2>5 DEF MoveStands, DirAfter, At
  <2>6. ASSUME NEW v \in Users, user'[v].at = "open" PROVE db'[user'[v].folder] # None
    BY <2>1, <2>2, <2>6, OthersBooksAreUnmarked DEF FolderInv, DataDirTypeOK
  <2> QED
    BY <2>1, <2>2, <2>3, <2>4, <2>5, <2>6 DEF FolderInv, DataDirTypeOK, PointerNamesBooks
<1> QED
  BY <1>1, <1>2, <1>3, <1>4, <1>5

LEMMA FolderInvariant ==
    ASSUME SoleMover
    PROVE  DataDirSpec => []FolderInv
<1>1. DataDirInit => FolderInv
  <2> SUFFICES ASSUME DataDirInit PROVE FolderInv
    OBVIOUS
  <2>1. {} \in Content /\ {} # None
    BY FoldersAssumption DEF Content
  <2>2. DataDirTypeOK
    BY <2>1, FoldersAssumption DEF DataDirInit, DataDirTypeOK, Idle, Away, Places
  <2>3. \A m \in Movers : MoveStands(m)
    BY FoldersAssumption DEF DataDirInit, MoveStands, Idle, DirAfter, At
  <2> QED
    BY <2>1, <2>2, <2>3, FoldersAssumption
       DEF DataDirInit, FolderInv, PointerNamesBooks, Away
<1>2. FolderInv /\ [DataDirNext]_dataDirVars => FolderInv'
  <2>1. CASE UNCHANGED dataDirVars
    BY <2>1 DEF dataDirVars, fileVars, dataDirCounters, FolderInv, DataDirTypeOK, PointerNamesBooks,
                MoveStands, Foreign, At, From, To
  <2>2. CASE DataDirNext
    BY <2>2, MoveKeeps, ResolveKeeps, CrashKeeps, OthersKeep DEF DataDirNext
  <2> QED
    BY <2>1, <2>2
<1> QED
  BY <1>1, <1>2, PTL DEF DataDirSpec

\* Files, locks and stages are what they may be; the checksum in the journal is that of a
\* database (datadir.rs: prepare_copy to finish_move).
THEOREM FoldersTyped ==
    ASSUME SoleMover
    PROVE  DataDirSpec => []DataDirTypeOK
<1>1. FolderInv => DataDirTypeOK
  BY DEF FolderInv
<1> QED
  BY <1>1, FolderInvariant, PTL

\* Wherever a move dies, the pointer names a folder with a database (commit_move).
THEOREM PointerFindsBooks ==
    ASSUME SoleMover
    PROVE  DataDirSpec => []PointerNamesBooks
<1>1. FolderInv => PointerNamesBooks
  BY DEF FolderInv
<1> QED
  BY <1>1, FolderInvariant, PTL

\* Books of somebody else are never taken for a copy of an interrupted move (journal_matches).
THEOREM OthersBooksStay ==
    ASSUME SoleMover
    PROVE  DataDirSpec => []TheirBooksUntouched
<1>1. FolderInv => TheirBooksUntouched
  BY DEF FolderInv, TheirBooksUntouched, Foreign
<1> QED
  BY <1>1, FolderInvariant, PTL

(***************************************************************************)
(* The data folder implements one movable book, for one mover and any      *)
(* folders, users, commits, attempts and crashes.  What is being carried   *)
(* to the target is compared with the books it was copied from, which      *)
(* stand still while they are locked; a log an attempt left behind bears   *)
(* the mark of that attempt, which is nowhere else.                        *)
(***************************************************************************)
Mark(k) == <<"move", k>>
UserCommit(k) == <<"commit", k>>
Marks == {"move"} \X (1..MaxAttempts)
UserCommits == {"commit"} \X (1..MaxCommits)

\* The changes there can be after so many commits and attempts.
Recorded(count, tries) ==
    {UserCommit(k) : k \in 1..count} \cup {Mark(k) : k \in 1..tries} \cup Theirs

Has(content, change) == content # None /\ change \in content

Traced(content, count, tries) == content # None => content \subseteq Recorded(count, tries)

\* What a move that bears its own mark brings along of the books it copied.
Whole(content, books, own) ==
    books \cup {own} \subseteq content /\ content \subseteq books \cup {own} \cup UserCommits
Spoilt(content, books, own) ==
    \E dead \in Marks : dead \notin books /\ dead # own /\ {own, dead} \subseteq content
Carries(content, books, own) ==
    /\ content # None /\ books # None
    /\ own \in Marks /\ own \notin books
    /\ Whole(content, books, own) \/ Spoilt(content, books, own)

AllTraced ==
    \A f \in Folders : /\ Traced(db[f], commits, attempts)
                       /\ Traced(partial[f], commits, attempts)
                       /\ Traced(log[f], commits, attempts)

LockedStages == {"locked", "copied", "checking", "checked", "journaled", "named", "swapped"}

\* Nobody has locked books open.
LockHolds ==
    /\ \A m \in Movers : mover[m].at \in LockedStages => locked[From(m)] = m
    /\ \A f \in Folders, u \in Users :
           locked[f] # None => ~(user[u].at = "open" /\ user[u].folder = f)

LogsApart ==
    \A g \in Folders : log[g] # None =>
        \E dead \in Marks :
            /\ dead \in log[g]
            /\ \A f \in Folders : /\ ~Has(db[f], dead) /\ ~Has(partial[f], dead)
                                  /\ Has(log[f], dead) => f = g

MoveCarries(m) ==
    /\ At(m, "copied") => partial[To(m)] = db[From(m)]
    /\ At(m, "checking") => Carries(log[To(m)], db[From(m)], Mark(attempts))
    /\ At(m, "checked") \/ At(m, "journaled") =>
           Carries(partial[To(m)], db[From(m)], Mark(attempts))
    /\ At(m, "named") => Carries(db[To(m)], db[From(m)], Mark(attempts))

BooksInv == AllTraced /\ LockHolds /\ LogsApart /\ \A m \in Movers : MoveCarries(m)

LEMMA ChangesDiffer ==
    /\ \A i, j : Mark(i) = Mark(j) => i = j
    /\ \A i, j : UserCommit(i) = UserCommit(j) => i = j
    /\ \A i, j : Mark(i) # UserCommit(j)
    /\ \A i : Mark(i) \notin Theirs /\ UserCommit(i) \notin Theirs
    /\ \A i : (Mark(i) \in Marks <=> i \in 1..MaxAttempts)
    /\ \A i : (UserCommit(i) \in UserCommits <=> i \in 1..MaxCommits)
    /\ \A dead \in Marks : \E i \in 1..MaxAttempts : dead = Mark(i)
BY DEF Mark, UserCommit, Theirs, Marks, UserCommits

LEMMA CommitsAreUnmarked ==
    \A dead \in Marks : dead \notin Theirs /\ \A k : dead # UserCommit(k)
BY ChangesDiffer

LEMMA NewChanges ==
    ASSUME NEW count \in Nat, NEW tries \in Nat
    PROVE  /\ Mark(tries + 1) \notin Recorded(count, tries)
           /\ UserCommit(count + 1) \notin Recorded(count, tries)
           /\ Recorded(count, tries) \cup {Mark(tries + 1)} \subseteq Recorded(count, tries + 1)
           /\ Recorded(count, tries) \cup {UserCommit(count + 1)} \subseteq Recorded(count + 1, tries)
           /\ Theirs \subseteq Recorded(count, tries)
<1>1. Mark(tries + 1) \notin Recorded(count, tries) /\ UserCommit(count + 1) \notin Recorded(count, tries)
  BY ChangesDiffer DEF Recorded
<1>2. 1..tries \subseteq 1..(tries + 1) /\ tries + 1 \in 1..(tries + 1)
      /\ 1..count \subseteq 1..(count + 1) /\ count + 1 \in 1..(count + 1)
  OBVIOUS
<1> QED
  BY <1>1, <1>2 DEF Recorded

\* What a commit adds, and where.
LEMMA CommitAdds ==
    ASSUME FolderInv, NEW u \in Users, Commit(u)
    PROVE  /\ commits' = commits + 1 /\ commits \in Nat /\ commits < MaxCommits
           /\ UNCHANGED <<pointer, partial, log, journal, locked, mover, user, attempts,
                          crashes, theirs>>
           /\ \A f \in Folders :
                  \/ db'[f] = db[f]
                  \/ /\ user[u].at = "open" /\ user[u].folder = f
                     /\ db[f] # None /\ db'[f] = db[f] \cup {UserCommit(commits + 1)}
<1>1. /\ db \in [Folders -> Content \cup {None}] /\ user \in [Users -> UserRow]
      /\ commits \in Nat
  BY DEF FolderInv, DataDirTypeOK, UserRow
<1>2. user[u].folder \in Folders
  BY <1>1 DEF UserRow
<1>3. /\ commits' = commits + 1 /\ commits < MaxCommits /\ user[u].at \in {"open", "orphan"}
      /\ db' = IF user[u].at = "orphan" THEN db
               ELSE [db EXCEPT ![user[u].folder] = @ \cup {<<"commit", commits'>>}]
      /\ UNCHANGED <<pointer, partial, log, journal, locked, mover, user, attempts,
                     crashes, theirs>>
  BY DEF Commit
<1>4. CASE user[u].at = "orphan"
  BY <1>1, <1>3, <1>4
<1>5. CASE user[u].at = "open"
  <2>1. db[user[u].folder] # None
    BY <1>5 DEF FolderInv
  <2>2. db' = [db EXCEPT ![user[u].folder] = @ \cup {UserCommit(commits + 1)}]
    BY <1>3, <1>5 DEF UserCommit
  <2> QED
    BY <1>1, <1>2, <1>3, <1>5, <2>1, <2>2
<1> QED
  BY <1>3, <1>4, <1>5

\* Where a change in a file comes from, unless a copy is being opened.
LEMMA ChangesComeFrom ==
    ASSUME FolderInv, DataDirNext, \A m \in Movers : ~OpenCopy(m)
    PROVE  /\ attempts' = attempts /\ commits' \in {commits, commits + 1}
           /\ \A f \in Folders :
                  /\ log'[f] = log[f] \/ log'[f] = None
                  /\ \A x : Has(db'[f], x) =>
                        \/ x \in Theirs
                        \/ commits' = commits + 1 /\ x = UserCommit(commits + 1)
                        \/ \E g \in Folders : Has(db[g], x) \/ Has(partial[g], x)
                  /\ \A x : Has(partial'[f], x) =>
                        \/ \E g \in Folders : Has(db[g], x) \/ Has(partial[g], x)
                        \/ Has(log[f], x) /\ log'[f] = None
<1> DEFINE Goal == /\ attempts' = attempts /\ commits' \in {commits, commits + 1}
                   /\ \A f \in Folders :
                        /\ log'[f] = log[f] \/ log'[f] = None
                        /\ \A x : Has(db'[f], x) =>
                              \/ x \in Theirs
                              \/ commits' = commits + 1 /\ x = UserCommit(commits + 1)
                              \/ \E g \in Folders : Has(db[g], x) \/ Has(partial[g], x)
                        /\ \A x : Has(partial'[f], x) =>
                              \/ \E g \in Folders : Has(db[g], x) \/ Has(partial[g], x)
                              \/ Has(log[f], x) /\ log'[f] = None
<1>1. /\ db \in [Folders -> Content \cup {None}] /\ partial \in [Folders -> Content \cup {None}]
      /\ log \in [Folders -> Content \cup {None}]
      /\ mover \in [Movers -> MoverRow] /\ pointer \in Folders
      /\ user \in [Users -> UserRow]
  BY DEF FolderInv, DataDirTypeOK, MoverRow, UserRow
<1>2. \A m \in Movers : From(m) \in Folders /\ To(m) \in Folders
  BY <1>1 DEF MoverRow, From, To
<1> USE <1>1, <1>2 DEF Has
<1>3. CASE UNCHANGED <<db, partial, log, commits, attempts>>
  BY <1>3
<1>4. ASSUME NEW f \in Folders, db' = [db EXCEPT ![f] = None],
             UNCHANGED <<partial, log, commits, attempts>>
      PROVE  Goal
  BY <1>4
<1>5. ASSUME NEW f \in Folders, db' = [db EXCEPT ![f] = IF @ = None THEN {} ELSE @],
             UNCHANGED <<partial, log, commits, attempts>>
      PROVE  Goal
  BY <1>5
<1>6. ASSUME NEW f \in Folders, partial' = [partial EXCEPT ![f] = log[f]],
             log' = [log EXCEPT ![f] = None], UNCHANGED <<db, commits, attempts>>
      PROVE  Goal
  BY <1>6
<1>7. ASSUME NEW m \in Movers, NEW to \in Folders, Resolve(m, to) PROVE Goal
  BY <1>3, <1>7 DEF Resolve, fileVars, dataDirCounters
<1>8. ASSUME NEW m \in Movers, Crash(m) PROVE Goal
  <2>1. UNCHANGED <<db, commits, attempts>>
    BY <1>8 DEF Crash
  <2>2. CASE UNCHANGED <<partial, log>>
    BY <1>3, <2>1, <2>2
  <2>3. CASE partial' = [partial EXCEPT ![To(m)] = log[To(m)]] /\ log' = [log EXCEPT ![To(m)] = None]
    BY <1>6, <2>1, <2>3
  <2> QED
    BY <1>8, <2>2, <2>3 DEF Crash
<1>9. ASSUME NEW u \in Users, Start(u) \/ Leave(u) PROVE Goal
  BY <1>3, <1>9 DEF Start, Leave, fileVars, dataDirCounters
<1>10. ASSUME NEW u \in Users, Open(u) PROVE Goal
  BY <1>5, <1>10 DEF Open, dataDirCounters, UserRow
<1>11. ASSUME NEW u \in Users, Commit(u) PROVE Goal
  BY <1>11, CommitAdds
<1>12. ASSUME NEW f \in Folders, TheirsAppear(f) PROVE Goal
  BY <1>12 DEF TheirsAppear, dataDirCounters
<1>13. ASSUME NEW m \in Movers, MoveStep(m) PROVE Goal
  <2>1. CASE RefuseTarget(m) \/ RefuseBusy(m) \/ WriteJournal(m) \/ SwapPointer(m) \/ Unlock(m)
             \/ Finish(m)
    BY <1>3, <2>1 DEF RefuseTarget, RefuseBusy, WriteJournal, SwapPointer, Unlock, Finish,
                      fileVars, dataDirCounters
  <2>2. CASE ClearTarget(m) \/ RemoveOld(m)
    BY <1>3, <1>4, <2>2 DEF ClearTarget, RemoveOld, dataDirCounters
  <2>3. CASE LockSource(m)
    BY <1>5, <2>3 DEF LockSource, dataDirCounters
  <2>4. CASE CopyDatabase(m)
    BY <2>4 DEF CopyDatabase, dataDirCounters
  <2>5. CASE CopyIsBroken(m)
    BY <2>5 DEF CopyIsBroken, dataDirCounters
  <2>6. CASE CloseCopy(m)
    BY <1>6, <2>6 DEF CloseCopy, dataDirCounters
  <2>7. CASE Rename(m)
    BY <2>7 DEF Rename, dataDirCounters
  <2> QED
    BY <1>13, <2>1, <2>2, <2>3, <2>4, <2>5, <2>6, <2>7 DEF MoveStep
<1> QED
  BY <1>7, <1>8, <1>9, <1>10, <1>11, <1>12, <1>13 DEF DataDirNext

\* What opening a copy makes of its log.
LEMMA CopyOpened ==
    ASSUME FolderInv, NEW m \in Movers, OpenCopy(m)
    PROVE  /\ To(m) \in Folders /\ From(m) \in Folders
           /\ attempts' = attempts + 1 /\ attempts \in Nat /\ attempts < MaxAttempts
           /\ UNCHANGED <<pointer, db, partial, journal, locked, user, commits, crashes, theirs>>
           /\ partial[To(m)] # None /\ log'[To(m)] # None
           /\ Mark(attempts + 1) \in log'[To(m)]
           /\ \A f \in Folders : f # To(m) => log'[f] = log[f]
           /\ log[To(m)] = None => log'[To(m)] = partial[To(m)] \cup {Mark(attempts + 1)}
           /\ log[To(m)] # None => log[To(m)] \subseteq log'[To(m)]
           /\ \A x \in log'[To(m)] : \/ x = Mark(attempts + 1)
                                     \/ Has(log[To(m)], x) \/ Has(partial[To(m)], x)
<1>1. /\ db \in [Folders -> Content \cup {None}] /\ partial \in [Folders -> Content \cup {None}]
      /\ log \in [Folders -> Content \cup {None}]
      /\ To(m) \in Folders /\ From(m) \in Folders /\ attempts \in Nat
  BY DEF FolderInv, DataDirTypeOK, From, To
<1>2. /\ mover[m].at = "copied" /\ attempts < MaxAttempts /\ attempts' = attempts + 1
      /\ UNCHANGED <<pointer, db, partial, journal, locked, user, commits, crashes, theirs>>
  BY DEF OpenCopy, At
<1>3. PICK content \in Opened(partial[To(m)], log[To(m)]) :
          log' = [log EXCEPT ![To(m)] = content \cup {Mark(attempts + 1)}]
  BY <1>2 DEF OpenCopy, Mark
<1>4. partial[To(m)] # None /\ partial[To(m)] \in Content
  BY <1>1, <1>2 DEF FolderInv, MoveStands, At
<1>5. content \cup {Mark(attempts + 1)} \in Content
  <2>1. content \in Content
    BY <1>1, <1>3, <1>4, OpenedIsContent
  <2>2. attempts + 1 \in 1..MaxAttempts
    BY <1>1, <1>2, FoldersAssumption
  <2> QED
    BY <2>1, <2>2 DEF Content, Changes, Mark
<1>6. content \cup {Mark(attempts + 1)} # None
  BY <1>5, FoldersAssumption
<1>7. /\ log'[To(m)] = content \cup {Mark(attempts + 1)}
      /\ \A f \in Folders : f # To(m) => log'[f] = log[f]
  BY <1>1, <1>3
<1>8. CASE log[To(m)] = None
  <2>1. content = partial[To(m)]
    BY <1>3, <1>8 DEF Opened
  <2> QED
    BY <1>1, <1>2, <1>4, <1>6, <1>7, <1>8, <2>1 DEF Has
<1>9. CASE log[To(m)] # None
  <2>1. PICK kept \in SUBSET partial[To(m)] : content = log[To(m)] \cup kept
    BY <1>3, <1>9 DEF Opened
  <2> QED
    BY <1>1, <1>2, <1>4, <1>6, <1>7, <1>9, <2>1 DEF Has
<1> QED
  BY <1>8, <1>9

LEMMA TracesStay ==
    ASSUME FolderInv, AllTraced, DataDirNext
    PROVE  AllTraced'
<1>1. commits \in Nat /\ attempts \in Nat
  BY DEF FolderInv, DataDirTypeOK
<1> DEFINE R == Recorded(commits, attempts)
<1>2. \A f \in Folders : \A x : Has(db[f], x) \/ Has(partial[f], x) \/ Has(log[f], x) => x \in R
  BY DEF AllTraced, Traced, Has
<1>3. SUFFICES \A f \in Folders : \A x : Has(db'[f], x) \/ Has(partial'[f], x) \/ Has(log'[f], x)
                                         => x \in Recorded(commits', attempts')
  <2>1. \A f \in Folders : /\ db'[f] # None => db'[f] \subseteq Recorded(commits', attempts')
                           /\ partial'[f] # None => partial'[f] \subseteq Recorded(commits', attempts')
                           /\ log'[f] # None => log'[f] \subseteq Recorded(commits', attempts')
    BY <1>3 DEF Has
  <2> QED
    BY <2>1 DEF AllTraced, Traced
<1>4. CASE \E m \in Movers : OpenCopy(m)
  <2>1. PICK m \in Movers : OpenCopy(m)
    BY <1>4
  <2>2. commits' = commits /\ attempts' = attempts + 1 /\ UNCHANGED <<db, partial>>
    BY <2>1, CopyOpened
  <2>3. R \cup {Mark(attempts + 1)} \subseteq Recorded(commits', attempts')
    BY <1>1, <2>2, NewChanges
  <2>4. \A f \in Folders : \A x : Has(log'[f], x) =>
            x = Mark(attempts + 1) \/ \E g \in Folders : Has(log[g], x) \/ Has(partial[g], x)
    BY <2>1, CopyOpened DEF Has
  <2> HIDE DEF R
  <2> QED
    BY <1>2, <2>2, <2>3, <2>4
<1>5. CASE \A m \in Movers : ~OpenCopy(m)
  <2>1. R \subseteq Recorded(commits', attempts') /\ Theirs \subseteq R
        /\ (commits' = commits + 1 => UserCommit(commits + 1) \in Recorded(commits', attempts'))
    BY <1>1, <1>5, ChangesComeFrom, NewChanges
  <2>2. \A f \in Folders : log'[f] = log[f] \/ log'[f] = None
    BY <1>5, ChangesComeFrom
  <2>3. ASSUME NEW f \in Folders, NEW x, Has(db'[f], x) PROVE x \in Recorded(commits', attempts')
    <3>1. \/ x \in Theirs
          \/ commits' = commits + 1 /\ x = UserCommit(commits + 1)
          \/ \E g \in Folders : Has(db[g], x) \/ Has(partial[g], x)
      BY <1>5, <2>3, ChangesComeFrom
    <3> HIDE DEF R
    <3> QED
      BY <1>2, <2>1, <3>1
  <2>4. ASSUME NEW f \in Folders, NEW x, Has(partial'[f], x) PROVE x \in Recorded(commits', attempts')
    <3>1. \/ \E g \in Folders : Has(db[g], x) \/ Has(partial[g], x)
          \/ Has(log[f], x) /\ log'[f] = None
      BY <1>5, <2>4, ChangesComeFrom
    <3> HIDE DEF R
    <3> QED
      BY <1>2, <2>1, <3>1
  <2> HIDE DEF R
  <2> QED
    BY <1>2, <2>1, <2>2, <2>3, <2>4 DEF Has
<1> QED
  BY <1>4, <1>5

\* The mark of an attempt to come is nowhere yet.
LEMMA NextMarkIsFresh ==
    ASSUME FolderInv, AllTraced, NEW f \in Folders
    PROVE  /\ ~Has(db[f], Mark(attempts + 1)) /\ ~Has(partial[f], Mark(attempts + 1))
           /\ ~Has(log[f], Mark(attempts + 1))
<1>1. commits \in Nat /\ attempts \in Nat
  BY DEF FolderInv, DataDirTypeOK
<1>2. Mark(attempts + 1) \notin Recorded(commits, attempts)
  BY <1>1, NewChanges
<1> QED
  BY <1>2 DEF AllTraced, Traced, Has

LEMMA LogsStayApart ==
    ASSUME FolderInv, AllTraced, LogsApart, DataDirNext
    PROVE  LogsApart'
<1> SUFFICES ASSUME NEW g \in Folders, log'[g] # None
             PROVE  \E dead \in Marks :
                        /\ dead \in log'[g]
                        /\ \A f \in Folders : /\ ~Has(db'[f], dead) /\ ~Has(partial'[f], dead)
                                              /\ Has(log'[f], dead) => f = g
  BY DEF LogsApart
<1>1. ASSUME NEW m \in Movers, OpenCopy(m), g = To(m)
      PROVE  \E dead \in Marks :
                 /\ dead \in log'[g]
                 /\ \A f \in Folders : /\ ~Has(db'[f], dead) /\ ~Has(partial'[f], dead)
                                       /\ Has(log'[f], dead) => f = g
  <2>1. Mark(attempts + 1) \in log'[g] /\ UNCHANGED <<db, partial>>
        /\ \A f \in Folders : f # g => log'[f] = log[f]
    BY <1>1, CopyOpened
  <2>2. Mark(attempts + 1) \in Marks
    <3>1. attempts \in Nat /\ attempts < MaxAttempts
      BY <1>1, CopyOpened
    <3>2. attempts + 1 \in 1..MaxAttempts
      BY <3>1, FoldersAssumption
    <3> QED
      BY <3>2, ChangesDiffer
  <2> QED
    BY <2>1, <2>2, NextMarkIsFresh
<1>2. ASSUME ~\E m \in Movers : OpenCopy(m) /\ g = To(m)
      PROVE  log'[g] = log[g]
  <2>1. CASE \E m \in Movers : OpenCopy(m)
    BY <1>2, <2>1, CopyOpened
  <2>2. CASE \A m \in Movers : ~OpenCopy(m)
    BY <2>2, ChangesComeFrom
  <2> QED
    BY <2>1, <2>2
<1>3. ASSUME ~\E m \in Movers : OpenCopy(m) /\ g = To(m)
      PROVE  \E dead \in Marks :
                 /\ dead \in log'[g]
                 /\ \A f \in Folders : /\ ~Has(db'[f], dead) /\ ~Has(partial'[f], dead)
                                       /\ Has(log'[f], dead) => f = g
  <2>1. log'[g] = log[g]
    BY <1>2, <1>3
  <2>2. PICK dead \in Marks :
            /\ dead \in log[g]
            /\ \A f \in Folders : /\ ~Has(db[f], dead) /\ ~Has(partial[f], dead)
                                  /\ Has(log[f], dead) => f = g
    BY <2>1 DEF LogsApart
  <2>3. CASE \E m \in Movers : OpenCopy(m)
    <3>1. PICK m \in Movers : OpenCopy(m)
      BY <2>3
    <3>2. /\ UNCHANGED <<db, partial>> /\ attempts \in Nat /\ attempts < MaxAttempts
          /\ To(m) \in Folders /\ To(m) # g
          /\ \A f \in Folders : f # To(m) => log'[f] = log[f]
          /\ \A x \in log'[To(m)] : \/ x = Mark(attempts + 1)
                                    \/ Has(log[To(m)], x) \/ Has(partial[To(m)], x)
      BY <1>3, <3>1, CopyOpened
    <3>3. dead # Mark(attempts + 1)
      BY <2>1, <2>2, NextMarkIsFresh DEF Has
    <3>4. ~Has(log'[To(m)], dead)
      BY <2>2, <3>2, <3>3 DEF Has
    <3> QED
      BY <2>1, <2>2, <3>2, <3>4
  <2>4. CASE \A m \in Movers : ~OpenCopy(m)
    <3>1. dead \notin Theirs /\ \A k : dead # UserCommit(k)
      BY CommitsAreUnmarked
    <3>2. \A f \in Folders : ~Has(db'[f], dead)
      BY <2>2, <2>4, <3>1, ChangesComeFrom
    <3>3. \A f \in Folders : ~Has(partial'[f], dead)
      BY <2>1, <2>2, <2>4, ChangesComeFrom
    <3>4. \A f \in Folders : Has(log'[f], dead) => f = g
      BY <2>2, <2>4, ChangesComeFrom DEF Has
    <3> QED
      BY <2>1, <2>2, <3>2, <3>3, <3>4
  <2> QED
    BY <2>3, <2>4
<1> QED
  BY <1>1, <1>3

\* Locks are taken and given back in time, and nobody opens what is locked.
LEMMA LocksStay ==
    ASSUME SoleMover, FolderInv, LockHolds, DataDirNext
    PROVE  LockHolds'
<1> USE FoldersAssumption
<1>1. /\ mover \in [Movers -> MoverRow] /\ user \in [Users -> UserRow]
      /\ locked \in [Folders -> Movers \cup {None}]
      /\ pointer \in Folders
      /\ \A m \in Movers : From(m) \in Folders /\ To(m) \in Folders
  BY DEF FolderInv, DataDirTypeOK, MoverRow, UserRow, From, To
<1>2. \A m, n \in Movers : m = n
  BY DEF SoleMover
<1> DEFINE NoneOpens == \A u \in Users : user'[u].at = "open" =>
                            user[u].at = "open" /\ user'[u].folder = user[u].folder
<1>3. ASSUME NEW m \in Movers,
             \/ mover'[m].at \notin LockedStages /\ \A f \in Folders : locked'[f] # None => locked[f] # None
             \/ mover[m].at \in LockedStages /\ locked' = locked /\ mover'[m].from = From(m),
             NoneOpens
      PROVE  LockHolds'
  BY <1>1, <1>2, <1>3 DEF LockHolds, From, LockedStages
<1>4. ASSUME UNCHANGED <<mover, locked>>, NoneOpens PROVE LockHolds'
  BY <1>4 DEF LockHolds, From
<1>5. UNCHANGED user => NoneOpens
  OBVIOUS
<1>6. \A f \in Folders : user' = Unlinked(f) => NoneOpens
  BY <1>1, UnlinkedUsers
<1> HIDE DEF NoneOpens
<1>7. ASSUME NEW m \in Movers, NEW to \in Folders, Resolve(m, to) PROVE LockHolds'
  <2>1. mover'[m].at = "resolved" /\ UNCHANGED <<locked, user>>
    BY <1>1, <1>7 DEF Resolve, MoverRow
  <2> QED
    BY <1>3, <1>5, <2>1 DEF LockedStages
<1>8. ASSUME NEW m \in Movers, Crash(m) PROVE LockHolds'
  <2>1. mover'[m].at = "idle" /\ UNCHANGED user
        /\ locked' = [f \in Folders |-> IF locked[f] = m THEN None ELSE locked[f]]
    BY <1>1, <1>8, MoverEnds DEF Crash
  <2> QED
    BY <1>3, <1>5, <2>1 DEF LockedStages
<1>9. ASSUME NEW u \in Users, Start(u) \/ Leave(u) PROVE LockHolds'
  <2>1. NoneOpens
    BY <1>1, <1>9 DEF NoneOpens, Start, Leave, Away, UserRow
  <2> QED
    BY <1>4, <1>9, <2>1 DEF Start, Leave
<1>10. ASSUME NEW u \in Users, Open(u) PROVE LockHolds'
  <2>1. /\ locked[user[u].folder] = None /\ user' = [user EXCEPT ![u].at = "open"]
        /\ UNCHANGED <<locked, mover>>
    BY <1>10 DEF Open
  <2>2. \A v \in Users : user'[v].folder = user[v].folder /\ (v # u => user'[v] = user[v])
    BY <1>1, <2>1 DEF UserRow
  <2> QED
    BY <2>1, <2>2 DEF LockHolds, From
<1>11. ASSUME NEW u \in Users, Commit(u) PROVE LockHolds'
  BY <1>4, <1>5, <1>11 DEF Commit
<1>12. ASSUME NEW f \in Folders, TheirsAppear(f) PROVE LockHolds'
  BY <1>4, <1>5, <1>12 DEF TheirsAppear
<1>13. ASSUME NEW m \in Movers, MoveStep(m) PROVE LockHolds'
  <2>1. CASE RefuseTarget(m) \/ RefuseBusy(m) \/ Finish(m)
    <3>1. mover'[m].at = "idle" /\ UNCHANGED <<locked, user>>
      BY <1>1, <2>1, MoverEnds DEF RefuseTarget, RefuseBusy, Finish
    <3> QED
      BY <1>3, <1>5, <3>1 DEF LockedStages
  <2>2. CASE ClearTarget(m)
    <3>1. mover'[m].at = "clear" /\ locked' = locked /\ user' = Unlinked(To(m))
      BY <1>1, <2>2, MoverGoesOn DEF ClearTarget, Places
    <3> QED
      BY <1>1, <1>3, <1>6, <3>1 DEF LockedStages
  <2>3. CASE LockSource(m)
    <3>1. mover'[m].from = From(m) /\ mover' \in [Movers -> MoverRow]
      BY <1>1, <2>3, MoverGoesOn DEF LockSource, Places
    <3>2. /\ locked' = [locked EXCEPT ![From(m)] = m] /\ user' = user
          /\ \A u \in Users : user[u] # [at |-> "open", folder |-> From(m)]
      BY <2>3 DEF LockSource, InUse
    <3>3. \A u \in Users : ~(user[u].at = "open" /\ user[u].folder = From(m))
      BY <1>1, <3>2 DEF UserRow
    <3> QED
      BY <1>1, <1>2, <3>1, <3>2, <3>3 DEF LockHolds, From
  <2>4. CASE CopyDatabase(m)
    <3>1. mover'[m].from = From(m) /\ mover[m].at \in LockedStages /\ UNCHANGED <<locked, user>>
      BY <1>1, <2>4, MoverGoesOn DEF CopyDatabase, Places, LockedStages, At
    <3> QED
      BY <1>3, <1>5, <3>1
  <2>5. CASE OpenCopy(m)
    <3>1. mover'[m].from = From(m) /\ mover[m].at \in LockedStages /\ UNCHANGED <<locked, user>>
      BY <1>1, <2>5, MoverGoesOn DEF OpenCopy, Places, LockedStages, At
    <3> QED
      BY <1>3, <1>5, <3>1
  <2>6. CASE CopyIsBroken(m)
    <3>1. mover'[m].at = "idle" /\ locked' = [locked EXCEPT ![From(m)] = None] /\ UNCHANGED user
      BY <1>1, <2>6, MoverEnds DEF CopyIsBroken
    <3> QED
      BY <1>1, <1>3, <1>5, <3>1 DEF LockedStages
  <2>7. CASE CloseCopy(m)
    <3>1. mover'[m].from = From(m) /\ mover[m].at \in LockedStages /\ UNCHANGED <<locked, user>>
      BY <1>1, <2>7, MoverGoesOn DEF CloseCopy, Places, LockedStages, At
    <3> QED
      BY <1>3, <1>5, <3>1
  <2>8. CASE WriteJournal(m)
    <3>1. mover'[m].from = From(m) /\ mover[m].at \in LockedStages /\ UNCHANGED <<locked, user>>
      BY <1>1, <2>8, MoverGoesOn DEF WriteJournal, Places, LockedStages, At
    <3> QED
      BY <1>3, <1>5, <3>1
  <2>9. CASE Rename(m)
    <3>1. mover'[m].from = From(m) /\ mover[m].at \in LockedStages /\ locked' = locked
          /\ user' = Unlinked(To(m))
      BY <1>1, <2>9, MoverGoesOn DEF Rename, Places, LockedStages, At
    <3> QED
      BY <1>1, <1>3, <1>6, <3>1
  <2>10. CASE SwapPointer(m)
    <3>1. mover'[m].from = From(m) /\ mover[m].at \in LockedStages /\ UNCHANGED <<locked, user>>
      BY <1>1, <2>10, MoverGoesOn DEF SwapPointer, Places, LockedStages, At
    <3> QED
      BY <1>3, <1>5, <3>1
  <2>11. CASE Unlock(m)
    <3>1. mover'[m].at = "unlocked" /\ locked' = [locked EXCEPT ![From(m)] = None] /\ UNCHANGED user
      BY <1>1, <2>11, MoverGoesOn DEF Unlock, Places
    <3> QED
      BY <1>1, <1>3, <1>5, <3>1 DEF LockedStages
  <2>12. CASE RemoveOld(m)
    <3>1. mover'[m].at = "removed" /\ locked' = locked
          /\ (user' = Unlinked(From(m)) \/ UNCHANGED user)
      BY <1>1, <2>12, MoverGoesOn DEF RemoveOld, Places
    <3>2. NoneOpens
      BY <1>1, <1>5, <1>6, <3>1
    <3> QED
      BY <1>3, <3>1, <3>2 DEF LockedStages
  <2> QED
    BY <1>13, <2>1, <2>2, <2>3, <2>4, <2>5, <2>6, <2>7, <2>8, <2>9, <2>10, <2>11, <2>12
       DEF MoveStep
<1> QED
  BY <1>7, <1>8, <1>9, <1>10, <1>11, <1>12, <1>13 DEF DataDirNext

\* The first copy of books, marked, is the books and the mark; one opened with the log of
\* a dead attempt shows that attempt's mark as well.
LEMMA OpenedCarries ==
    ASSUME FolderInv, AllTraced, LogsApart, NEW m \in Movers, OpenCopy(m),
           db[From(m)] # None, partial[To(m)] = db[From(m)]
    PROVE  Carries(log'[To(m)], db[From(m)], Mark(attempts + 1))
<1> DEFINE own == Mark(attempts + 1)
<1> SUFFICES Carries(log'[To(m)], db[From(m)], own)
  OBVIOUS
<1>1. own \in Marks
  <2>1. attempts \in Nat /\ attempts < MaxAttempts
    BY CopyOpened
  <2>2. attempts + 1 \in 1..MaxAttempts
    BY <2>1, FoldersAssumption
  <2> QED
    BY <2>2, ChangesDiffer
<1>2. From(m) \in Folders /\ To(m) \in Folders /\ log'[To(m)] # None /\ own \in log'[To(m)]
  BY CopyOpened
<1>3. own \notin db[From(m)]
  BY <1>2, NextMarkIsFresh DEF Has
<1>4. CASE log[To(m)] = None
  <2>1. log'[To(m)] = db[From(m)] \cup {own}
    BY <1>4, CopyOpened
  <2> HIDE DEF own
  <2> QED
    BY <1>1, <1>2, <1>3, <2>1 DEF Carries, Whole
<1>5. CASE log[To(m)] # None
  <2>1. PICK dead \in Marks : dead \in log[To(m)] /\ ~Has(db[From(m)], dead)
    BY <1>2, <1>5 DEF LogsApart
  <2>2. dead # own
    BY <1>2, <1>5, <2>1, NextMarkIsFresh DEF Has
  <2>3. dead \in log'[To(m)] /\ dead \notin db[From(m)]
    BY <1>5, <2>1, CopyOpened DEF Has
  <2> HIDE DEF own
  <2> QED
    BY <1>1, <1>2, <1>3, <2>2, <2>3 DEF Carries, Spoilt
<1> QED
  BY <1>4, <1>5

\* What users commit in the new folder comes on top.
LEMMA CarriesOn ==
    ASSUME NEW content, NEW books, NEW own, Carries(content, books, own),
           NEW c \in UserCommits, content \cup {c} # None
    PROVE  Carries(content \cup {c}, books, own)
BY DEF Carries, Whole, Spoilt

\* Until the pointer is swapped nobody touches what is carried, but to add to it, nor
\* the books it was copied from.
LEMMA CarriedStays ==
    ASSUME SoleMover, FolderInv, FolderInv', AllTraced, LockHolds, LogsApart,
           \A m \in Movers : MoveCarries(m), DataDirNext
    PROVE  \A m \in Movers : MoveCarries(m)'
<1> USE FoldersAssumption
<1>1. /\ mover \in [Movers -> MoverRow] /\ user \in [Users -> UserRow]
      /\ db \in [Folders -> Content \cup {None}] /\ partial \in [Folders -> Content \cup {None}]
      /\ log \in [Folders -> Content \cup {None}]
      /\ pointer \in Folders /\ db[pointer] # None
      /\ \A m \in Movers : From(m) \in Folders /\ To(m) \in Folders
  BY DEF FolderInv, DataDirTypeOK, PointerNamesBooks, MoverRow, UserRow, From, To
<1>2. \A m, n \in Movers : m = n
  BY DEF SoleMover
<1>3. \A m \in Movers : MoveStands(m) /\ MoveCarries(m)
  BY DEF FolderInv
<1>4. \A m \in Movers : mover[m].at \in LockedStages \ {"swapped"} => db[From(m)] # None /\ From(m) # To(m)
  BY <1>1, <1>3 DEF MoveStands, LockedStages, DirAfter, At
<1> DEFINE Carrying == {"copied", "checking", "checked", "journaled", "named"}
<1>5. ASSUME NEW m \in Movers, mover'[m].at \notin Carrying
      PROVE  \A n \in Movers : MoveCarries(n)'
  BY <1>2, <1>5 DEF MoveCarries, At
<1>6. ASSUME NEW m \in Movers, MoveCarries(m)' PROVE \A n \in Movers : MoveCarries(n)'
  BY <1>2, <1>6
<1>7. ASSUME UNCHANGED <<mover, db, partial, log, attempts>>
      PROVE  \A n \in Movers : MoveCarries(n)'
  BY <1>3, <1>7 DEF MoveCarries, At, From, To
<1>8. ASSUME NEW m \in Movers, NEW to \in Folders, Resolve(m, to)
      PROVE  \A n \in Movers : MoveCarries(n)'
  <2>1. mover'[m].at = "resolved"
    BY <1>1, <1>8 DEF Resolve, MoverRow
  <2> QED
    BY <1>5, <2>1
<1>9. ASSUME NEW m \in Movers, Crash(m) PROVE \A n \in Movers : MoveCarries(n)'
  <2>1. mover'[m].at = "idle"
    BY <1>1, <1>9, MoverEnds DEF Crash
  <2> QED
    BY <1>5, <2>1
<1>10. ASSUME NEW u \in Users, Start(u) \/ Leave(u) PROVE \A n \in Movers : MoveCarries(n)'
  BY <1>7, <1>10 DEF Start, Leave, fileVars, dataDirCounters
<1>11. ASSUME NEW u \in Users, Open(u) PROVE \A n \in Movers : MoveCarries(n)'
  <2>1. /\ user[u].folder \in Folders
        /\ db' = [db EXCEPT ![user[u].folder] = IF @ = None THEN {} ELSE @]
        /\ UNCHANGED <<partial, log, mover, attempts>>
    BY <1>1, <1>11 DEF Open, UserRow, dataDirCounters
  <2>2. \A f \in Folders : db[f] # None => db'[f] = db[f]
    BY <1>1, <2>1
  <2>3. ASSUME NEW m \in Movers PROVE MoveCarries(m)'
    <3>1. mover[m].at \in Carrying => db'[From(m)] = db[From(m)]
      BY <1>1, <1>4, <2>2 DEF LockedStages
    <3>2. mover[m].at = "named" => db'[To(m)] = db[To(m)]
      BY <1>1, <1>3, <2>2 DEF MoveStands, At
    <3> QED
      BY <1>3, <2>1, <3>1, <3>2 DEF MoveCarries, At, From, To
  <2> QED
    BY <2>3
<1>12. ASSUME NEW u \in Users, Commit(u) PROVE \A n \in Movers : MoveCarries(n)'
  <2>1. UNCHANGED <<partial, log, mover, attempts>> /\ commits \in Nat /\ commits < MaxCommits
        /\ \A f \in Folders :
               \/ db'[f] = db[f]
               \/ /\ user[u].at = "open" /\ user[u].folder = f
                  /\ db[f] # None /\ db'[f] = db[f] \cup {UserCommit(commits + 1)}
    BY <1>12, CommitAdds
  <2>2. UserCommit(commits + 1) \in UserCommits
    <3>1. commits + 1 \in 1..MaxCommits
      BY <2>1
    <3> QED
      BY <3>1, ChangesDiffer
  <2>3. ASSUME NEW m \in Movers PROVE MoveCarries(m)'
    <3>1. mover[m].at \in Carrying => db'[From(m)] = db[From(m)]
      <4>1. mover[m].at \in Carrying => locked[From(m)] = m
        BY DEF LockHolds, LockedStages
      <4>2. mover[m].at \in Carrying => ~(user[u].at = "open" /\ user[u].folder = From(m))
        BY <1>1, <4>1 DEF LockHolds
      <4> QED
        BY <1>1, <2>1, <4>2
    <3>2. mover[m].at = "named" => Carries(db'[To(m)], db[From(m)], Mark(attempts))
      <4>1. ASSUME mover[m].at = "named", db'[To(m)] # db[To(m)]
            PROVE  Carries(db'[To(m)], db[From(m)], Mark(attempts))
        <5>1. db'[To(m)] = db[To(m)] \cup {UserCommit(commits + 1)}
          BY <1>1, <2>1, <4>1
        <5>2. db'[To(m)] # None
          BY <2>1, <3>1, <4>1 DEF FolderInv, MoveStands, At, To
        <5>3. Carries(db[To(m)], db[From(m)], Mark(attempts))
          BY <1>3, <4>1 DEF MoveCarries, At
        <5> QED
          BY <2>2, <5>1, <5>2, <5>3, CarriesOn
      <4> QED
        BY <1>3, <4>1 DEF MoveCarries, At
    <3> QED
      BY <1>3, <2>1, <3>1, <3>2 DEF MoveCarries, At, From, To
  <2> QED
    BY <2>3
<1>13. ASSUME NEW f \in Folders, TheirsAppear(f) PROVE \A n \in Movers : MoveCarries(n)'
  <2>1. \A m \in Movers : mover'[m].at = "idle"
    BY <1>13 DEF TheirsAppear, At
  <2> QED
    BY <1>5, <2>1
<1>14. ASSUME NEW m \in Movers, MoveStep(m) PROVE \A n \in Movers : MoveCarries(n)'
  <2>1. CASE RefuseTarget(m) \/ RefuseBusy(m) \/ Finish(m) \/ CopyIsBroken(m)
    <3>1. mover'[m].at = "idle"
      BY <1>1, <2>1, MoverEnds DEF RefuseTarget, RefuseBusy, Finish, CopyIsBroken
    <3> QED
      BY <1>5, <3>1
  <2>2. CASE ClearTarget(m) \/ LockSource(m) \/ SwapPointer(m) \/ Unlock(m) \/ RemoveOld(m)
    <3>1. \E place \in {"clear", "locked", "swapped", "unlocked", "removed"} : GoTo(m, place)
      BY <2>2 DEF ClearTarget, LockSource, SwapPointer, Unlock, RemoveOld
    <3>2. mover'[m].at \notin Carrying
      BY <1>1, <3>1, MoverGoesOn DEF Places
    <3> QED
      BY <1>5, <3>2
  <2>3. CASE CopyDatabase(m)
    <3>1. mover'[m].at = "copied" /\ mover'[m].from = From(m) /\ mover'[m].to = To(m)
      BY <1>1, <2>3, MoverGoesOn DEF CopyDatabase, Places
    <3>2. db' = db /\ partial' = [partial EXCEPT ![To(m)] = db[From(m)]]
      BY <2>3 DEF CopyDatabase
    <3> QED
      BY <1>1, <1>6, <3>1, <3>2 DEF MoveCarries, At, From, To
  <2>4. CASE OpenCopy(m)
    <3>1. mover'[m].at = "checking" /\ mover'[m].from = From(m) /\ mover'[m].to = To(m)
          /\ mover[m].at = "copied"
      BY <1>1, <2>4, MoverGoesOn DEF OpenCopy, Places, At
    <3>2. db[From(m)] # None /\ partial[To(m)] = db[From(m)]
      BY <1>3, <1>4, <3>1 DEF MoveCarries, At, LockedStages
    <3>3. Carries(log'[To(m)], db[From(m)], Mark(attempts + 1))
      BY <2>4, <3>2, OpenedCarries
    <3>4. db' = db /\ attempts' = attempts + 1
      BY <2>4 DEF OpenCopy
    <3> QED
      BY <1>6, <3>1, <3>3, <3>4 DEF MoveCarries, At, From, To
  <2>5. CASE CloseCopy(m)
    <3>1. mover'[m].at = "checked" /\ mover'[m].from = From(m) /\ mover'[m].to = To(m)
          /\ mover[m].at = "checking"
      BY <1>1, <2>5, MoverGoesOn DEF CloseCopy, Places, At
    <3>2. UNCHANGED <<db, attempts>> /\ partial' = [partial EXCEPT ![To(m)] = log[To(m)]]
      BY <2>5 DEF CloseCopy, dataDirCounters
    <3> QED
      BY <1>1, <1>3, <1>6, <3>1, <3>2 DEF MoveCarries, At, From, To
  <2>6. CASE WriteJournal(m)
    <3>1. mover'[m].at = "journaled" /\ mover'[m].from = From(m) /\ mover'[m].to = To(m)
          /\ mover[m].at = "checked"
      BY <1>1, <2>6, MoverGoesOn DEF WriteJournal, Places, At
    <3>2. UNCHANGED <<db, partial, attempts>>
      BY <2>6 DEF WriteJournal, dataDirCounters
    <3> QED
      BY <1>3, <1>6, <3>1, <3>2 DEF MoveCarries, At, From, To
  <2>7. CASE Rename(m)
    <3>1. mover'[m].at = "named" /\ mover'[m].from = From(m) /\ mover'[m].to = To(m)
          /\ mover[m].at = "journaled"
      BY <1>1, <2>7, MoverGoesOn DEF Rename, Places, At
    <3>2. UNCHANGED attempts /\ db' = [db EXCEPT ![To(m)] = partial[To(m)]]
      BY <2>7 DEF Rename, dataDirCounters
    <3>3. From(m) # To(m)
      BY <1>4, <3>1 DEF LockedStages
    <3>4. db'[To(m)] = partial[To(m)] /\ db'[From(m)] = db[From(m)]
      BY <1>1, <3>2, <3>3
    <3> QED
      BY <1>3, <1>6, <3>1, <3>2, <3>4 DEF MoveCarries, At, From, To
  <2> QED
    BY <1>14, <2>1, <2>2, <2>3, <2>4, <2>5, <2>6, <2>7 DEF MoveStep
<1> QED
  BY <1>8, <1>9, <1>10, <1>11, <1>12, <1>13, <1>14 DEF DataDirNext

\* For whoever follows the pointer there are commits, and moves in one step.
LEMMA MovableStep ==
    ASSUME SoleMover, FolderInv, FolderInv', BooksInv, DataDirNext
    PROVE  ImplementedBooks!Next \/ UNCHANGED <<pointer, db[pointer]>>
<1> USE FoldersAssumption
<1>1. /\ user \in [Users -> UserRow]
      /\ db \in [Folders -> Content \cup {None}]
      /\ pointer \in Folders /\ db[pointer] # None
      /\ \A m \in Movers : From(m) \in Folders /\ To(m) \in Folders
  BY DEF FolderInv, DataDirTypeOK, PointerNamesBooks, UserRow, From, To
<1>2. \A m \in Movers : MoveStands(m) /\ MoveCarries(m)
  BY DEF FolderInv, BooksInv
<1>3. ASSUME NEW m \in Movers, SwapPointer(m) PROVE ImplementedBooks!Next
  <2>1. mover[m].at = "named" /\ pointer' = To(m) /\ db' = db
    BY <1>3 DEF SwapPointer, At, fileVars
  <2>2. pointer = From(m) /\ To(m) # pointer
    BY <1>2, <2>1 DEF MoveStands, DirAfter, At
  <2> DEFINE own == Mark(attempts)
  <2>3. Carries(db[To(m)], db[From(m)], own)
    BY <1>2, <2>1 DEF MoveCarries, At
  <2> HIDE DEF own
  <2>4. db'[pointer'] = db[To(m)] /\ db[pointer] = db[From(m)]
    BY <2>1, <2>2
  <2>5. own \in Marks /\ own \notin db[pointer]
    BY <2>3, <2>4 DEF Carries
  <2>6. CASE Whole(db[To(m)], db[From(m)], own)
    <3>1. ImplementedBooks!Move(To(m))
      BY <2>1, <2>2, <2>4, <2>5, <2>6 DEF ImplementedBooks!Move, Whole, Marks, UserCommits
    <3> QED
      BY <1>1, <3>1 DEF ImplementedBooks!Next
  <2>7. CASE Spoilt(db[To(m)], db[From(m)], own)
    <3>1. PICK dead \in Marks : dead \notin db[pointer] /\ dead # own
                                /\ {own, dead} \subseteq db'[pointer']
      BY <2>4, <2>7 DEF Spoilt
    <3>2. ImplementedBooks!Spoil(To(m))
      BY <2>1, <2>2, <2>5, <3>1 DEF ImplementedBooks!Spoil, Marks
    <3> QED
      BY <1>1, <3>2 DEF ImplementedBooks!Next
  <2> QED
    BY <2>3, <2>6, <2>7 DEF Carries
<1>4. ASSUME NEW u \in Users, Commit(u)
      PROVE  ImplementedBooks!Next \/ UNCHANGED <<pointer, db[pointer]>>
  <2>1. /\ commits \in Nat /\ commits < MaxCommits /\ pointer' = pointer
        /\ \/ db'[pointer] = db[pointer]
           \/ db'[pointer] = db[pointer] \cup {UserCommit(commits + 1)}
    BY <1>1, <1>4, CommitAdds
  <2>2. UserCommit(commits + 1) \in UserCommits
    <3>1. commits + 1 \in 1..MaxCommits
      BY <2>1
    <3> QED
      BY <3>1, ChangesDiffer
  <2>3. UserCommit(commits + 1) \notin db[pointer]
    <3>1. attempts \in Nat
      BY DEF FolderInv, DataDirTypeOK
    <3>2. UserCommit(commits + 1) \notin Recorded(commits, attempts)
      BY <2>1, <3>1, NewChanges
    <3> QED
      BY <1>1, <3>2 DEF BooksInv, AllTraced, Traced
  <2>4. CASE db'[pointer] = db[pointer] \cup {UserCommit(commits + 1)}
    <3>1. ImplementedBooks!Commit
      BY <2>1, <2>2, <2>3, <2>4 DEF ImplementedBooks!Commit, UserCommits
    <3> QED
      BY <3>1 DEF ImplementedBooks!Next
  <2> QED
    BY <2>1, <2>4
<1>5. ASSUME NEW f \in Folders, f # pointer, pointer' = pointer, NEW content,
             db' = db \/ db' = [db EXCEPT ![f] = content]
      PROVE  UNCHANGED <<pointer, db[pointer]>>
  BY <1>1, <1>5
<1>6. ASSUME NEW u \in Users, Open(u) PROVE UNCHANGED <<pointer, db[pointer]>>
  BY <1>1, <1>6 DEF Open
<1>7. ASSUME NEW u \in Users, Start(u) \/ Leave(u) PROVE UNCHANGED <<pointer, db[pointer]>>
  BY <1>7 DEF Start, Leave, fileVars
<1>8. ASSUME NEW f \in Folders, TheirsAppear(f) PROVE UNCHANGED <<pointer, db[pointer]>>
  BY <1>5, <1>8 DEF TheirsAppear
<1>9. ASSUME NEW m \in Movers, NEW to \in Folders, Resolve(m, to)
      PROVE  UNCHANGED <<pointer, db[pointer]>>
  BY <1>9 DEF Resolve, fileVars
<1>10. ASSUME NEW m \in Movers, Crash(m) PROVE UNCHANGED <<pointer, db[pointer]>>
  BY <1>10 DEF Crash
<1>11. ASSUME NEW m \in Movers, MoveStep(m), ~SwapPointer(m)
       PROVE  UNCHANGED <<pointer, db[pointer]>>
  <2>1. CASE RefuseTarget(m) \/ RefuseBusy(m) \/ CopyDatabase(m) \/ OpenCopy(m) \/ CopyIsBroken(m)
             \/ CloseCopy(m) \/ WriteJournal(m) \/ Unlock(m) \/ Finish(m)
    BY <2>1 DEF RefuseTarget, RefuseBusy, CopyDatabase, OpenCopy, CopyIsBroken, CloseCopy,
                WriteJournal, Unlock, Finish, fileVars
  <2>2. CASE ClearTarget(m) \/ Rename(m)
    <3>1. To(m) # pointer
      BY <1>1, <1>2, <2>2 DEF ClearTarget, Rename, MoveStands, DirAfter, At
    <3> QED
      BY <1>1, <1>5, <2>2, <3>1 DEF ClearTarget, Rename
  <2>3. CASE LockSource(m)
    <3>1. pointer' = pointer /\ db' = [db EXCEPT ![From(m)] = IF @ = None THEN {} ELSE @]
      BY <2>3 DEF LockSource
    <3> QED
      BY <1>1, <3>1
  <2>4. CASE RemoveOld(m)
    <3>1. From(m) # pointer
      BY <1>1, <1>2, <2>4 DEF RemoveOld, MoveStands, DirAfter, At
    <3> QED
      BY <1>1, <1>5, <2>4, <3>1 DEF RemoveOld
  <2> QED
    BY <1>11, <2>1, <2>2, <2>3, <2>4 DEF MoveStep
<1> QED
  BY <1>3, <1>4, <1>6, <1>7, <1>8, <1>9, <1>10, <1>11 DEF DataDirNext

\* Whoever follows the pointer sees one book: its users add to it, and a move takes it
\* elsewhere in one step, whole or with the mark of an attempt that died (prepare_copy,
\* begin_commit, commit_move, finish_move).
THEOREM FolderImplementsBooks ==
    ASSUME SoleMover
    PROVE  DataDirSpec => ImplementsMovableBooks
<1>1. DataDirInit => BooksInv
  <2> SUFFICES ASSUME DataDirInit PROVE BooksInv
    OBVIOUS
  <2>1. AllTraced
    BY FoldersAssumption DEF DataDirInit, AllTraced, Traced
  <2>2. LockHolds /\ \A m \in Movers : MoveCarries(m)
    BY FoldersAssumption DEF DataDirInit, LockHolds, LockedStages, MoveCarries, At, From, Idle
  <2>3. LogsApart
    BY DEF DataDirInit, LogsApart
  <2> QED
    BY <2>1, <2>2, <2>3 DEF BooksInv
<1>2. FolderInv /\ FolderInv' /\ BooksInv /\ [DataDirNext]_dataDirVars => BooksInv'
  <2>1. CASE UNCHANGED dataDirVars
    BY <2>1 DEF dataDirVars, fileVars, dataDirCounters, BooksInv, AllTraced, Traced, LockHolds,
                LogsApart, Has, MoveCarries, At, From, To
  <2>2. CASE DataDirNext
    BY <2>2, TracesStay, LocksStay, LogsStayApart, CarriedStays DEF BooksInv
  <2> QED
    BY <2>1, <2>2
<1>3. DataDirInit => ImplementedBooks!Init
  BY FoldersAssumption DEF DataDirInit, ImplementedBooks!Init
<1>4. FolderInv /\ FolderInv' /\ BooksInv /\ [DataDirNext]_dataDirVars
          => [ImplementedBooks!Next]_<<pointer, db[pointer]>>
  <2>1. CASE UNCHANGED dataDirVars
    BY <2>1 DEF dataDirVars, fileVars
  <2>2. CASE DataDirNext
    BY <2>2, MovableStep
  <2> QED
    BY <2>1, <2>2
<1> QED
  BY <1>1, <1>2, <1>3, <1>4, FolderInvariant, PTL
     DEF DataDirSpec, ImplementsMovableBooks, ImplementedBooks!Spec

-----------------------------------------------------------------------------
(***************************************************************************)
(* What holds of the operation log for any rows, wall clocks, sealers and  *)
(* keys, proved: however captures, sealings, clock steps and new keys      *)
(* interleave, replaying the log and the outbox gives the tables.          *)
(***************************************************************************)
Entries == [seq : Nat, row : Rows, deleted : BOOLEAN]
Stamps == [wall : Nat, counter : Nat]
Ops == [row : Rows, contents : Nat, author : Nat, stamp : Stamps]

LogTyped ==
    /\ rows \in [Rows -> [write : Nat, there : BOOLEAN]]
    /\ writes \in Nat
    /\ outbox \in SUBSET Entries
    /\ oplog \in SUBSET Ops
    /\ clock \in Stamps
    /\ now \in 0..MaxWall
    /\ key \in Nat
    /\ keys \in Nat
    /\ listed \in [Sealers -> SUBSET Entries]

\* What was noted, in the outbox or on a list: by writes there were, each by its own,
\* of rows that were written, and of rows that are gone when it says so.
NotedBy(entries) ==
    /\ IsFiniteSet(entries)
    /\ \A e \in entries :
           /\ e.seq \in 1..writes
           /\ rows[e.row].write # 0
           /\ e.deleted => ~rows[e.row].there
    /\ \A e, f \in entries : e.seq = f.seq => e = f
Noted == NotedBy(outbox) /\ \A p \in Sealers : NotedBy(listed[p])

\* A list holds everything that is in the outbox up to its last entry.
ListsReachBack ==
    \A p \in Sealers : \A e \in outbox, f \in listed[p] : e.seq <= f.seq => e \in listed[p]

\* The clock is ahead of every stamp; only written rows have operations; a fact that
\* was written is there, and every operation on it says what it is.
LogFollows ==
    /\ \A r \in Rows : rows[r].write <= writes /\ (rows[r].there => rows[r].write # 0)
    /\ \A op \in oplog : ~After(op.stamp, clock) /\ rows[op.row].write # 0
    /\ \A r \in Facts : rows[r].write # 0 => rows[r].there
    /\ \A op \in oplog : op.row \in Facts => op.contents = rows[op.row].write

Told(r) == IF rows[r].there THEN rows[r].write ELSE 0

\* A row with nothing in the outbox is what the log says it is.
Settled ==
    \A r \in Rows : (\A e \in outbox : e.row # r) =>
        /\ rows[r].write = 0 <=> OpsOn(r) = {}
        /\ \A op \in Newest(r) : op.contents = Told(r)

KeysInOrder == /\ \A op \in oplog : op.author \in 1..keys
               /\ key \in 0..keys /\ keys \in 0..MaxKey /\ writes \in 0..MaxWrites

LogInv == LogTyped /\ Noted /\ ListsReachBack /\ LogFollows /\ Settled /\ KeysInOrder

-----------------------------------------------------------------------------
\* Of numbers with a bound there is a largest.
LEMMA LargestBelow ==
    ASSUME NEW n \in Nat, NEW S \in SUBSET (0..n), S # {}
    PROVE  \E m \in S : \A s \in S : s <= m
<1> DEFINE B == {d \in Nat : n - d \in S}
<1>1. B \in SUBSET Nat /\ B # {}
  <2>1. PICK s \in S : TRUE
    OBVIOUS
  <2>2. s \in 0..n /\ n - s \in Nat /\ n - (n - s) = s
    BY <2>1
  <2> QED
    BY <2>1, <2>2
<1>2. PICK d \in B : \A e \in B : <<e, d>> \notin OpToRel(<, Nat)
  <2> HIDE DEF B
  <2> QED
    BY <1>1, NatLessThanWellFounded, WFMin
<1>3. d \in Nat /\ n - d \in S
  BY <1>1
<1>4. ASSUME NEW s \in S
      PROVE  s <= n - d
  <2>1. s \in 0..n /\ n - s \in Nat /\ n - (n - s) = s
    OBVIOUS
  <2>2. n - s \in B
    BY <2>1
  <2>3. ~(n - s < d)
    BY <1>2, <1>3, <2>1, <2>2 DEF OpToRel
  <2> QED
    BY <1>3, <2>1, <2>3
<1> QED
  BY <1>3, <1>4

\* The last of some entries, and the last one on each row.
LEMMA LastEntry ==
    ASSUME NEW entries \in SUBSET Entries, entries # {}, writes \in Nat, NotedBy(entries)
    PROVE  \E e \in entries : \A f \in entries : f.seq <= e.seq
<1> DEFINE S == {e.seq : e \in entries}
<1>1. S \in SUBSET (0..writes) /\ S # {}
  BY DEF NotedBy
<1>2. PICK m \in S : \A s \in S : s <= m
  <2> HIDE DEF S
  <2> QED
    BY <1>1, LargestBelow
<1> QED
  BY <1>2

LEMMA HighWaterIsLast ==
    ASSUME NEW entries \in SUBSET Entries, entries # {}, writes \in Nat, NotedBy(entries)
    PROVE  \E f \in entries : HighWater(entries) = f.seq /\ \A e \in entries : e.seq <= f.seq
<1>1. \E e \in entries : \A f \in entries : f.seq <= e.seq
  BY LastEntry
<1>2. \E s \in {e.seq : e \in entries} : \A e \in entries : e.seq <= s
  BY <1>1
<1>3. /\ HighWater(entries) \in {e.seq : e \in entries}
      /\ \A e \in entries : e.seq <= HighWater(entries)
  BY <1>2 DEF HighWater
<1> QED
  BY <1>3

LEMMA KeptOfRow ==
    ASSUME NEW entries \in SUBSET Entries, writes \in Nat, NotedBy(entries), NEW e \in entries
    PROVE  \E k \in Coalesce(entries) : k.row = e.row
<1> DEFINE mine == {f \in entries : f.row = e.row}
<1>1. mine \in SUBSET Entries /\ mine # {}
  OBVIOUS
<1>2. NotedBy(mine)
  BY FS_Subset DEF NotedBy
<1>3. PICK k \in mine : \A f \in mine : f.seq <= k.seq
  <2> HIDE DEF mine
  <2> QED
    BY <1>1, <1>2, LastEntry
<1> QED
  BY <1>3 DEF Coalesce

LEMMA OneKept ==
    ASSUME NEW entries \in SUBSET Entries, NotedBy(entries),
           NEW k \in Coalesce(entries), NEW m \in Coalesce(entries), k.row = m.row
    PROVE  k = m
<1>1. k \in entries /\ m \in entries /\ k.seq \in Nat /\ m.seq \in Nat
  BY DEF Coalesce, Entries
<1>2. k.seq <= m.seq /\ m.seq <= k.seq
  BY DEF Coalesce
<1>3. k.seq = m.seq
  BY <1>1, <1>2
<1> QED
  BY <1>1, <1>3 DEF NotedBy

\* How many of the kept entries there are up to one of them.
LEMMA Ranks ==
    ASSUME NEW entries \in SUBSET Entries, NotedBy(entries), NEW e \in Coalesce(entries)
    PROVE  LET n == Cardinality({f \in Coalesce(entries) : f.seq <= e.seq})
           IN  /\ n \in Nat /\ n >= 1
               /\ Cardinality(Coalesce(entries)) \in Nat
               /\ n <= Cardinality(Coalesce(entries))
<1> DEFINE kept == Coalesce(entries)
           upto == {f \in kept : f.seq <= e.seq}
<1>1. kept \subseteq entries /\ upto \subseteq kept
  BY DEF Coalesce
<1>2. IsFiniteSet(kept)
  <2> HIDE DEF kept
  <2> QED
    BY <1>1, FS_Subset DEF NotedBy
<1>3. e \in upto
  <2>1. e.seq \in Nat
    BY <1>1 DEF Entries
  <2> QED
    BY <2>1
<1> HIDE DEF kept, upto
<1>4. IsFiniteSet(upto) /\ Cardinality(upto) <= Cardinality(kept)
  BY <1>1, <1>2, FS_Subset
<1>5. Cardinality(upto) \in Nat /\ Cardinality(kept) \in Nat
  BY <1>2, <1>4, FS_CardinalityType
<1>6. Cardinality(upto) # 0
  BY <1>3, <1>4, FS_EmptySet
<1> QED
  BY <1>4, <1>5, <1>6 DEF kept, upto

-----------------------------------------------------------------------------
\* The clock's next stamps are after everything it was not behind of.
LEMMA TicksOn ==
    ASSUME clock \in Stamps, now \in Nat, NEW n \in Nat, n >= 1
    PROVE  /\ Ticked(n) \in Stamps
           /\ \A s \in Stamps : ~After(s, clock) =>
                 After(Ticked(n), s) /\ ~After(s, Ticked(n))
           /\ \A m \in Nat : m >= 1 /\ m <= n => ~After(Ticked(m), Ticked(n))
BY DEF Ticked, After, Stamps

\* The operations of a seal: one per row of the list, saying what the row is.
LEMMA SealedSays ==
    ASSUME LogTyped, NEW entries \in SUBSET Entries, NotedBy(entries), NEW op \in Sealed(entries)
    PROVE  /\ op \in Ops
           /\ op.contents = Told(op.row)
           /\ op.author = key
           /\ \E e \in Coalesce(entries) : e \in entries /\ op.row = e.row
           /\ \E n \in Nat : /\ n >= 1
                             /\ n <= Cardinality(Coalesce(entries))
                             /\ op.stamp = Ticked(n)
<1> DEFINE kept == Coalesce(entries)
           rank(e) == Cardinality({f \in kept : f.seq <= e.seq})
<1>1. PICK e \in kept :
         op = [row |-> e.row, contents |-> ContentsOf(e), author |-> key, stamp |-> Ticked(rank(e))]
  BY DEF Sealed
<1>2. e \in entries /\ e.row \in Rows
  BY DEF Coalesce, Entries
<1>3. rank(e) \in Nat /\ rank(e) >= 1 /\ rank(e) <= Cardinality(kept)
  BY Ranks
<1> HIDE DEF rank, kept
<1>4. Ticked(rank(e)) \in Stamps
  BY <1>3, TicksOn DEF LogTyped
<1>5. rows[e.row].write \in Nat /\ rows[e.row].there \in BOOLEAN
  BY <1>2 DEF LogTyped
<1>6. ContentsOf(e) = Told(e.row)
  BY <1>2 DEF ContentsOf, Told, NotedBy
<1>7. Told(e.row) \in Nat
  BY <1>5 DEF Told
<1>8. op \in Ops
  BY <1>1, <1>2, <1>4, <1>6, <1>7 DEF Ops, LogTyped
<1> QED
  BY <1>1, <1>2, <1>3, <1>6, <1>8 DEF kept

\* Every row on the list gets an operation.
LEMMA SealedAll ==
    ASSUME LogTyped, NEW entries \in SUBSET Entries, NotedBy(entries), NEW e \in entries
    PROVE  \E op \in Sealed(entries) : op.row = e.row
<1>1. PICK k \in Coalesce(entries) : k.row = e.row
  BY KeptOfRow DEF LogTyped
<1> DEFINE op == [row |-> k.row, contents |-> ContentsOf(k), author |-> key,
                  stamp |-> Ticked(Cardinality({f \in Coalesce(entries) : f.seq <= k.seq}))]
<1>2. op \in Sealed(entries)
  BY DEF Sealed
<1>3. op.row = e.row
  BY <1>1
<1> QED
  BY <1>2, <1>3

-----------------------------------------------------------------------------
\* A write of a replicated row and the trigger's note of it.
LEMMA CaptureStep ==
    ASSUME LogInv, NEW r \in Rows, NEW gone \in BOOLEAN, Captured(r, gone),
           gone => rows[r].there /\ r \notin Facts,
           ~gone => rows[r].write = 0 \/ (rows[r].there /\ r \notin Facts),
           rows' \in [Rows -> [write : Nat, there : BOOLEAN]],
           \A s \in Rows : s # r => rows'[s] = rows[s],
           rows'[r].write = (IF gone THEN rows[r].write ELSE writes + 1),
           rows'[r].there = ~gone
    PROVE  LogInv'
<1> DEFINE new == [seq |-> writes + 1, row |-> r, deleted |-> gone]
<1> USE DEF LogInv
<1>0. /\ rows \in [Rows -> [write : Nat, there : BOOLEAN]]
      /\ writes \in Nat
      /\ rows[r].write \in Nat
      /\ rows[r].write <= writes
  BY DEF LogTyped, LogFollows
<1>1. /\ writes' = writes + 1 /\ writes' \in Nat /\ writes < MaxWrites
      /\ outbox' = outbox \cup {new}
      /\ UNCHANGED <<oplog, clock, now, key, keys, listed>>
  BY <1>0 DEF Captured
<1>2. new \in Entries /\ new.seq = writes + 1 /\ new.row = r /\ new.deleted = gone
  BY <1>0 DEF Entries
<1> HIDE DEF new
<1>3. /\ \A s \in Rows : s # r => rows'[s] = rows[s]
      /\ rows'[r].write = IF gone THEN rows[r].write ELSE writes + 1
      /\ rows'[r].there = ~gone
      /\ rows' \in [Rows -> [write : Nat, there : BOOLEAN]]
  BY <1>0
<1>4. gone => rows[r].write # 0
  BY DEF LogFollows
<1>5. ASSUME NEW entries \in SUBSET Entries, NotedBy(entries)
      PROVE  /\ IsFiniteSet(entries)
             /\ \A e \in entries :
                    /\ e.seq \in 1..writes'
                    /\ rows'[e.row].write # 0
                    /\ e.deleted => ~rows'[e.row].there
             /\ \A e, f \in entries : e.seq = f.seq => e = f
  <2>1. ASSUME NEW e \in entries
        PROVE  /\ e.seq \in 1..writes'
               /\ rows'[e.row].write # 0
               /\ e.deleted => ~rows'[e.row].there
    <3>1. /\ e.seq \in 1..writes
          /\ e.row \in Rows
          /\ rows[e.row].write # 0
          /\ e.deleted => ~rows[e.row].there
      BY <1>5 DEF NotedBy, Entries
    <3>2. e.seq \in 1..writes'
      BY <1>0, <1>1, <3>1
    <3>3. CASE e.row # r
      BY <1>3, <3>1, <3>2, <3>3
    <3>4. CASE e.row = r
      BY <1>0, <1>3, <3>1, <3>2, <3>4
    <3> QED
      BY <3>3, <3>4
  <2> QED
    BY <1>5, <2>1 DEF NotedBy
<1>6. LogTyped'
  <2>1. outbox' \in SUBSET Entries
    BY <1>1, <1>2 DEF LogTyped
  <2> QED
    BY <1>1, <1>3, <2>1 DEF LogTyped
<1>7. Noted'
  <2>1. ASSUME NEW p \in Sealers
        PROVE  NotedBy(listed[p])'
    <3>1. listed[p] \in SUBSET Entries /\ NotedBy(listed[p])
      BY DEF LogTyped, Noted
    <3> QED
      BY <1>1, <1>5, <3>1 DEF NotedBy
  <2>2. NotedBy(outbox)'
    <3>1. outbox \in SUBSET Entries /\ NotedBy(outbox)
      BY DEF LogTyped, Noted
    <3>2. IsFiniteSet(outbox')
      BY <1>1, <3>1, FS_AddElement DEF NotedBy
    <3>3. /\ new.seq \in 1..writes'
          /\ rows'[new.row].write # 0
          /\ new.deleted => ~rows'[new.row].there
      <4>1. new.seq \in 1..writes'
        BY <1>0, <1>1, <1>2
      <4>2. rows'[r].write # 0
        BY <1>0, <1>3, <1>4
      <4>3. gone => ~rows'[r].there
        BY <1>3
      <4> QED
        BY <1>2, <4>1, <4>2, <4>3
    <3>4. \A e \in outbox : e.seq # new.seq
      BY <1>0, <1>2, <3>1 DEF NotedBy
    <3>5. \A e, f \in outbox' : e.seq = f.seq => e = f
      BY <1>1, <1>5, <3>1, <3>4
    <3>6. \A e \in outbox' : /\ e.seq \in 1..writes'
                             /\ rows'[e.row].write # 0
                             /\ e.deleted => ~rows'[e.row].there
      BY <1>1, <1>5, <3>1, <3>3
    <3> QED
      BY <3>2, <3>5, <3>6 DEF NotedBy
  <2> QED
    BY <1>1, <2>1, <2>2 DEF Noted
<1>8. ListsReachBack'
  <2>1. \A p \in Sealers : \A f \in listed[p] : f.seq \in 1..writes
    BY DEF Noted, NotedBy
  <2>2. \A p \in Sealers : \A f \in listed[p] : ~(new.seq <= f.seq)
    BY <1>0, <1>2, <2>1
  <2> QED
    BY <1>1, <2>2 DEF ListsReachBack
<1>9. LogFollows'
  <2>1. \A s \in Rows : rows'[s].write <= writes' /\ (rows'[s].there => rows'[s].write # 0)
    <3> TAKE s \in Rows
    <3>1. rows[s].write \in Nat /\ rows[s].write <= writes /\ (rows[s].there => rows[s].write # 0)
      BY DEF LogTyped, LogFollows
    <3>2. CASE s = r
      <4>1. rows'[r].write <= writes'
        BY <1>0, <1>1, <1>3
      <4>2. rows'[r].write # 0
        BY <1>0, <1>3, <1>4
      <4> QED
        BY <3>2, <4>1, <4>2
    <3>3. CASE s # r
      BY <1>0, <1>1, <1>3, <3>1, <3>3
    <3> QED
      BY <3>2, <3>3
  <2>2. \A op \in oplog : op.row \in Rows /\ rows[op.row].write # 0 /\ ~After(op.stamp, clock)
    BY DEF LogTyped, LogFollows, Ops
  <2>3. \A op \in oplog : rows'[op.row].write # 0
    BY <1>0, <1>1, <1>3, <2>2
  <2>4. \A s \in Facts : rows'[s].write # 0 => rows'[s].there
    BY <1>3, OplogAssumption DEF LogFollows
  <2>5. \A op \in oplog : op.row \in Facts => op.contents = rows'[op.row].write
    <3> SUFFICES ASSUME NEW op \in oplog, op.row \in Facts
                 PROVE  op.contents = rows'[op.row].write
      OBVIOUS
    <3>1. op.row # r
      BY <2>2
    <3> QED
      BY <1>3, <2>2, <3>1 DEF LogFollows
  <2>6. \A op \in oplog : ~After(op.stamp, clock')
    BY <1>1, <2>2
  <2> QED
    BY <1>1, <2>1, <2>3, <2>4, <2>5, <2>6 DEF LogFollows
<1>10. Settled'
  <2> SUFFICES ASSUME NEW s \in Rows, \A e \in outbox' : e.row # s
               PROVE  /\ rows'[s].write = 0 <=> OpsOn(s)' = {}
                      /\ \A op \in Newest(s)' : op.contents = Told(s)'
    BY DEF Settled
  <2>1. s # r /\ \A e \in outbox : e.row # s
    BY <1>1, <1>2
  <2>2. OpsOn(s)' = OpsOn(s) /\ Newest(s)' = Newest(s)
    BY <1>1 DEF OpsOn, Newest, After
  <2>3. Told(s)' = Told(s) /\ rows'[s] = rows[s]
    BY <1>3, <2>1 DEF Told
  <2> QED
    BY <2>1, <2>2, <2>3 DEF Settled
<1>11. KeysInOrder'
  BY <1>0, <1>1, OplogAssumption DEF KeysInOrder
<1> QED
  BY <1>6, <1>7, <1>8, <1>9, <1>10, <1>11

\* The clock, the keys and a list alone.
LEMMA QuietStep ==
    ASSUME LogInv, SystemClock \/ KeyChanges \/ UNCHANGED oplogVars
    PROVE  LogInv'
<1> USE DEF LogInv
<1>1. UNCHANGED <<rows, writes, outbox, oplog, clock, listed>>
  BY DEF SystemClock, KeyChanges, oplogVars
<1>2. /\ now' \in 0..MaxWall /\ key' \in Nat /\ keys' \in Nat /\ keys' >= keys
      /\ key' \in 0..keys' /\ keys' \in 0..MaxKey
  BY OplogAssumption DEF SystemClock, KeyChanges, oplogVars, LogTyped, KeysInOrder
<1>3. LogTyped' /\ KeysInOrder'
  BY <1>1, <1>2 DEF LogTyped, KeysInOrder
<1>4. Noted' /\ ListsReachBack'
  BY <1>1 DEF Noted, NotedBy, ListsReachBack
<1>5. LogFollows' /\ Settled'
  BY <1>1 DEF LogFollows, Settled, OpsOn, Newest, After, Told
<1> QED
  BY <1>3, <1>4, <1>5

LEMMA ListStep ==
    ASSUME LogInv, NEW p \in Sealers, DrainList(p) \/ SealFails(p)
    PROVE  LogInv'
<1> USE DEF LogInv
<1>1. UNCHANGED <<rows, writes, outbox, oplog, clock, now, key, keys>>
  BY DEF DrainList, SealFails
<1>2. listed' = [listed EXCEPT ![p] = outbox] \/ listed' = [listed EXCEPT ![p] = {}]
  BY DEF DrainList, SealFails
<1>3. listed \in [Sealers -> SUBSET Entries] /\ outbox \in SUBSET Entries
  BY DEF LogTyped
<1>4. /\ listed' \in [Sealers -> SUBSET Entries]
      /\ \A q \in Sealers : listed'[q] \in {listed[q], outbox, {}}
      /\ \A q \in Sealers : listed'[q] = listed[q] \/ listed'[q] = outbox \/ listed'[q] = {}
  BY <1>2, <1>3
<1>5. LogTyped' /\ KeysInOrder'
  BY <1>1, <1>4 DEF LogTyped, KeysInOrder
<1>6. Noted'
  <2>1. NotedBy({})
    BY FS_EmptySet DEF NotedBy
  <2>2. \A q \in Sealers : NotedBy(listed'[q])
    BY <1>4, <2>1 DEF Noted
  <2> QED
    BY <1>1, <2>2 DEF Noted, NotedBy
<1>7. ListsReachBack'
  BY <1>1, <1>4 DEF ListsReachBack
<1>8. LogFollows' /\ Settled'
  BY <1>1 DEF LogFollows, Settled, OpsOn, Newest, After, Told
<1> QED
  BY <1>5, <1>6, <1>7, <1>8

-----------------------------------------------------------------------------
\* A seal's transaction.
LEMMA SealStep ==
    ASSUME LogInv, NEW p \in Sealers, Seal(p)
    PROVE  LogInv'
<1> DEFINE list == listed[p]
           new == Sealed(list)
           size == Cardinality(Coalesce(list))
<1> USE DEF LogInv
<1>1. /\ list # {}
      /\ oplog' = oplog \cup new
      /\ clock' = Ticked(size)
      /\ outbox' = Drained(list)
      /\ listed' = [listed EXCEPT ![p] = {}]
      /\ UNCHANGED <<rows, writes, now, key, keys>>
      /\ key # 0
  BY DEF Seal
<1>2. /\ list \in SUBSET Entries /\ NotedBy(list)
      /\ writes \in Nat
      /\ outbox \in SUBSET Entries /\ NotedBy(outbox)
      /\ listed \in [Sealers -> SUBSET Entries]
      /\ oplog \in SUBSET Ops
      /\ clock \in Stamps
      /\ now \in Nat
  BY DEF LogTyped, Noted
<1>3. \A q \in Sealers : listed'[q] = {} \/ (listed'[q] = listed[q] /\ q # p)
  BY <1>1, <1>2
<1> HIDE DEF list
<1>4. /\ \A op \in new : /\ op \in Ops
                         /\ op.contents = Told(op.row)
                         /\ op.author = key
      /\ \A op \in new : \E e \in list : op.row = e.row
      /\ \A op \in new : \E n \in Nat : n >= 1 /\ n <= size /\ op.stamp = Ticked(n)
  BY <1>2, SealedSays
<1>5. \A e \in list : \E op \in new : op.row = e.row
  BY <1>2, SealedAll
<1>6. PICK last \in list : HighWater(list) = last.seq /\ \A e \in list : e.seq <= last.seq
  BY <1>1, <1>2, HighWaterIsLast
<1>7. outbox' = {e \in outbox : e.seq > last.seq}
  BY <1>1, <1>6 DEF Drained
<1>8. size \in Nat /\ size >= 1
  <2>1. PICK k \in Coalesce(list) : TRUE
    BY <1>2, <1>6, KeptOfRow
  <2> DEFINE n == Cardinality({f \in Coalesce(list) : f.seq <= k.seq})
  <2>2. n \in Nat /\ n >= 1 /\ size \in Nat /\ n <= size
    BY <1>2, <2>1, Ranks
  <2> HIDE DEF n, size
  <2> QED
    BY <2>2
<1> HIDE DEF new, size
<1>9. clock' \in Stamps /\ \A s \in Stamps : ~After(s, clock) => ~After(s, clock')
  BY <1>1, <1>2, <1>8, TicksOn
\* The new stamps are after every stamp there was, and not after the new clock.
<1>10. ASSUME NEW op \in new
       PROVE  /\ ~After(op.stamp, clock')
              /\ \A s \in Stamps : ~After(s, clock) => After(op.stamp, s)
  <2>1. PICK n \in Nat : n >= 1 /\ n <= size /\ op.stamp = Ticked(n)
    BY <1>4
  <2>2. ~After(Ticked(n), Ticked(size))
    BY <1>2, <1>8, <2>1, TicksOn
  <2>3. \A s \in Stamps : ~After(s, clock) => After(Ticked(n), s)
    BY <1>2, <2>1, TicksOn
  <2> QED
    BY <1>1, <2>1, <2>2, <2>3
<1>11. LogTyped'
  <2>1. oplog' \in SUBSET Ops
    BY <1>1, <1>2, <1>4
  <2>2. outbox' \in SUBSET Entries
    BY <1>2, <1>7
  <2>3. listed' \in [Sealers -> SUBSET Entries]
    BY <1>1, <1>2
  <2> QED
    BY <1>1, <1>9, <2>1, <2>2, <2>3 DEF LogTyped
<1>12. Noted'
  <2>1. NotedBy({})
    BY FS_EmptySet DEF NotedBy
  <2>2. \A q \in Sealers : NotedBy(listed'[q])
    BY <1>3, <2>1 DEF Noted
  <2>3. NotedBy(outbox')
    BY <1>2, <1>7, FS_Subset DEF NotedBy
  <2> QED
    BY <1>1, <2>2, <2>3 DEF Noted, NotedBy
<1>13. ListsReachBack'
  BY <1>3, <1>7 DEF ListsReachBack
<1>14. KeysInOrder'
  <2>1. key \in 1..keys
    BY <1>1 DEF KeysInOrder, LogTyped
  <2> QED
    BY <1>1, <1>4, <2>1 DEF KeysInOrder
<1>15. LogFollows'
  <2>1. \A op \in new : rows[op.row].write # 0
    BY <1>2, <1>4 DEF NotedBy
  <2>2. \A op \in new : op.row \in Facts => op.contents = rows[op.row].write
    BY <1>4, <2>1 DEF LogFollows, Told
  <2>3. \A op \in oplog : ~After(op.stamp, clock')
    BY <1>2, <1>9 DEF LogFollows, Ops
  <2> QED
    BY <1>1, <1>10, <2>1, <2>2, <2>3 DEF LogFollows
<1>16. Settled'
  <2> SUFFICES ASSUME NEW r \in Rows, \A e \in outbox' : e.row # r
               PROVE  /\ rows'[r].write = 0 <=> OpsOn(r)' = {}
                      /\ \A op \in Newest(r)' : op.contents = Told(r)'
    BY DEF Settled
  <2>0. rows' = rows /\ Told(r)' = Told(r)
    BY <1>1 DEF Told
  <2>1. CASE \E e \in list : e.row = r
    <3>1. PICK made \in new : made.row = r
      BY <1>5, <2>1
    <3>2. OpsOn(r)' # {}
      BY <1>1, <3>1 DEF OpsOn
    <3>3. rows[r].write # 0
      BY <1>2, <2>1 DEF NotedBy
    <3>4. ASSUME NEW op \in Newest(r)'
          PROVE  op.contents = Told(r)
      <4>1. op \in oplog' /\ op.row = r /\ ~After(made.stamp, op.stamp)
        BY <1>1, <3>1 DEF Newest, OpsOn, After
      <4>2. op \notin oplog
        BY <1>2, <1>10, <4>1 DEF LogFollows, Ops
      <4> QED
        BY <1>1, <1>4, <4>1, <4>2
    <3> QED
      BY <2>0, <3>2, <3>3, <3>4
  <2>2. CASE \A e \in list : e.row # r
    <3>1. \A op \in new : op.row # r
      BY <1>4, <2>2
    <3>2. OpsOn(r)' = OpsOn(r)
      BY <1>1, <3>1 DEF OpsOn
    <3>3. Newest(r)' = Newest(r)
      BY <3>2 DEF Newest, After
    <3>4. \A e \in outbox : e.row # r
      <4> SUFFICES ASSUME NEW e \in outbox, e.row = r PROVE FALSE
        OBVIOUS
      <4>1. e.seq \in Nat /\ last.seq \in Nat
        BY <1>2 DEF Entries
      <4>2. e.seq <= last.seq
        BY <1>7, <4>1
      <4>3. e \in list
        BY <1>6, <4>2 DEF ListsReachBack, list
      <4> QED
        BY <2>2, <4>3
    <3> QED
      BY <2>0, <3>2, <3>3, <3>4 DEF Settled
  <2> QED
    BY <2>1, <2>2
<1> QED
  BY <1>11, <1>12, <1>13, <1>14, <1>15, <1>16

LEMMA LogStep ==
    ASSUME LogInv, [OplogNext]_oplogVars
    PROVE  LogInv'
<1>1. ASSUME NEW r \in Rows, Write(r)
      PROVE  LogInv'
  <2>1. /\ Captured(r, FALSE)
        /\ rows[r].write = 0 \/ (rows[r].there /\ r \notin Facts)
        /\ rows' = [rows EXCEPT ![r] = [write |-> writes + 1, there |-> TRUE]]
    BY <1>1 DEF Write
  <2>2. rows \in [Rows -> [write : Nat, there : BOOLEAN]] /\ writes \in Nat
    BY DEF LogInv, LogTyped
  <2>3. /\ rows' \in [Rows -> [write : Nat, there : BOOLEAN]]
        /\ \A s \in Rows : s # r => rows'[s] = rows[s]
        /\ rows'[r].write = writes + 1
        /\ rows'[r].there
    BY <2>1, <2>2
  <2>4. PICK gone \in BOOLEAN : gone = FALSE
    OBVIOUS
  <2>5. rows'[r].there = ~gone
    BY <2>3, <2>4
  <2> QED
    BY <2>1, <2>3, <2>4, <2>5, CaptureStep
<1>2. ASSUME NEW r \in Rows, Delete(r)
      PROVE  LogInv'
  <2>1. /\ Captured(r, TRUE)
        /\ rows[r].there /\ r \notin Facts
        /\ rows' = [rows EXCEPT ![r].there = FALSE]
    BY <1>2 DEF Delete
  <2>2. rows \in [Rows -> [write : Nat, there : BOOLEAN]]
    BY DEF LogInv, LogTyped
  <2>3. /\ rows' \in [Rows -> [write : Nat, there : BOOLEAN]]
        /\ \A s \in Rows : s # r => rows'[s] = rows[s]
        /\ rows'[r].write = rows[r].write
        /\ ~rows'[r].there
    BY <2>1, <2>2
  <2>4. PICK gone \in BOOLEAN : gone = TRUE
    OBVIOUS
  <2>5. rows'[r].there = ~gone
    BY <2>3, <2>4
  <2> QED
    BY <2>1, <2>3, <2>4, <2>5, CaptureStep
<1> QED
  BY <1>1, <1>2, QuietStep, ListStep, SealStep DEF OplogNext

LEMMA LogHolds == OplogSpec => []LogInv
<1>1. OplogInit => LogInv
  <2> SUFFICES ASSUME OplogInit PROVE LogInv
    OBVIOUS
  <2>1. LogTyped /\ KeysInOrder
    BY OplogAssumption DEF OplogInit, LogTyped, KeysInOrder, Stamps
  <2>2. Noted /\ ListsReachBack
    BY FS_EmptySet DEF OplogInit, Noted, NotedBy, ListsReachBack
  <2>3. LogFollows
    BY OplogAssumption DEF OplogInit, LogFollows
  <2>4. Settled
    BY DEF OplogInit, Settled, OpsOn, Newest
  <2> QED
    BY <2>1, <2>2, <2>3, <2>4 DEF LogInv
<1>2. LogInv /\ [OplogNext]_oplogVars => LogInv'
  BY LogStep
<1> QED
  BY <1>1, <1>2, PTL DEF OplogSpec

\* OplogTypeOK: what the triggers, seal and the clock write is what the tables may hold.
THEOREM OplogTyped == OplogSpec => []OplogTypeOK
<1>1. LogInv => OplogTypeOK
  BY DEF LogInv, LogTyped, Noted, NotedBy, LogFollows, KeysInOrder, OplogTypeOK
<1> QED
  BY <1>1, LogHolds, PTL

\* ReplayGivesTheTables: of every row that waits for no sealing the log's newest
\* operations tell what the row is, whoever sealed in between (seal, capture triggers).
THEOREM LogReplays == OplogSpec => []ReplayGivesTheTables
<1>1. LogInv => ReplayGivesTheTables
  <2> SUFFICES ASSUME LogInv, NEW r \in Rows, \A e \in outbox : e.row # r
               PROVE  /\ rows[r].write = 0 <=> OpsOn(r) = {}
                      /\ \A op \in IF r \in Facts THEN OpsOn(r) ELSE Newest(r) :
                             op.contents = IF rows[r].there THEN rows[r].write ELSE 0
    BY DEF ReplayGivesTheTables
  <2>1. /\ rows[r].write = 0 <=> OpsOn(r) = {}
        /\ \A op \in Newest(r) : op.contents = Told(r)
    BY DEF LogInv, Settled
  <2>2. r \in Facts => \A op \in OpsOn(r) : op.contents = Told(r)
    BY DEF LogInv, LogFollows, OpsOn, Told
  <2> QED
    BY <2>1, <2>2 DEF Told
<1> QED
  BY <1>1, LogHolds, PTL

-----------------------------------------------------------------------------
(***************************************************************************)
(* What holds of identities and pairing for any devices, programs, keys,   *)
(* invites and deaths, proved: an invite lets in one peer, and only one    *)
(* that pinned the inviter's key; and where one program uses a device, its *)
(* identity is torn only where a write of it was cut short.                *)
(***************************************************************************)
InviteRow == [state : {"none", "open", "gone", "redeemed"}, key : Key, fresh : BOOLEAN]
InvitesTyped ==
    /\ invites \in [Invites -> InviteRow]
    /\ \A i \in Invites : invites[i].key = Missing <=> invites[i].state = "none"

PairRows ==
    /\ generated \in [Devices -> 0..MaxKeys]
    /\ vault \in [Devices -> Key] /\ identity \in [Devices -> Key]
    /\ rotations \in [Devices -> SUBSET (Keys \X Keys)]
    /\ peers \in [Devices -> [Keys -> {"unknown", "pinned", "revoked"}]]
    /\ InvitesTyped
    /\ accepted \in SUBSET Blobs
    /\ call \in [Programs -> Calls \cup {Missing}]
    /\ torn \in [Devices -> BOOLEAN]
    /\ deaths \in 0..MaxDeaths
    /\ pinnedBy \in [Devices -> SUBSET Keys]
    /\ admitted \in [Invites -> SUBSET [peer : Keys, inviter : Keys]]

\* A call at one of these steps has a key that no table holds but the vault.
Holding(p) == ~Ready(p) /\ call[p].step \in {"set", "first", "replace", "log", "next"}
Own(d) == {d} \X (1..generated[d])

\* What each kind of call holds.
LEMMA CallsHold ==
    ASSUME NEW c \in Calls
    PROVE  /\ c.step \in {"set", "first", "replace", "log", "next", "reset", "answer", "confirm"}
           /\ c.step \in {"set", "first"} => c \in [step : {"set", "first"}, new : Keys]
           /\ c.step \in {"replace", "log", "next"} =>
                  c \in [step : {"replace", "log", "next"}, old : Keys, new : Keys]
           /\ c.step = "answer" => c \in [step : {"answer"}, invite : Invites, by : Keys]
           /\ c.step = "confirm" => c \in [step : {"confirm"}, blob : Blobs, me : Keys]
BY DEF Calls

LEMMA NewKeyIsKey ==
    ASSUME PairRows, NEW d \in Devices, Generates(d)
    PROVE  /\ NewKey(d) \in Keys /\ NewKey(d)[1] = d /\ NewKey(d)[2] = generated[d] + 1
           /\ generated' \in [Devices -> 0..MaxKeys]
           /\ generated'[d] = generated[d] + 1
           /\ \A e \in Devices : e # d => generated'[e] = generated[e]
BY PairingAssumption DEF PairRows, NewKey, Generates, Keys

LEMMA InvitesStay ==
    ASSUME InvitesTyped, UNCHANGED invites
    PROVE  InvitesTyped'
BY DEF InvitesTyped

LEMMA OneInvite ==
    ASSUME InvitesTyped, NEW i \in Invites, NEW row \in InviteRow,
           row.key = Missing <=> row.state = "none", invites' = [invites EXCEPT ![i] = row]
    PROVE  InvitesTyped' /\ invites'[i] = row /\ \A j \in Invites : j # i => invites'[j] = invites[j]
BY DEF InvitesTyped

\* Withdrawing an invite leaves whose it was.
LEMMA WithdrawnStay ==
    ASSUME InvitesTyped, NEW gone \in SUBSET {i \in Invites : invites[i].state # "none"},
           invites' = Withdrawn(gone)
    PROVE  /\ InvitesTyped'
           /\ \A i \in Invites : invites'[i].key = invites[i].key
           /\ \A i \in Invites : invites'[i].state =
                                     IF i \in gone THEN "gone" ELSE invites[i].state
<1>1. ASSUME NEW i \in Invites
      PROVE  /\ invites'[i] \in InviteRow /\ invites'[i].key = invites[i].key
             /\ invites'[i].state = IF i \in gone THEN "gone" ELSE invites[i].state
  <2> DEFINE row == [invites[i] EXCEPT !.state = "gone"]
  <2>1. row \in InviteRow /\ row.key = invites[i].key /\ row.state = "gone"
    BY DEF InvitesTyped, InviteRow
  <2>2. invites'[i] = IF i \in gone THEN row ELSE invites[i]
    BY DEF Withdrawn
  <2> HIDE DEF row
  <2> QED
    BY <2>1, <2>2 DEF InvitesTyped
<1>2. invites' = [i \in Invites |-> invites'[i]]
  BY DEF Withdrawn
<1> QED
  BY <1>1, <1>2 DEF InvitesTyped

\* An expiry touches nothing else of the row.
LEMMA ExpiredStays ==
    ASSUME InvitesTyped, NEW i \in Invites, InviteExpires(i)
    PROVE  /\ InvitesTyped'
           /\ \A j \in Invites : invites'[j].key = invites[j].key /\ invites'[j].state = invites[j].state
<1> DEFINE row == [invites[i] EXCEPT !.fresh = FALSE]
<1>1. invites' = [invites EXCEPT ![i] = row]
  BY DEF InviteExpires
<1>2. row \in InviteRow /\ row.key = invites[i].key /\ row.state = invites[i].state
  BY DEF InvitesTyped, InviteRow
<1>3. row.key = Missing <=> row.state = "none"
  BY <1>2 DEF InvitesTyped
<1> HIDE DEF row
<1> QED
  BY <1>1, <1>2, <1>3, OneInvite

LEMMA OnePeer ==
    ASSUME PairRows, NEW d \in Devices, NEW k \in Keys, NEW state \in {"unknown", "pinned", "revoked"},
           peers' = [peers EXCEPT ![d][k] = state]
    PROVE  /\ peers' \in [Devices -> [Keys -> {"unknown", "pinned", "revoked"}]]
           /\ \A e \in Devices, j \in Keys :
                  peers'[e][j] = IF e = d /\ j = k THEN state ELSE peers[e][j]
<1>1. [peers[d] EXCEPT ![k] = state] \in [Keys -> {"unknown", "pinned", "revoked"}]
  BY DEF PairRows
<1>2. peers' = [peers EXCEPT ![d] = [peers[d] EXCEPT ![k] = state]]
  OBVIOUS
<1> QED
  BY <1>1, <1>2 DEF PairRows

LEMMA OneCall ==
    ASSUME PairRows, NEW p \in Programs, NEW to \in Calls \cup {Missing}, Goes(p, to)
    PROVE  /\ call' \in [Programs -> Calls \cup {Missing}]
           /\ call'[p] = to /\ \A q \in Programs : q # p => call'[q] = call[q]
BY DEF PairRows, Goes

LEMMA RowsStep ==
    ASSUME PairRows, [PairingNext]_pairingVars
    PROVE  PairRows'
<1> USE PairingAssumption
<1>1. CASE UNCHANGED pairingVars
  BY <1>1, InvitesStay DEF PairRows, pairingVars, identityVars
<1>2. ASSUME NEW p \in Programs, Initialize(p) PROVE PairRows'
  <2>1. [step |-> "set", new |-> NewKey(On[p])] \in Calls
    BY <1>2, NewKeyIsKey DEF Initialize, Calls
  <2> QED
    BY <1>2, <2>1, NewKeyIsKey, OneCall, InvitesStay DEF Initialize, PairRows
<1>3. ASSUME NEW p \in Programs, VaultSet(p) PROVE PairRows'
  <2>1. call[p] \in [step : {"set", "first"}, new : Keys]
    BY <1>3, CallsHold DEF VaultSet, In, Ready, PairRows
  <2>2. [step |-> "first", new |-> call[p].new] \in Calls
    BY <2>1 DEF Calls
  <2> QED
    <3>1. CASE vault[On[p]] = Missing
      <4>1. Goes(p, [step |-> "first", new |-> call[p].new])
        BY <1>3, <3>1 DEF VaultSet
      <4>2. call' \in [Programs -> Calls \cup {Missing}]
        BY <2>2, <4>1, OneCall
      <4>3. vault' \in [Devices -> Key]
        <5>1. vault' = [vault EXCEPT ![On[p]] = call[p].new]
          BY <1>3, <3>1 DEF VaultSet
        <5>2. call[p].new \in Key /\ vault \in [Devices -> Key]
          BY <2>1 DEF PairRows, Key
        <5> QED
          BY <5>1, <5>2
      <4>4. UNCHANGED <<generated, identity, rotations, peers, invites, accepted, torn, deaths,
                        pinnedBy, admitted>>
        BY <1>3 DEF VaultSet
      <4> QED
        BY <4>2, <4>3, <4>4, InvitesStay DEF PairRows
    <3>2. CASE vault[On[p]] # Missing
      BY <1>3, <3>2, OneCall, InvitesStay DEF VaultSet, PairRows, Returns
    <3> QED
      BY <3>1, <3>2
<1>4. ASSUME NEW p \in Programs, InitializeFails(p) PROVE PairRows'
  BY <1>4, OneCall, InvitesStay DEF InitializeFails, PairRows, Returns, Forgets, Key
<1>5. ASSUME NEW p \in Programs, Rotate(p) PROVE PairRows'
  <2>1. [step |-> "replace", old |-> identity[On[p]], new |-> NewKey(On[p])] \in Calls
    BY <1>5, NewKeyIsKey DEF Rotate, CanSign, PairRows, Key, Calls
  <2> QED
    BY <1>5, <2>1, NewKeyIsKey, OneCall, InvitesStay DEF Rotate, PairRows
<1>6. ASSUME NEW p \in Programs, VaultReplace(p) \/ RotationLogged(p) PROVE PairRows'
  <2>1. call[p] \in [step : {"replace", "log", "next"}, old : Keys, new : Keys]
    BY <1>6, CallsHold DEF VaultReplace, RotationLogged, In, Ready, PairRows
  <2>2. [call[p] EXCEPT !.step = "log"] \in Calls /\ [call[p] EXCEPT !.step = "next"] \in Calls
    BY <2>1 DEF Calls
  <2>3. CASE VaultReplace(p)
    <3>1. /\ call' \in [Programs -> Calls \cup {Missing}]
          /\ InvitesTyped'
      <4>1. InvitesTyped'
        BY <2>3, InvitesStay DEF VaultReplace, PairRows
      <4>2. \E to \in Calls \cup {Missing} : Goes(p, to)
        BY <2>2, <2>3 DEF VaultReplace, Returns
      <4> QED
        BY <4>1, <4>2, OneCall
    <3> QED
      BY <2>1, <2>3, <3>1 DEF VaultReplace, PairRows, Key
  <2>4. CASE RotationLogged(p)
    BY <2>1, <2>2, <2>4, OneCall, InvitesStay DEF RotationLogged, PairRows
  <2> QED
    BY <1>6, <2>3, <2>4
<1>7. ASSUME NEW p \in Programs, WriteIdentity(p) PROVE PairRows'
  <2>1. call[p].new \in Keys
    BY <1>7, CallsHold DEF WriteIdentity, In, Ready, PairRows
  <2> QED
    BY <1>7, <2>1, OneCall, InvitesStay DEF WriteIdentity, PairRows, Returns, Key
<1>8. ASSUME NEW p \in Programs, Reset(p) PROVE PairRows'
  <2>1. [step |-> "reset"] \in Calls
    BY DEF Calls
  <2> QED
    BY <1>8, <2>1, OneCall, InvitesStay DEF Reset, PairRows, Forgets, Key
<1>9. ASSUME NEW p \in Programs, ResetRows(p) PROVE PairRows'
  <2>1. InvitesOf(On[p]) \in SUBSET {i \in Invites : invites[i].state # "none"}
    BY DEF InvitesOf
  <2>2. InvitesTyped'
    BY <1>9, <2>1, WithdrawnStay DEF ResetRows, PairRows
  <2> QED
    BY <1>9, <2>2, OneCall DEF ResetRows, PairRows, Returns, Key
<1>10. ASSUME NEW p \in Programs, Dies(p) PROVE PairRows'
  BY <1>10, OneCall, InvitesStay DEF Dies, PairRows, Returns, identityVars
<1>11. ASSUME NEW p \in Programs, NEW i \in Invites, InviteCreate(p, i) PROVE PairRows'
  <2> DEFINE row == [state |-> "open", key |-> identity[On[p]], fresh |-> TRUE]
  <2>1. row \in InviteRow /\ (row.key = Missing <=> row.state = "none")
    BY <1>11 DEF InviteCreate, CanSign, PairRows, Key, InviteRow
  <2>2. InvitesTyped'
    BY <1>11, <2>1, OneInvite DEF InviteCreate, PairRows
  <2> QED
    BY <1>11, <2>2 DEF InviteCreate, PairRows, identityVars
<1>12. ASSUME NEW p \in Programs, NEW i \in Invites, PairAccept(p, i) PROVE PairRows'
  <2>1. invites[i].key \in Keys /\ identity[On[p]] \in Keys
    BY <1>12 DEF PairAccept, PairRows, Key, InvitesTyped, InviteRow
  <2>2. [step |-> "answer", invite |-> i, by |-> identity[On[p]]] \in Calls
    BY <2>1 DEF Calls
  <2> QED
    BY <1>12, <2>1, <2>2, OnePeer, OneCall, InvitesStay DEF PairAccept, PinPeer, PairRows, identityVars
<1>13. ASSUME NEW p \in Programs, PairAnswer(p) PROVE PairRows'
  <2>1. call[p] \in [step : {"answer"}, invite : Invites, by : Keys]
    BY <1>13, CallsHold DEF PairAnswer, In, Ready, PairRows
  <2>2. accepted' \in SUBSET Blobs
    <3>1. CASE ~CanSign(On[p])
      BY <1>13, <3>1 DEF PairAnswer, PairRows
    <3>2. CASE CanSign(On[p])
      <4>1. identity[On[p]] \in Keys
        BY <3>2 DEF CanSign, PairRows, Key
      <4>2. PICK i \in Invites : i = call[p].invite
        BY <2>1
      <4>3. invites[i].key \in Key
        BY DEF PairRows, InvitesTyped, InviteRow
      <4> QED
        BY <1>13, <2>1, <3>2, <4>1, <4>2, <4>3 DEF PairAnswer, PairRows, Blobs
    <3> QED
      BY <3>1, <3>2
  <2> QED
    BY <1>13, <2>2, OneCall, InvitesStay DEF PairAnswer, PairRows, Returns, identityVars
<1>14. ASSUME NEW p \in Programs, NEW a \in accepted, PairConfirm(p, a) PROVE PairRows'
  <2>1. [step |-> "confirm", blob |-> a, me |-> identity[On[p]]] \in Calls
    BY <1>14 DEF PairConfirm, PairRows, Key, Calls
  <2> QED
    BY <1>14, <2>1, OneCall, InvitesStay DEF PairConfirm, PairRows, identityVars
<1>15. ASSUME NEW p \in Programs, PairBurn(p) PROVE PairRows'
  <2>1. call[p] \in [step : {"confirm"}, blob : Blobs, me : Keys]
    BY <1>15, CallsHold DEF PairBurn, In, Ready, PairRows
  <2>2. call[p].blob.invite \in Invites /\ call[p].blob.by \in Keys
    BY <2>1 DEF Blobs
  <2>3. PICK i \in Invites : i = call[p].blob.invite
    BY <2>2
  <2> DEFINE row == [invites[i] EXCEPT !.state = "redeemed"]
  <2>4. InvitesTyped'
    <3>0. invites[i] \in InviteRow /\ invites[i].state = "open" /\ invites[i].key # Missing
      BY <1>15, <2>3 DEF PairBurn, Redeemable, PairRows, InvitesTyped
    <3>1. row \in InviteRow /\ (row.key = Missing <=> row.state = "none")
      BY <3>0 DEF InviteRow
    <3>2. invites' = [invites EXCEPT ![i] = row]
      BY <1>15, <2>3 DEF PairBurn
    <3> QED
      BY <3>1, <3>2, OneInvite DEF PairRows
  <2>5. [peer |-> call[p].blob.by, inviter |-> call[p].me] \in [peer : Keys, inviter : Keys]
    BY <2>1, <2>2
  <2> QED
    BY <1>15, <2>1, <2>2, <2>4, <2>5, OnePeer, OneCall
       DEF PairBurn, PinPeer, PairRows, Returns, identityVars
<1>16. ASSUME NEW p \in Programs, PairRefused(p) PROVE PairRows'
  BY <1>16, OneCall, InvitesStay DEF PairRefused, PairRows, Returns, identityVars
<1>17. ASSUME NEW i \in Invites, InviteCancel(i) \/ InviteExpires(i) PROVE PairRows'
  <2>1. CASE InviteCancel(i)
    <3>1. {i} \in SUBSET {j \in Invites : invites[j].state # "none"}
      BY <2>1 DEF InviteCancel
    <3>2. InvitesTyped'
      BY <2>1, <3>1, WithdrawnStay DEF InviteCancel, PairRows
    <3> QED
      BY <2>1, <3>2 DEF InviteCancel, PairRows, identityVars
  <2>2. CASE InviteExpires(i)
    BY <2>2, ExpiredStays DEF InviteExpires, PairRows, identityVars
  <2> QED
    BY <1>17, <2>1, <2>2
<1>18. ASSUME NEW d \in Devices, NEW k \in Keys, PeerRevoke(d, k) \/ PeerForget(d, k) PROVE PairRows'
  <2>1. CASE PeerRevoke(d, k)
    BY <2>1, OnePeer, InvitesStay DEF PeerRevoke, PairRows, identityVars
  <2>2. CASE PeerForget(d, k)
    BY <2>2, OnePeer, InvitesStay DEF PeerForget, PairRows, identityVars
  <2> QED
    BY <1>18, <2>1, <2>2
<1> QED
  BY <1>1, <1>2, <1>3, <1>4, <1>5, <1>6, <1>7, <1>8, <1>9, <1>10, <1>11, <1>12, <1>13, <1>14,
     <1>15, <1>16, <1>17, <1>18 DEF PairingNext

-----------------------------------------------------------------------------
(***************************************************************************)
(* A key is its device's, has one life, and two devices know each other by *)
(* keys they pinned.                                                       *)
(***************************************************************************)

Pending(k) == \E p \in Programs : Holding(p) /\ call[p].new = k

\* A key that was an identity: it is not on its way to becoming one.
Used(k) == k \in Own(k[1]) /\ ~Pending(k)

\* A key that never signs again.
Past(k) == Used(k) /\ identity[k[1]] # k

KeysOwned ==
    /\ \A d \in Devices : {vault[d], identity[d]} \subseteq Own(d) \cup {Missing}
    /\ \A d \in Devices : identity[d] # Missing => ~Pending(identity[d])
    /\ \A p \in Programs : Holding(p) => call[p].new \in Own(On[p])
    /\ \A p, q \in Programs : Holding(p) /\ Holding(q) /\ call[p].new = call[q].new => p = q
    /\ \A i \in Invites : invites[i].state # "none" => Used(invites[i].key)

\* A row of a peer is a pin there was.
PeersKnown == \A d \in Devices, k \in Keys : peers[d][k] # "unknown" => k \in pinnedBy[d]

\* Whom an acceptance, or the call that is about to sign one, answers: a key pinned by
\* the answering device, and if its own, then one it has given up.
Answered(by, to) == to \in Keys /\ to \in pinnedBy[by[1]] /\ (by[1] = to[1] => Past(to))

AnswersPinned ==
    /\ PeersKnown
    /\ \A a \in accepted : Answered(a.by, a.to)
    /\ \A p \in Programs : In(p, "answer") =>
           /\ invites[call[p].invite].state # "none"
           /\ Answered(call[p].by, invites[call[p].invite].key)
    /\ \A p \in Programs : In(p, "confirm") =>
           /\ call[p].blob.to = call[p].me
           /\ call[p].blob.by[1] # call[p].me[1]
           /\ call[p].me \in pinnedBy[call[p].blob.by[1]]

\* An invite that let something in is closed.
LetIn ==
    \A i \in Invites :
        /\ admitted[i] # {} => invites[i].state \in {"gone", "redeemed"}
        /\ \A a, b \in admitted[i] : a = b
        /\ \A a \in admitted[i] : a.inviter \in pinnedBy[a.peer[1]] /\ a.peer[1] # a.inviter[1]

PairInv == PairRows /\ KeysOwned /\ AnswersPinned /\ LetIn

\* A row stays whose it was, is closed for good, and starts with an identity there is.
InviteStep ==
    /\ \A i \in Invites : invites[i].state # "none" =>
           invites'[i].state # "none" /\ invites'[i].key = invites[i].key
    /\ \A i \in Invites : invites[i].state \in {"gone", "redeemed"} =>
           invites'[i].state \in {"gone", "redeemed"}
    /\ \A i \in Invites : invites[i].state = "none" /\ invites'[i].state # "none" =>
           \E d \in Devices : identity[d] # Missing /\ invites'[i].key = identity[d]

\* What a step may do to keys: a call comes to hold one that it generates; a vault or
\* an identity gets one that a call of its device holds, and the identity last; an
\* invite is signed with an identity there is.
Born(p) == call'[p].new = NewKey(On[p]) /\ generated'[On[p]] = generated[On[p]] + 1

KeyStep ==
    /\ \A d \in Devices : generated[d] <= generated'[d]
    /\ \A p \in Programs : Holding(p)' => \/ Holding(p) /\ call'[p].new = call[p].new
                                          \/ Born(p)
    /\ \A p, q \in Programs :
           Holding(p)' /\ Holding(q)' /\ p # q => \/ Holding(p) /\ call'[p].new = call[p].new
                                                  \/ Holding(q) /\ call'[q].new = call[q].new
    /\ \A d \in Devices :
           \/ identity'[d] \in {identity[d], Missing}
           \/ \E p \in Programs :
                 On[p] = d /\ Holding(p) /\ ~Holding(p)' /\ identity'[d] = call[p].new
    /\ \A d \in Devices :
           \/ vault'[d] \in {vault[d], Missing}
           \/ \E p \in Programs : On[p] = d /\ Holding(p) /\ vault'[d] = call[p].new
    /\ InviteStep

\* A key that was an identity stays one that was; one that signs no more never will.
LEMMA UsedStays ==
    ASSUME PairRows, PairRows', KeysOwned, KeyStep
    PROVE  /\ \A d \in Devices : Own(d) \subseteq Own(d)'
           /\ \A k \in Keys : Used(k) => Used(k)'
           /\ \A k \in Keys : Past(k) => Past(k)'
<1> USE PairingAssumption
<1>1. \A d \in Devices : Own(d) \subseteq Own(d)'
  BY DEF PairRows, KeyStep, Own
<1>2. ASSUME NEW k \in Keys, Used(k) PROVE Used(k)'
  <2>1. k[1] \in Devices /\ k \in Own(k[1]) /\ k \in Own(k[1])'
    BY <1>1, <1>2 DEF Keys, Used
  <2>2. ASSUME NEW p \in Programs, Holding(p)', call'[p].new = k PROVE FALSE
    <3>1. ~(Holding(p) /\ call[p].new = k)
      BY <1>2 DEF Used, Pending
    <3>2. Born(p)
      BY <2>2, <3>1 DEF KeyStep
    <3>3. k = <<On[p], generated[On[p]] + 1>> /\ On[p] \in Devices
      BY <2>2, <3>2 DEF Born, NewKey
    <3> QED
      BY <2>1, <3>3 DEF Own, PairRows
  <2> QED
    BY <2>1, <2>2 DEF Used, Pending
<1>3. ASSUME NEW k \in Keys, Past(k) PROVE Past(k)'
  <2>1. Used(k) /\ Used(k)' /\ k[1] \in Devices /\ k # Missing
    BY <1>2, <1>3 DEF Past, Keys
  <2>2. identity'[k[1]] # k
    BY <1>3, <2>1 DEF KeyStep, Past, Used, Pending
  <2> QED
    BY <2>1, <2>2 DEF Past
<1> QED
  BY <1>1, <1>2, <1>3

LEMMA KeysOwnedStays ==
    ASSUME PairRows, PairRows', KeysOwned, KeyStep
    PROVE  KeysOwned'
<1> USE PairingAssumption
<1>1. ASSUME NEW p \in Programs, Holding(p)' PROVE call'[p].new \in Own(On[p])'
  <2>1. CASE Holding(p) /\ call'[p].new = call[p].new
    BY <2>1, UsedStays DEF KeysOwned
  <2>2. CASE Born(p)
    BY <2>2 DEF Born, NewKey, Own, PairRows
  <2> QED
    BY <1>1, <2>1, <2>2 DEF KeyStep
<1>2. ASSUME NEW p \in Programs, NEW q \in Programs, Holding(p)', Holding(q)',
             call'[p].new = call'[q].new, p # q
      PROVE  FALSE
  <2>1. ASSUME NEW r \in Programs, NEW t \in Programs, Holding(r), Holding(t)',
               call'[r].new = call[r].new, call'[r].new = call'[t].new, r # t
        PROVE  FALSE
    <3>1. call[r].new \in Own(On[r])
      BY <2>1 DEF KeysOwned
    <3>2. ~(Holding(t) /\ call'[t].new = call[t].new)
      BY <2>1 DEF KeysOwned
    <3>3. call[r].new = <<On[t], generated[On[t]] + 1>>
      BY <2>1, <3>2 DEF KeyStep, Born, NewKey
    <3> QED
      BY <3>1, <3>3 DEF Own, PairRows
  <2> QED
    BY <1>2, <2>1 DEF KeyStep
<1>3. \A d \in Devices : {vault'[d], identity'[d]} \subseteq Own(d)' \cup {Missing}
  BY UsedStays DEF KeyStep, KeysOwned
<1>4. ASSUME NEW d \in Devices, identity'[d] # Missing PROVE ~Pending(identity[d])'
  <2>1. CASE identity'[d] = identity[d]
    <3>1. identity[d] \in Keys /\ identity[d] \in Own(d) /\ identity[d][1] = d
      BY <1>4, <2>1 DEF KeysOwned, PairRows, Key, Own
    <3> QED
      BY <1>4, <2>1, <3>1, UsedStays DEF KeysOwned, Used
  <2>2. CASE identity'[d] # identity[d]
    <3>1. PICK p \in Programs :
              On[p] = d /\ Holding(p) /\ ~Holding(p)' /\ identity'[d] = call[p].new
      BY <1>4, <2>2 DEF KeyStep
    <3>2. ASSUME NEW q \in Programs, Holding(q)', call'[q].new = call[p].new PROVE FALSE
      <4>1. ~(Holding(q) /\ call'[q].new = call[q].new)
        BY <3>1, <3>2 DEF KeysOwned
      <4>2. call[p].new = <<On[q], generated[On[q]] + 1>> /\ call[p].new \in Own(On[p])
        BY <3>1, <3>2, <4>1 DEF KeyStep, Born, NewKey, KeysOwned
      <4> QED
        BY <4>2 DEF Own, PairRows
    <3> QED
      BY <3>1, <3>2 DEF Pending
  <2> QED
    BY <2>1, <2>2
<1>5. ASSUME NEW i \in Invites, invites'[i].state # "none" PROVE Used(invites[i].key)'
  <2>1. CASE invites[i].state # "none" /\ invites'[i].key = invites[i].key
    <3>1. invites[i].key \in Keys /\ Used(invites[i].key)
      BY <2>1 DEF KeysOwned, PairRows, InvitesTyped, InviteRow, Key
    <3>2. PICK k \in Keys : k = invites[i].key
      BY <3>1
    <3>3. Used(k)'
      BY <3>1, <3>2, UsedStays
    <3> QED
      BY <2>1, <3>2, <3>3 DEF Used, Own, Pending, Holding
  <2>2. CASE \E d \in Devices : identity[d] # Missing /\ invites'[i].key = identity[d]
    <3>1. PICK d \in Devices : identity[d] # Missing /\ invites'[i].key = identity[d]
      BY <2>2
    <3>2. PICK k \in Keys : k = identity[d]
      BY <3>1 DEF PairRows, Key
    <3>3. Used(k)
      BY <3>1, <3>2 DEF KeysOwned, Used, Own
    <3>4. Used(k)'
      BY <3>3, UsedStays
    <3> QED
      BY <3>1, <3>2, <3>4 DEF Used, Own, Pending, Holding
  <2> QED
    BY <1>5, <2>1, <2>2 DEF KeyStep, InviteStep
<1> QED
  BY <1>1, <1>2, <1>3, <1>4, <1>5 DEF KeysOwned
\* A call that goes on, or returns, without a key of its own takes none from another.
LEMMA HoldsOn ==
    ASSUME PairRows, NEW p \in Programs, NEW to \in Calls \cup {Missing}, Goes(p, to),
           \/ to = Missing
           \/ to \in Calls /\ to.step \in {"reset", "answer", "confirm"}
           \/ to \in Calls /\ Holding(p) /\ to.new = call[p].new
    PROVE  /\ \A q \in Programs : Holding(q)' => Holding(q) /\ call'[q].new = call[q].new
           /\ to = Missing => ~Holding(p)'
<1>1. call'[p] = to /\ \A q \in Programs : q # p => call'[q] = call[q]
  BY OneCall
<1>2. ASSUME NEW q \in Programs, q # p, Holding(q)' PROVE Holding(q) /\ call'[q].new = call[q].new
  BY <1>1, <1>2 DEF Holding, Ready
<1>3. to = Missing => ~Holding(p)'
  BY <1>1 DEF Holding, Ready
<1>4. ASSUME Holding(p)' PROVE Holding(p) /\ call'[p].new = call[p].new
  <2>1. to # Missing /\ to.step \in {"set", "first", "replace", "log", "next"}
    BY <1>1, <1>4 DEF Holding, Ready
  <2>2. Holding(p) /\ to.new = call[p].new
    BY <2>1
  <2> QED
    BY <1>1, <2>2
<1> QED
  BY <1>2, <1>3, <1>4

LEMMA Bears ==
    ASSUME PairRows, NEW p \in Programs, NEW to \in Calls, Goes(p, to), Generates(On[p]),
           to.new = NewKey(On[p])
    PROVE  /\ \A d \in Devices : generated[d] <= generated'[d]
           /\ Born(p)
           /\ \A q \in Programs : q # p => call'[q] = call[q]
<1>1. On[p] \in Devices
  BY PairingAssumption
<1>2. /\ generated'[On[p]] = generated[On[p]] + 1
      /\ \A e \in Devices : e # On[p] => generated'[e] = generated[e]
  BY <1>1, NewKeyIsKey
<1>3. call'[p] = to /\ \A q \in Programs : q # p => call'[q] = call[q]
  BY OneCall
<1>4. \A d \in Devices : generated[d] \in Nat
  BY PairingAssumption DEF PairRows
<1> QED
  BY <1>1, <1>2, <1>3, <1>4 DEF Born

LEMMA StepIsKeyStep ==
    ASSUME PairRows, PairRows', [PairingNext]_pairingVars
    PROVE  KeyStep
<1> USE PairingAssumption
<1> DEFINE Held == \A q \in Programs : Holding(q)' => Holding(q) /\ call'[q].new = call[q].new
<1>a. ASSUME UNCHANGED identityVars, Held, InviteStep PROVE KeyStep
  BY <1>a DEF KeyStep, identityVars, PairRows
<1>b. ASSUME UNCHANGED call PROVE Held
  BY <1>b DEF Holding, Ready
<1>c. ASSUME UNCHANGED invites PROVE InviteStep
  BY <1>c DEF InviteStep
<1>1. CASE UNCHANGED pairingVars
  BY <1>1, <1>a, <1>b, <1>c DEF pairingVars
<1>2. ASSUME NEW p \in Programs, Initialize(p) \/ Rotate(p) PROVE KeyStep
  <2>1. PICK to \in Calls : Goes(p, to) /\ to.new = NewKey(On[p])
    <3>1. CASE Initialize(p)
      <4>1. [step |-> "set", new |-> NewKey(On[p])] \in Calls
        BY <3>1, NewKeyIsKey DEF Initialize, Calls
      <4> QED
        BY <3>1, <4>1 DEF Initialize
    <3>2. CASE Rotate(p)
      <4>1. [step |-> "replace", old |-> identity[On[p]], new |-> NewKey(On[p])] \in Calls
        BY <3>2, NewKeyIsKey DEF Rotate, CanSign, PairRows, Key, Calls
      <4> QED
        BY <3>2, <4>1 DEF Rotate
    <3> QED
      BY <1>2, <3>1, <3>2
  <2>2. Generates(On[p])
    BY <1>2 DEF Initialize, Rotate
  <2>3. /\ \A d \in Devices : generated[d] <= generated'[d]
        /\ Born(p)
        /\ \A q \in Programs : q # p => call'[q] = call[q]
    BY <2>1, <2>2, Bears
  <2>4. \A q \in Programs : q # p => (Holding(q)' => Holding(q) /\ call'[q].new = call[q].new)
    BY <2>3 DEF Holding, Ready
  <2>5. UNCHANGED <<vault, identity, invites>>
    BY <1>2 DEF Initialize, Rotate
  <2>6. \A q, r \in Programs :
            Holding(q)' /\ Holding(r)' /\ q # r => \/ Holding(q) /\ call'[q].new = call[q].new
                                                   \/ Holding(r) /\ call'[r].new = call[r].new
    BY <2>4
  <2>7. \A q \in Programs : Holding(q)' => \/ Holding(q) /\ call'[q].new = call[q].new
                                           \/ Born(q)
    BY <2>3, <2>4
  <2> QED
    BY <2>3, <2>5, <2>6, <2>7, <1>c DEF KeyStep
<1>3. ASSUME NEW p \in Programs, VaultSet(p) PROVE KeyStep
  <2>1. call[p] \in Calls /\ Holding(p) /\ call[p].new \in Keys
    BY <1>3, CallsHold DEF VaultSet, In, Ready, PairRows, Holding
  <2> DEFINE on == [step |-> "first", new |-> call[p].new]
  <2>2. on \in Calls /\ on.new = call[p].new
    BY <2>1 DEF Calls
  <2>3. Held
    <3>1. CASE Goes(p, on)
      BY <2>1, <2>2, <3>1, HoldsOn
    <3>2. CASE Goes(p, Missing)
      BY <3>2, HoldsOn
    <3> QED
      BY <1>3, <3>1, <3>2 DEF VaultSet, Returns
  <2>4. UNCHANGED <<generated, identity, invites>>
    BY <1>3 DEF VaultSet
  <2>5. \A d \in Devices : vault'[d] = vault[d] \/ (On[p] = d /\ vault'[d] = call[p].new)
    BY <1>3 DEF VaultSet, PairRows
  <2> QED
    BY <2>1, <2>3, <2>4, <2>5, <1>c DEF KeyStep, PairRows
<1>4. ASSUME NEW p \in Programs, InitializeFails(p) \/ Reset(p) PROVE KeyStep
  <2>1. Held
    <3>1. [step |-> "reset"] \in Calls /\ [step |-> "reset"].step = "reset"
      BY DEF Calls
    <3> QED
      BY <1>4, <3>1, HoldsOn DEF InitializeFails, Reset, Returns
  <2>2. UNCHANGED <<generated, identity, invites>>
    BY <1>4 DEF InitializeFails, Reset
  <2>3. \A d \in Devices : vault'[d] \in {vault[d], Missing}
    BY <1>4 DEF InitializeFails, Reset, Forgets, PairRows
  <2> QED
    BY <2>1, <2>2, <2>3, <1>c DEF KeyStep, PairRows
<1>5. ASSUME NEW p \in Programs, VaultReplace(p) \/ RotationLogged(p) PROVE KeyStep
  <2>1. Holding(p) /\ call[p] \in [step : {"replace", "log", "next"}, old : Keys, new : Keys]
    BY <1>5, CallsHold DEF VaultReplace, RotationLogged, In, Ready, PairRows, Holding
  <2> DEFINE logging == [call[p] EXCEPT !.step = "log"]
             next == [call[p] EXCEPT !.step = "next"]
  <2>2. logging \in Calls /\ next \in Calls /\ logging.new = call[p].new /\ next.new = call[p].new
    BY <2>1 DEF Calls
  <2>3. Held
    <3>1. CASE Goes(p, logging)
      BY <2>1, <2>2, <3>1, HoldsOn
    <3>2. CASE Goes(p, next)
      BY <2>1, <2>2, <3>2, HoldsOn
    <3>3. CASE Goes(p, Missing)
      BY <3>3, HoldsOn
    <3> QED
      BY <1>5, <3>1, <3>2, <3>3 DEF VaultReplace, RotationLogged, Returns
  <2>4. UNCHANGED <<generated, identity, invites>>
    BY <1>5 DEF VaultReplace, RotationLogged
  <2>5. \A d \in Devices : vault'[d] = vault[d] \/ (On[p] = d /\ vault'[d] = call[p].new)
    BY <1>5 DEF VaultReplace, RotationLogged, PairRows
  <2> QED
    BY <2>1, <2>3, <2>4, <2>5, <1>c DEF KeyStep, PairRows
<1>6. ASSUME NEW p \in Programs, WriteIdentity(p) PROVE KeyStep
  <2>1. Holding(p)
    BY <1>6 DEF WriteIdentity, In, Holding
  <2>2. Held /\ ~Holding(p)'
    BY <1>6, HoldsOn DEF WriteIdentity, Returns
  <2>3. UNCHANGED <<generated, vault, invites>>
    BY <1>6 DEF WriteIdentity
  <2>4. \A d \in Devices :
            identity'[d] = identity[d] \/ (On[p] = d /\ identity'[d] = call[p].new)
    BY <1>6 DEF WriteIdentity, PairRows
  <2> QED
    BY <2>1, <2>2, <2>3, <2>4, <1>c DEF KeyStep, PairRows
<1>7. ASSUME NEW p \in Programs, ResetRows(p) PROVE KeyStep
  <2>1. Held
    BY <1>7, HoldsOn DEF ResetRows, Returns
  <2>2. InvitesOf(On[p]) \in SUBSET {i \in Invites : invites[i].state # "none"}
    BY DEF InvitesOf
  <2>3. InviteStep
    <3>1. /\ \A i \in Invites : invites'[i].key = invites[i].key
          /\ \A i \in Invites : invites'[i].state =
                                    IF i \in InvitesOf(On[p]) THEN "gone" ELSE invites[i].state
      BY <1>7, <2>2, WithdrawnStay DEF ResetRows, PairRows
    <3>2. \A i \in InvitesOf(On[p]) : invites[i].state # "none"
      BY <2>2
    <3> QED
      BY <3>1, <3>2 DEF InviteStep
  <2>4. UNCHANGED <<generated, vault>> /\ \A d \in Devices : identity'[d] \in {identity[d], Missing}
    BY <1>7 DEF ResetRows, PairRows
  <2> QED
    BY <2>1, <2>3, <2>4 DEF KeyStep, PairRows
<1>8. ASSUME NEW p \in Programs, Dies(p) \/ PairAnswer(p) \/ PairRefused(p) PROVE KeyStep
  BY <1>8, <1>a, <1>c, HoldsOn DEF Dies, PairAnswer, PairRefused, Returns
<1>9. ASSUME NEW p \in Programs, NEW i \in Invites, InviteCreate(p, i) PROVE KeyStep
  <2>1. UNCHANGED <<identityVars, call>>
    BY <1>9 DEF InviteCreate
  <2>2. InviteStep
    BY <1>9 DEF InviteCreate, CanSign, PairRows, InvitesTyped, InviteStep
  <2> QED
    BY <2>1, <2>2, <1>a, <1>b
<1>10. ASSUME NEW p \in Programs, NEW i \in Invites, PairAccept(p, i) PROVE KeyStep
  <2> DEFINE to == [step |-> "answer", invite |-> i, by |-> identity[On[p]]]
  <2>1. to \in Calls /\ to.step = "answer"
    BY <1>10 DEF PairAccept, PairRows, Key, Calls
  <2>2. Goes(p, to) /\ UNCHANGED <<identityVars, invites>>
    BY <1>10 DEF PairAccept
  <2> HIDE DEF to
  <2> QED
    BY <2>1, <2>2, <1>a, <1>c, HoldsOn
<1>11. ASSUME NEW p \in Programs, NEW a \in accepted, PairConfirm(p, a) PROVE KeyStep
  <2> DEFINE to == [step |-> "confirm", blob |-> a, me |-> identity[On[p]]]
  <2>1. to \in Calls /\ to.step = "confirm"
    BY <1>11 DEF PairConfirm, PairRows, Key, Calls
  <2>2. Goes(p, to) /\ UNCHANGED <<identityVars, invites>>
    BY <1>11 DEF PairConfirm
  <2> HIDE DEF to
  <2> QED
    BY <2>1, <2>2, <1>a, <1>c, HoldsOn
<1>12. ASSUME NEW p \in Programs, PairBurn(p) PROVE KeyStep
  <2>1. Held /\ UNCHANGED identityVars
    BY <1>12, HoldsOn DEF PairBurn, Returns
  <2>2. InviteStep
    <3> DEFINE j == call[p].blob.invite
    <3>1. /\ j \in Invites /\ invites[j].state = "open"
          /\ invites' = [invites EXCEPT ![j].state = "redeemed"]
      BY <1>12 DEF PairBurn, Redeemable, InvitesOf
    <3> HIDE DEF j
    <3>2. InvitesTyped
      BY DEF PairRows
    <3>3. invites'[j].state = "redeemed" /\ invites'[j].key = invites[j].key
      BY <3>1, <3>2 DEF InvitesTyped, InviteRow
    <3>4. \A i \in Invites : i # j => invites'[i] = invites[i]
      BY <3>1, <3>2 DEF InvitesTyped
    <3> QED
      BY <3>1, <3>3, <3>4 DEF InviteStep
  <2> QED
    BY <2>1, <2>2, <1>a
<1>13. ASSUME NEW i \in Invites, InviteCancel(i) \/ InviteExpires(i) PROVE KeyStep
  <2>1. UNCHANGED <<identityVars, call>>
    BY <1>13 DEF InviteCancel, InviteExpires
  <2>2. InviteStep
    <3>1. CASE InviteCancel(i)
      <4>1. {i} \in SUBSET {j \in Invites : invites[j].state # "none"}
        BY <3>1 DEF InviteCancel
      <4>2. invites' = Withdrawn({i}) /\ InvitesTyped
        BY <3>1 DEF InviteCancel, PairRows
      <4>3. /\ \A j \in Invites : invites'[j].key = invites[j].key
            /\ \A j \in Invites : invites'[j].state = IF j \in {i} THEN "gone" ELSE invites[j].state
        BY <4>1, <4>2, WithdrawnStay
      <4> QED
        BY <3>1, <4>3 DEF InviteCancel, InviteStep
    <3>2. CASE InviteExpires(i)
      <4>1. \A j \in Invites : invites'[j].key = invites[j].key /\ invites'[j].state = invites[j].state
        BY <3>2, ExpiredStays DEF PairRows
      <4> QED
        BY <4>1 DEF InviteStep
    <3> QED
      BY <1>13, <3>1, <3>2
  <2> QED
    BY <2>1, <2>2, <1>a, <1>b
<1>14. ASSUME NEW d \in Devices, NEW k \in Keys, PeerRevoke(d, k) \/ PeerForget(d, k)
       PROVE  KeyStep
  BY <1>14, <1>a, <1>b, <1>c DEF PeerRevoke, PeerForget
<1> QED
  BY <1>1, <1>2, <1>3, <1>4, <1>5, <1>6, <1>7, <1>8, <1>9, <1>10, <1>11, <1>12, <1>13, <1>14
     DEF PairingNext
\* What the devices ever pinned only grows.
LEMMA Pins ==
    ASSUME PairRows, PeersKnown, NEW d \in Devices, NEW k \in Keys, PinPeer(d, k)
    PROVE  PeersKnown' /\ k \in pinnedBy'[d] /\ \A e \in Devices : pinnedBy[e] \subseteq pinnedBy'[e]
<1>1. \A e \in Devices, j \in Keys :
          peers'[e][j] = IF e = d /\ j = k THEN "pinned" ELSE peers[e][j]
  <2>1. peers' = [peers EXCEPT ![d][k] = "pinned"]
    BY DEF PinPeer
  <2>2. peers \in [Devices -> [Keys -> {"unknown", "pinned", "revoked"}]]
    BY DEF PairRows
  <2> QED
    BY <2>1, <2>2
<1>2. \A e \in Devices : pinnedBy'[e] = IF e = d THEN pinnedBy[d] \cup {k} ELSE pinnedBy[e]
  BY DEF PinPeer, PairRows
<1> QED
  BY <1>1, <1>2 DEF PeersKnown

LEMMA PinsStay ==
    ASSUME PairRows, PeersKnown, [PairingNext]_pairingVars
    PROVE  PeersKnown' /\ \A d \in Devices : pinnedBy[d] \subseteq pinnedBy'[d]
<1> USE PairingAssumption
<1> DEFINE Goal == PeersKnown' /\ \A d \in Devices : pinnedBy[d] \subseteq pinnedBy'[d]
<1>a. ASSUME UNCHANGED <<peers, pinnedBy>> PROVE Goal
  BY <1>a DEF PeersKnown
<1>1. CASE UNCHANGED pairingVars
  BY <1>1, <1>a DEF pairingVars
<1>2. ASSUME NEW p \in Programs,
             \/ Initialize(p) \/ VaultSet(p) \/ InitializeFails(p)
             \/ Rotate(p) \/ VaultReplace(p) \/ RotationLogged(p) \/ WriteIdentity(p)
             \/ Reset(p) \/ ResetRows(p) \/ Dies(p)
      PROVE  Goal
  BY <1>2, <1>a DEF Initialize, VaultSet, InitializeFails, Rotate, VaultReplace, RotationLogged,
     WriteIdentity, Reset, ResetRows, Dies
<1>3. ASSUME NEW p \in Programs, NEW i \in Invites, InviteCreate(p, i) PROVE Goal
  BY <1>3, <1>a DEF InviteCreate
<1>4. ASSUME NEW p \in Programs, NEW i \in Invites, PairAccept(p, i) PROVE Goal
  <2>1. invites[i].key \in Keys
    BY <1>4 DEF PairAccept, PairRows, InvitesTyped, InviteRow, Key
  <2> QED
    BY <1>4, <2>1, Pins DEF PairAccept
<1>5. ASSUME NEW p \in Programs, PairAnswer(p) \/ PairRefused(p) PROVE Goal
  BY <1>5, <1>a DEF PairAnswer, PairRefused
<1>6. ASSUME NEW p \in Programs, NEW a \in accepted, PairConfirm(p, a) PROVE Goal
  BY <1>6, <1>a DEF PairConfirm
<1>7. ASSUME NEW p \in Programs, PairBurn(p) PROVE Goal
  <2>1. call[p] \in [step : {"confirm"}, blob : Blobs, me : Keys]
    BY <1>7, CallsHold DEF PairBurn, In, Ready, PairRows
  <2>2. call[p].blob.by \in Keys
    BY <2>1 DEF Blobs
  <2> QED
    BY <1>7, <2>2, Pins DEF PairBurn
<1>8. ASSUME NEW i \in Invites, InviteCancel(i) \/ InviteExpires(i) PROVE Goal
  BY <1>8, <1>a DEF InviteCancel, InviteExpires
<1>9. ASSUME NEW d \in Devices, NEW k \in Keys, PeerRevoke(d, k) \/ PeerForget(d, k) PROVE Goal
  <2>1. CASE PeerRevoke(d, k)
    BY <2>1, OnePeer DEF PeerRevoke, PeersKnown
  <2>2. CASE PeerForget(d, k)
    BY <2>2, OnePeer DEF PeerForget, PeersKnown
  <2> QED
    BY <1>9, <2>1, <2>2
<1> QED
  BY <1>1, <1>2, <1>3, <1>4, <1>5, <1>6, <1>7, <1>8, <1>9 DEF PairingNext

LEMMA AnsweredStays ==
    ASSUME PairRows, PairRows', KeysOwned, KeyStep,
           \A d \in Devices : pinnedBy[d] \subseteq pinnedBy'[d],
           NEW by \in Keys, NEW to \in Keys, Answered(by, to)
    PROVE  Answered(by, to)'
BY UsedStays DEF Answered, Keys

\* A call that returns, or does something else, asks nobody anything.
LEMMA TalksOn ==
    ASSUME PairRows, NEW p \in Programs, NEW to \in Calls \cup {Missing}, Goes(p, to),
           to \in Calls => to.step \notin {"answer", "confirm"}
    PROVE  \A q \in Programs : /\ In(q, "answer")' => In(q, "answer") /\ call'[q] = call[q]
                               /\ In(q, "confirm")' => In(q, "confirm") /\ call'[q] = call[q]
<1>1. call'[p] = to /\ \A q \in Programs : q # p => call'[q] = call[q]
  BY OneCall
<1> QED
  BY <1>1 DEF In, Ready
\* What a call that waits for its second step has in hand.
AnswerHeld(p) ==
    /\ invites[call[p].invite].state # "none"
    /\ Answered(call[p].by, invites[call[p].invite].key)
ConfirmHeld(p) ==
    /\ call[p].blob.to = call[p].me
    /\ call[p].blob.by[1] # call[p].me[1]
    /\ call[p].me \in pinnedBy[call[p].blob.by[1]]

LEMMA HeldStays ==
    ASSUME PairRows, PairRows', KeysOwned, KeyStep,
           \A d \in Devices : pinnedBy[d] \subseteq pinnedBy'[d],
           NEW p \in Programs, call'[p] = call[p]
    PROVE  /\ In(p, "answer") /\ AnswerHeld(p) => AnswerHeld(p)'
           /\ In(p, "confirm") /\ ConfirmHeld(p) => ConfirmHeld(p)'
<1>1. ASSUME In(p, "answer"), AnswerHeld(p) PROVE AnswerHeld(p)'
  <2>1. call[p] \in [step : {"answer"}, invite : Invites, by : Keys]
    BY <1>1, CallsHold DEF In, Ready, PairRows
  <2>2. PICK i \in Invites, b \in Keys : i = call[p].invite /\ b = call[p].by
    BY <2>1
  <2>3. PICK k \in Keys : k = invites[i].key
    BY <1>1, <2>2 DEF AnswerHeld, Answered
  <2>4. invites'[i].state # "none" /\ invites'[i].key = k
    BY <1>1, <2>2, <2>3 DEF AnswerHeld, KeyStep, InviteStep
  <2>5. Answered(b, k)'
    BY <1>1, <2>2, <2>3, AnsweredStays DEF AnswerHeld
  <2>6. call'[p].invite = i /\ call'[p].by = b
    BY <2>2
  <2> QED
    BY <2>4, <2>5, <2>6 DEF AnswerHeld, Answered, Past, Used, Own, Pending, Holding
<1>2. ASSUME In(p, "confirm"), ConfirmHeld(p) PROVE ConfirmHeld(p)'
  <2>1. call[p] \in [step : {"confirm"}, blob : Blobs, me : Keys]
    BY <1>2, CallsHold DEF In, Ready, PairRows
  <2>2. call[p].blob.by[1] \in Devices
    BY <2>1 DEF Blobs, Keys
  <2> QED
    BY <1>2, <2>2 DEF ConfirmHeld
<1> QED
  BY <1>1, <1>2

LEMMA AnswersPinnedStays ==
    ASSUME PairRows, PairRows', KeysOwned, AnswersPinned, KeyStep, [PairingNext]_pairingVars
    PROVE  AnswersPinned'
<1> USE PairingAssumption
<1> DEFINE Signed == \A a \in accepted' : Answered(a.by, a.to)'
           Asked == \A p \in Programs : In(p, "answer")' => AnswerHeld(p)'
           Known == \A p \in Programs : In(p, "confirm")' => ConfirmHeld(p)'
<1>0. PeersKnown /\ PeersKnown' /\ \A d \in Devices : pinnedBy[d] \subseteq pinnedBy'[d]
  BY PinsStay DEF AnswersPinned
<1>g. ASSUME Signed, Asked, Known PROVE AnswersPinned'
  BY <1>0, <1>g DEF AnswersPinned, AnswerHeld, ConfirmHeld
<1>a. ASSUME NEW a \in accepted PROVE Answered(a.by, a.to)'
  <2>1. PICK b \in Keys, t \in Keys : b = a.by /\ t = a.to
    BY DEF PairRows, Blobs, AnswersPinned, Answered
  <2>2. Answered(b, t)'
    BY <1>0, <2>1, AnsweredStays DEF AnswersPinned
  <2> QED
    BY <2>1, <2>2 DEF Answered, Past, Used, Own, Pending, Holding
<1>b. ASSUME UNCHANGED accepted PROVE Signed
  BY <1>a, <1>b
<1>c. ASSUME NEW p \in Programs, call'[p] = call[p]
      PROVE  /\ In(p, "answer")' => AnswerHeld(p)'
             /\ In(p, "confirm")' => ConfirmHeld(p)'
  <2>1. /\ In(p, "answer")' => In(p, "answer") /\ AnswerHeld(p)
        /\ In(p, "confirm")' => In(p, "confirm") /\ ConfirmHeld(p)
    BY <1>c DEF In, Ready, AnswersPinned, AnswerHeld, ConfirmHeld
  <2> QED
    BY <1>0, <1>c, <2>1, HeldStays
<1>d. ASSUME NEW p \in Programs, NEW to \in Calls \cup {Missing}, Goes(p, to),
             to \in Calls => to.step \notin {"answer", "confirm"}
      PROVE  Asked /\ Known
  <2>1. \A q \in Programs : /\ In(q, "answer")' => call'[q] = call[q]
                            /\ In(q, "confirm")' => call'[q] = call[q]
    BY <1>d, TalksOn
  <2> QED
    BY <1>c, <2>1
<1>e. ASSUME NEW p \in Programs, Returns(p) PROVE Asked /\ Known
  BY <1>d, <1>e DEF Returns
<1>1. CASE UNCHANGED pairingVars
  BY <1>1, <1>b, <1>c, <1>g DEF pairingVars
<1>2. ASSUME NEW p \in Programs, Initialize(p) \/ Rotate(p) PROVE AnswersPinned'
  <2>1. PICK to \in Calls : Goes(p, to) /\ to.step \in {"set", "replace"}
    <3>1. CASE Initialize(p)
      <4>1. [step |-> "set", new |-> NewKey(On[p])] \in Calls
        BY <3>1, NewKeyIsKey DEF Initialize, Calls
      <4> QED
        BY <3>1, <4>1 DEF Initialize
    <3>2. CASE Rotate(p)
      <4>1. [step |-> "replace", old |-> identity[On[p]], new |-> NewKey(On[p])] \in Calls
        BY <3>2, NewKeyIsKey DEF Rotate, CanSign, PairRows, Key, Calls
      <4> QED
        BY <3>2, <4>1 DEF Rotate
    <3> QED
      BY <1>2, <3>1, <3>2
  <2>2. Asked /\ Known
    BY <2>1, <1>d
  <2>3. Signed
    BY <1>2, <1>b DEF Initialize, Rotate
  <2> QED
    BY <2>2, <2>3, <1>g
<1>3. ASSUME NEW p \in Programs, VaultSet(p) \/ Reset(p) PROVE AnswersPinned'
  <2> DEFINE on == [step |-> "first", new |-> call[p].new]
             reset == [step |-> "reset"]
  <2>1. VaultSet(p) => on \in Calls /\ on.step = "first"
    <3>1. ASSUME VaultSet(p) PROVE call[p].new \in Keys
      BY <3>1, CallsHold DEF VaultSet, In, Ready, PairRows
    <3> QED
      BY <3>1 DEF Calls
  <2>2. reset \in Calls /\ reset.step = "reset"
    BY DEF Calls
  <2>3. Returns(p) \/ (VaultSet(p) /\ Goes(p, on)) \/ Goes(p, reset)
    BY <1>3 DEF VaultSet, Reset
  <2> HIDE DEF on, reset
  <2>4. Asked /\ Known
    BY <2>1, <2>2, <2>3, <1>d, <1>e
  <2>5. Signed
    BY <1>3, <1>b DEF VaultSet, Reset
  <2> QED
    BY <2>4, <2>5, <1>g
<1>4. ASSUME NEW p \in Programs, VaultReplace(p) \/ RotationLogged(p) PROVE AnswersPinned'
  <2> DEFINE logging == [call[p] EXCEPT !.step = "log"]
             next == [call[p] EXCEPT !.step = "next"]
  <2>1. logging \in Calls /\ next \in Calls /\ logging.step = "log" /\ next.step = "next"
    <3>1. call[p] \in [step : {"replace", "log", "next"}, old : Keys, new : Keys]
      BY <1>4, CallsHold DEF VaultReplace, RotationLogged, In, Ready, PairRows
    <3> QED
      BY <3>1 DEF Calls
  <2>2. Returns(p) \/ Goes(p, logging) \/ Goes(p, next)
    BY <1>4 DEF VaultReplace, RotationLogged
  <2> HIDE DEF logging, next
  <2>3. Asked /\ Known
    BY <2>1, <2>2, <1>d, <1>e
  <2>4. Signed
    BY <1>4, <1>b DEF VaultReplace, RotationLogged
  <2> QED
    BY <2>3, <2>4, <1>g
<1>5. ASSUME NEW p \in Programs,
             \/ InitializeFails(p) \/ WriteIdentity(p) \/ ResetRows(p) \/ Dies(p)
             \/ PairRefused(p) \/ PairBurn(p)
      PROVE  AnswersPinned'
  <2>1. Returns(p) /\ UNCHANGED accepted
    BY <1>5 DEF InitializeFails, WriteIdentity, ResetRows, Dies, PairRefused, PairBurn
  <2> QED
    BY <2>1, <1>b, <1>e, <1>g
<1>6. ASSUME NEW p \in Programs, NEW i \in Invites, PairAccept(p, i) PROVE AnswersPinned'
  <2>1. invites[i].key \in Keys /\ identity[On[p]] \in Keys
    BY <1>6 DEF PairAccept, PairRows, Key, InvitesTyped, InviteRow
  <2>2. PICK b \in Keys, k \in Keys : b = identity[On[p]] /\ k = invites[i].key
    BY <2>1
  <2>3. PICK to \in Calls : to = [step |-> "answer", invite |-> i, by |-> b]
    BY DEF Calls
  <2>4. Goes(p, to) /\ PinPeer(On[p], k) /\ b # k /\ invites[i].state # "none"
        /\ UNCHANGED <<identityVars, invites, accepted>>
    BY <1>6, <2>2, <2>3 DEF PairAccept
  <2>5. call'[p] = to /\ \A q \in Programs : q # p => call'[q] = call[q]
    BY <2>4, OneCall
  <2>6. b[1] = On[p] /\ On[p] \in Devices /\ k[1] \in Devices
    BY <2>2 DEF KeysOwned, Own, Keys
  <2>7. k \in pinnedBy'[On[p]]
    BY <1>0, <2>4, <2>6, Pins
  <2>8. k[1] = On[p] => Past(k)
    BY <2>2, <2>4, <2>6 DEF KeysOwned, Past
  <2>9. Answered(b, k)'
    <3>1. k[1] = On[p] => Past(k)'
      BY <2>8, UsedStays
    <3> QED
      BY <2>6, <2>7, <3>1 DEF Answered
  <2>10. AnswerHeld(p)'
    <3>1. call'[p].invite = i /\ call'[p].by = b /\ invites'[i].key = k /\ invites'[i].state # "none"
      BY <2>2, <2>3, <2>4, <2>5
    <3> QED
      BY <2>9, <3>1 DEF AnswerHeld, Answered, Past, Used, Own, Pending, Holding
  <2>11. ~In(p, "confirm")'
    BY <2>3, <2>5 DEF In, Ready
  <2>12. Asked /\ Known
    BY <1>c, <2>5, <2>10, <2>11
  <2> QED
    BY <2>4, <2>12, <1>b, <1>g
<1>7. ASSUME NEW p \in Programs, PairAnswer(p) PROVE AnswersPinned'
  <2>1. Returns(p)
    BY <1>7 DEF PairAnswer
  <2>2. AnswerHeld(p) /\ UNCHANGED <<identityVars, invites, pinnedBy>>
    BY <1>7 DEF PairAnswer, AnswersPinned, AnswerHeld
  <2>3. call[p] \in [step : {"answer"}, invite : Invites, by : Keys]
    BY <1>7, CallsHold DEF PairAnswer, In, Ready, PairRows
  <2>4. PICK b \in Keys, k \in Keys : b = call[p].by /\ k = invites[call[p].invite].key
    BY <2>2, <2>3 DEF AnswerHeld, Answered
  <2>5. Answered(b, k)'
    BY <1>0, <2>2, <2>4, AnsweredStays DEF AnswerHeld
  <2>6. \A a \in accepted' : a \in accepted \/ (a.by = b /\ a.to = k)
    BY <1>7, <2>4 DEF PairAnswer
  <2>7. Signed
    BY <1>a, <2>5, <2>6 DEF Answered, Past, Used, Own, Pending, Holding
  <2> QED
    BY <2>1, <2>7, <1>e, <1>g
<1>8. ASSUME NEW p \in Programs, NEW a \in accepted, PairConfirm(p, a) PROVE AnswersPinned'
  <2>1. PICK me \in Keys : me = identity[On[p]]
    BY <1>8 DEF PairConfirm, PairRows, Key
  <2>2. PICK to \in Calls : to = [step |-> "confirm", blob |-> a, me |-> me]
    BY DEF Calls, PairRows
  <2>3. Goes(p, to) /\ a.to = me /\ UNCHANGED <<accepted, pinnedBy>>
    BY <1>8, <2>1, <2>2 DEF PairConfirm, Answers
  <2>4. call'[p] = to /\ \A q \in Programs : q # p => call'[q] = call[q]
    BY <2>3, OneCall
  <2>5. me[1] = On[p] /\ identity[me[1]] = me
    BY <2>1 DEF KeysOwned, Own
  <2>6. a.by[1] # me[1] /\ me \in pinnedBy[a.by[1]]
    BY <2>3, <2>5 DEF AnswersPinned, Answered, Past
  <2>7. ConfirmHeld(p)' /\ ~In(p, "answer")'
    BY <2>2, <2>3, <2>4, <2>6 DEF ConfirmHeld, In, Ready
  <2>8. Asked /\ Known
    BY <1>c, <2>4, <2>7
  <2> QED
    BY <2>3, <2>8, <1>b, <1>g
<1>9. ASSUME \/ \E p \in Programs, i \in Invites : InviteCreate(p, i)
             \/ \E i \in Invites : InviteCancel(i) \/ InviteExpires(i)
             \/ \E d \in Devices, k \in Keys : PeerRevoke(d, k) \/ PeerForget(d, k)
      PROVE  AnswersPinned'
  <2>1. UNCHANGED <<call, accepted>>
    BY <1>9 DEF InviteCreate, InviteCancel, InviteExpires, PeerRevoke, PeerForget
  <2> QED
    BY <2>1, <1>b, <1>c, <1>g
<1> QED
  BY <1>1, <1>2, <1>3, <1>4, <1>5, <1>6, <1>7, <1>8, <1>9 DEF PairingNext
LEMMA LetInStays ==
    ASSUME PairRows, PairRows', AnswersPinned, LetIn, KeyStep, [PairingNext]_pairingVars
    PROVE  LetIn'
<1> USE PairingAssumption
<1>0. \A d \in Devices : pinnedBy[d] \subseteq pinnedBy'[d]
  BY PinsStay DEF AnswersPinned
<1>1. ASSUME NEW i \in Invites, admitted'[i] = admitted[i]
      PROVE  /\ admitted'[i] # {} => invites'[i].state \in {"gone", "redeemed"}
             /\ \A a, b \in admitted'[i] : a = b
             /\ \A a \in admitted'[i] :
                    a.inviter \in pinnedBy'[a.peer[1]] /\ a.peer[1] # a.inviter[1]
  <2>1. ASSUME NEW a \in admitted[i] PROVE a.peer[1] \in Devices
    BY DEF PairRows, Keys
  <2> QED
    BY <1>0, <1>1, <2>1 DEF LetIn, KeyStep, InviteStep
<1>2. ASSUME UNCHANGED admitted PROVE LetIn'
  BY <1>1, <1>2 DEF LetIn
<1>3. ASSUME NEW p \in Programs, PairBurn(p) PROVE LetIn'
  <2>1. call[p] \in [step : {"confirm"}, blob : Blobs, me : Keys]
    BY <1>3, CallsHold DEF PairBurn, In, Ready, PairRows
  <2>2. PICK i \in Invites, by \in Keys, me \in Keys :
            i = call[p].blob.invite /\ by = call[p].blob.by /\ me = call[p].me
    BY <2>1 DEF Blobs
  <2> DEFINE one == [peer |-> by, inviter |-> me]
  <2>3. invites[i].state = "open" /\ invites'[i].state = "redeemed"
    <3>1. invites \in [Invites -> InviteRow]
      BY DEF PairRows, InvitesTyped
    <3>2. invites[i].state = "open" /\ invites' = [invites EXCEPT ![i].state = "redeemed"]
      BY <1>3, <2>2 DEF PairBurn, Redeemable
    <3> QED
      BY <3>1, <3>2 DEF InviteRow
  <2>4. admitted[i] = {}
    BY <2>3 DEF LetIn
  <2>5. admitted'[i] = {one} /\ \A j \in Invites : j # i => admitted'[j] = admitted[j]
    BY <1>3, <2>2, <2>4 DEF PairBurn, PairRows
  <2>6. by[1] # me[1] /\ me \in pinnedBy[by[1]] /\ by[1] \in Devices
    BY <1>3, <2>2 DEF PairBurn, AnswersPinned, Keys
  <2>7. \A a \in admitted'[i] : a.inviter \in pinnedBy'[a.peer[1]] /\ a.peer[1] # a.inviter[1]
    BY <1>0, <2>5, <2>6
  <2> QED
    BY <1>1, <2>3, <2>5, <2>7 DEF LetIn
<1>4. CASE UNCHANGED pairingVars
  BY <1>2, <1>4 DEF pairingVars
<1>5. CASE \E p \in Programs :
             \/ Initialize(p) \/ VaultSet(p) \/ InitializeFails(p)
             \/ Rotate(p) \/ VaultReplace(p) \/ RotationLogged(p) \/ WriteIdentity(p)
             \/ Reset(p) \/ ResetRows(p) \/ Dies(p)
  BY <1>2, <1>5 DEF Initialize, VaultSet, InitializeFails, Rotate, VaultReplace, RotationLogged,
     WriteIdentity, Reset, ResetRows, Dies
<1>6. CASE \E p \in Programs :
             \/ \E i \in Invites : InviteCreate(p, i) \/ PairAccept(p, i)
             \/ PairAnswer(p)
             \/ \E a \in accepted : PairConfirm(p, a)
             \/ PairRefused(p)
  BY <1>2, <1>6 DEF InviteCreate, PairAccept, PairAnswer, PairConfirm, PairRefused
<1>7. CASE \/ \E i \in Invites : InviteCancel(i) \/ InviteExpires(i)
           \/ \E d \in Devices, k \in Keys : PeerRevoke(d, k) \/ PeerForget(d, k)
  BY <1>2, <1>7 DEF InviteCancel, InviteExpires, PeerRevoke, PeerForget
<1> QED
  BY <1>3, <1>4, <1>5, <1>6, <1>7 DEF PairingNext

LEMMA PairInvHolds == PairingSpec => []PairInv
<1>1. PairingInit => PairInv
  <2> SUFFICES ASSUME PairingInit PROVE PairInv
    OBVIOUS
  <2> USE PairingAssumption
  <2>1. PairRows
    BY DEF PairingInit, PairRows, InvitesTyped, InviteRow, Key
  <2>2. \A p \in Programs : ~Holding(p) /\ ~In(p, "answer") /\ ~In(p, "confirm")
    BY DEF PairingInit, Holding, In, Ready
  <2>3. KeysOwned /\ AnswersPinned /\ LetIn
    BY <2>2 DEF PairingInit, KeysOwned, AnswersPinned, PeersKnown, LetIn
  <2> QED
    BY <2>1, <2>3 DEF PairInv
<1>2. PairInv /\ [PairingNext]_pairingVars => PairInv'
  <2> SUFFICES ASSUME PairInv, [PairingNext]_pairingVars PROVE PairInv'
    OBVIOUS
  <2>1. PairRows /\ PairRows' /\ KeysOwned /\ AnswersPinned /\ LetIn
    BY RowsStep DEF PairInv
  <2>2. KeyStep
    BY <2>1, StepIsKeyStep
  <2> QED
    BY <2>1, <2>2, KeysOwnedStays, AnswersPinnedStays, LetInStays DEF PairInv
<1> QED
  BY <1>1, <1>2, PTL DEF PairingSpec

\* The tables hold keys that were generated, their device's own in its vault and as its
\* identity; an invite there is was signed, and a row of a peer is a pin there was.
THEOREM KeysTyped == PairingSpec => []PairingTypeOK
<1>1. PairInv => PairingTypeOK
  <2> SUFFICES ASSUME PairInv PROVE PairingTypeOK
    OBVIOUS
  <2>1. \A i \in Invites : /\ invites[i].state \in {"none", "open", "gone", "redeemed"}
                           /\ invites[i].key = Missing <=> invites[i].state = "none"
    BY DEF PairInv, PairRows, InvitesTyped, InviteRow
  <2>2. \A a \in accepted : {a.by, a.to, a.signer} \subseteq Keys
    BY DEF PairInv, PairRows, AnswersPinned, Answered, Blobs
  <2> QED
    BY <2>1, <2>2 DEF PairInv, PairRows, KeysOwned, Own, AnswersPinned, PeersKnown, PairingTypeOK
<1> QED
  BY <1>1, PairInvHolds, PTL

\* Through rotations, resets, deaths, blobs carried twice or to the wrong device, and any
\* number of programs on a device: pair_confirm lets one key in per invite at most, and
\* only one whose device had pinned the inviter's key at its own end.
THEOREM PairsAreMutual == PairingSpec => []PairingIsMutual
<1>1. PairInv => PairingIsMutual
  <2> SUFFICES ASSUME PairInv, NEW i \in Invites
               PROVE  /\ Cardinality(admitted[i]) <= 1
                      /\ \A a \in admitted[i] :
                             a.inviter \in pinnedBy[a.peer[1]] /\ a.peer[1] # a.inviter[1]
    BY DEF PairingIsMutual
  <2>1. Cardinality(admitted[i]) <= 1
    <3>1. CASE admitted[i] = {}
      BY <3>1, FS_EmptySet
    <3>2. CASE admitted[i] # {}
      <4>1. PICK a \in admitted[i] : TRUE
        BY <3>2
      <4>2. admitted[i] = {a}
        BY <4>1 DEF PairInv, LetIn
      <4>3. Cardinality({a}) = 1
        BY FS_Singleton
      <4> QED
        BY <4>2, <4>3
    <3> QED
      BY <3>1, <3>2
  <2> QED
    BY <2>1 DEF PairInv, LetIn
<1> QED
  BY <1>1, PairInvHolds, PTL
-----------------------------------------------------------------------------
(***************************************************************************)
(* The identity of a device that one program uses.                         *)
(***************************************************************************)

\* Steps before which the halves of an identity differ.
Mid(p) == ~Ready(p) /\ call[p].step \in {"first", "log", "next", "reset"}

\* The chain of a device's rotations ends in this key.
EndsIn(d, k) == \A r \in rotations[d] : r[2] = k \/ \E s \in rotations[d] : s[1] = r[2]

\* What a program that is not disturbed finds at each of its steps.
Between(p) ==
    LET d == On[p] IN
    /\ ~Mid(p) => vault[d] = identity[d] /\ EndsIn(d, identity[d])
    /\ In(p, "set") => identity[d] = Missing
    /\ In(p, "first") => vault[d] = call[p].new /\ identity[d] = Missing /\ EndsIn(d, Missing)
    /\ In(p, "replace") => identity[d] = call[p].old
    /\ In(p, "log") => vault[d] = call[p].new /\ EndsIn(d, call[p].old)
    /\ In(p, "next") => vault[d] = call[p].new /\ EndsIn(d, call[p].new)

LoneInv(p) ==
    LET d == On[p] IN
    /\ In(p, "reset") => vault[d] = Missing
    /\ ~torn[d] => Between(p)

\* A device that no program uses has no identity.
WholeInv ==
    /\ \A p \in Programs : Alone(On[p]) => LoneInv(p)
    /\ \A d \in Devices : (\A p \in Programs : On[p] # d) =>
           vault[d] = Missing /\ identity[d] = Missing /\ rotations[d] = {}

\* A step of one program leaves the identities of other devices, and other calls, alone.
Elsewhere(p) ==
    /\ \A d \in Devices : d # On[p] =>
           /\ vault'[d] = vault[d] /\ identity'[d] = identity[d]
           /\ rotations'[d] = rotations[d] /\ torn'[d] = torn[d]
    /\ \A q \in Programs : q # p => call'[q] = call[q]

LEMMA LoneStays ==
    ASSUME NEW p \in Programs, LoneInv(p), call'[p] = call[p],
           vault'[On[p]] = vault[On[p]], identity'[On[p]] = identity[On[p]],
           rotations'[On[p]] = rotations[On[p]], torn'[On[p]] = torn[On[p]]
    PROVE  LoneInv(p)'
<1>1. (In(p, "reset") => vault[On[p]] = Missing)'
  BY DEF LoneInv, In, Ready
<1>2. ASSUME Between(p) PROVE Between(p)'
  BY <1>2 DEF Between, Mid, In, Ready, EndsIn
<1>3. (~torn[On[p]])' => ~torn[On[p]]
  OBVIOUS
<1> QED
  BY <1>1, <1>2, <1>3 DEF LoneInv

LEMMA WholeByOne ==
    ASSUME PairRows, WholeInv, NEW p \in Programs, Elsewhere(p), Alone(On[p]) => LoneInv(p)'
    PROVE  WholeInv'
<1> USE PairingAssumption
<1>1. ASSUME NEW q \in Programs, Alone(On[q]) PROVE LoneInv(q)'
  <2>1. CASE q = p
    BY <1>1, <2>1
  <2>2. CASE q # p
    <3>1. On[q] # On[p] /\ On[q] \in Devices
      BY <1>1, <2>2 DEF Alone
    <3>2. LoneInv(q)
      BY <1>1 DEF WholeInv
    <3> QED
      BY <2>2, <3>1, <3>2, LoneStays DEF Elsewhere
  <2> QED
    BY <2>1, <2>2
<1>2. ASSUME NEW d \in Devices, \A q \in Programs : On[q] # d
      PROVE  vault'[d] = Missing /\ identity'[d] = Missing /\ rotations'[d] = {}
  BY <1>2 DEF WholeInv, Elsewhere
<1>3. \A d : Alone(d)' <=> Alone(d)
  BY DEF Alone
<1> QED
  BY <1>1, <1>2, <1>3 DEF WholeInv

\* A call that ends, goes on or begins where the halves match may find them so again.
LEMMA LoneRests ==
    ASSUME PairRows, NEW p \in Programs, LoneInv(p), ~Mid(p), ~Mid(p)',
           NEW to \in Calls \cup {Missing}, Goes(p, to),
           UNCHANGED <<vault, identity, rotations, torn>>,
           to \in Calls /\ to.step = "set" => identity[On[p]] = Missing,
           to \in Calls /\ to.step = "replace" => identity[On[p]] = to.old
    PROVE  LoneInv(p)'
<1>1. call'[p] = to
  BY OneCall
<1>2. ~In(p, "reset")' /\ ~In(p, "first")' /\ ~In(p, "log")' /\ ~In(p, "next")'
  BY DEF Mid, In
<1>3. ASSUME ~torn[On[p]] PROVE Between(p)'
  <2>1. Between(p)
    BY <1>3 DEF LoneInv
  <2>2. (vault[On[p]] = identity[On[p]] /\ EndsIn(On[p], identity[On[p]]))'
    BY <2>1 DEF Between, EndsIn
  <2>3. /\ (In(p, "set") => identity[On[p]] = Missing)'
        /\ (In(p, "replace") => identity[On[p]] = call[p].old)'
    BY <1>1 DEF In, Ready
  <2> QED
    BY <1>2, <2>2, <2>3 DEF Between
<1> QED
  BY <1>2, <1>3 DEF LoneInv
LEMMA LoneReturns ==
    ASSUME NEW p \in Programs, call'[p] = Missing,
           (~torn[On[p]])' => (vault[On[p]] = identity[On[p]] /\ EndsIn(On[p], identity[On[p]]))'
    PROVE  LoneInv(p)'
<1>1. /\ ~In(p, "reset")' /\ ~In(p, "set")' /\ ~In(p, "first")' /\ ~In(p, "replace")'
      /\ ~In(p, "log")' /\ ~In(p, "next")'
  BY DEF In, Ready
<1> QED
  BY <1>1 DEF LoneInv, Between

LEMMA WholeStep ==
    ASSUME PairRows, PairRows', KeysOwned, WholeInv, [PairingNext]_pairingVars
    PROVE  WholeInv'
<1> USE PairingAssumption
<1>a. ASSUME NEW p \in Programs, NEW to \in Calls \cup {Missing}, Goes(p, to),
             \A d \in Devices : d # On[p] => vault'[d] = vault[d],
             \A d \in Devices : d # On[p] => identity'[d] = identity[d],
             \A d \in Devices : d # On[p] => rotations'[d] = rotations[d],
             \A d \in Devices : d # On[p] => torn'[d] = torn[d]
      PROVE  Elsewhere(p) /\ call'[p] = to
  BY <1>a, OneCall DEF Elsewhere
<1>b. ASSUME NEW p \in Programs, NEW to \in Calls \cup {Missing}, Goes(p, to), ~Mid(p),
             to \in Calls => to.step \notin {"first", "log", "next", "reset"},
             UNCHANGED <<vault, identity, rotations, torn>>,
             to \in Calls /\ to.step = "set" => identity[On[p]] = Missing,
             to \in Calls /\ to.step = "replace" => identity[On[p]] = to.old
      PROVE  WholeInv'
  <2>1. Elsewhere(p) /\ call'[p] = to
    BY <1>b, <1>a
  <2>2. ~Mid(p)'
    BY <1>b, <2>1 DEF Mid, Ready
  <2>3. Alone(On[p]) => LoneInv(p)
    BY DEF WholeInv
  <2> QED
    BY <1>b, <2>1, <2>2, <2>3, LoneRests, WholeByOne
<1>c. ASSUME UNCHANGED <<identityVars, torn, call>> PROVE WholeInv'
  <2>1. \A d : Alone(d)' <=> Alone(d)
    BY DEF Alone
  <2>2. ASSUME NEW p \in Programs, Alone(On[p]) PROVE LoneInv(p)'
    BY <1>c, <2>2, LoneStays DEF WholeInv, identityVars
  <2> QED
    BY <1>c, <2>1, <2>2 DEF WholeInv, identityVars
<1>1. CASE UNCHANGED pairingVars
  BY <1>1, <1>c DEF pairingVars
<1>2. ASSUME NEW p \in Programs, Initialize(p) PROVE WholeInv'
  <2> DEFINE to == [step |-> "set", new |-> NewKey(On[p])]
  <2>1. to \in Calls /\ to.step = "set"
    BY <1>2, NewKeyIsKey DEF Initialize, Calls
  <2>2. /\ Goes(p, to) /\ ~Mid(p) /\ UNCHANGED <<vault, identity, rotations, torn>>
        /\ identity[On[p]] = Missing
    BY <1>2 DEF Initialize, Mid
  <2> HIDE DEF to
  <2> QED
    BY <2>1, <2>2, <1>b
<1>3. ASSUME NEW p \in Programs, Rotate(p) PROVE WholeInv'
  <2> DEFINE to == [step |-> "replace", old |-> identity[On[p]], new |-> NewKey(On[p])]
  <2>1. to \in Calls /\ to.step = "replace" /\ to.old = identity[On[p]]
    BY <1>3, NewKeyIsKey DEF Rotate, CanSign, PairRows, Key, Calls
  <2>2. Goes(p, to) /\ ~Mid(p) /\ UNCHANGED <<vault, identity, rotations, torn>>
    BY <1>3 DEF Rotate, Mid
  <2> HIDE DEF to
  <2> QED
    BY <2>1, <2>2, <1>b
<1>4. ASSUME NEW p \in Programs,
             \/ VaultSet(p) /\ vault[On[p]] # Missing
             \/ VaultReplace(p) /\ vault[On[p]] = Missing
             \/ PairAnswer(p) \/ PairBurn(p) \/ PairRefused(p)
      PROVE  WholeInv'
  <2>1. Goes(p, Missing) /\ UNCHANGED <<vault, identity, rotations, torn>>
    BY <1>4 DEF VaultSet, VaultReplace, PairAnswer, PairBurn, PairRefused, Returns, identityVars
  <2>2. ~Mid(p)
    BY <1>4 DEF VaultSet, VaultReplace, PairAnswer, PairBurn, PairRefused, In, Mid
  <2> QED
    BY <2>1, <2>2, <1>b
<1>5. ASSUME NEW p \in Programs, \/ \E i \in Invites : PairAccept(p, i)
                                 \/ \E a \in accepted : PairConfirm(p, a)
      PROVE  WholeInv'
  <2>1. PICK to \in Calls : Goes(p, to) /\ to.step \in {"answer", "confirm"}
    <3>1. ASSUME NEW i \in Invites, PairAccept(p, i)
          PROVE  \E to \in Calls : Goes(p, to) /\ to.step \in {"answer", "confirm"}
      <4>1. [step |-> "answer", invite |-> i, by |-> identity[On[p]]] \in Calls
        BY <3>1 DEF PairAccept, PairRows, Key, Calls
      <4> QED
        BY <3>1, <4>1 DEF PairAccept
    <3>2. ASSUME NEW a \in accepted, PairConfirm(p, a)
          PROVE  \E to \in Calls : Goes(p, to) /\ to.step \in {"answer", "confirm"}
      <4>1. [step |-> "confirm", blob |-> a, me |-> identity[On[p]]] \in Calls
        BY <3>2 DEF PairConfirm, PairRows, Key, Calls
      <4> QED
        BY <3>2, <4>1 DEF PairConfirm
    <3> QED
      BY <1>5, <3>1, <3>2
  <2>2. ~Mid(p) /\ UNCHANGED <<vault, identity, rotations, torn>>
    BY <1>5 DEF PairAccept, PairConfirm, Mid, identityVars
  <2> QED
    BY <2>1, <2>2, <1>b
<1>6. CASE \/ \E p \in Programs, i \in Invites : InviteCreate(p, i)
           \/ \E i \in Invites : InviteCancel(i) \/ InviteExpires(i)
           \/ \E d \in Devices, k \in Keys : PeerRevoke(d, k) \/ PeerForget(d, k)
  <2>1. UNCHANGED <<identityVars, torn, call>>
    BY <1>6 DEF InviteCreate, InviteCancel, InviteExpires, PeerRevoke, PeerForget
  <2> QED
    BY <2>1, <1>c
<1>7. ASSUME NEW p \in Programs, VaultSet(p), vault[On[p]] = Missing PROVE WholeInv'
  <2>1. call[p].new \in Keys
    BY <1>7, CallsHold DEF VaultSet, In, Ready, PairRows
  <2>2. PICK to \in Calls : to = [step |-> "first", new |-> call[p].new]
    BY <2>1 DEF Calls
  <2>3. Goes(p, to) /\ vault' = [vault EXCEPT ![On[p]] = call[p].new]
        /\ UNCHANGED <<identity, rotations, torn>> /\ In(p, "set")
    BY <1>7, <2>2 DEF VaultSet
  <2>4. Elsewhere(p) /\ call'[p] = to
    BY <2>3, <1>a DEF PairRows
  <2>5. ASSUME LoneInv(p) PROVE LoneInv(p)'
    <3>1. vault'[On[p]] = to.new /\ On[p] \in Devices
      BY <2>2, <2>3 DEF PairRows
    <3>2. ASSUME ~torn[On[p]] PROVE identity[On[p]] = Missing /\ EndsIn(On[p], Missing)
      BY <2>3, <2>5, <3>2 DEF LoneInv, Between, Mid, In
    <3>3. ASSUME ~torn[On[p]] PROVE Between(p)'
      BY <2>2, <2>3, <2>4, <3>1, <3>2, <3>3 DEF Between, Mid, In, Ready, EndsIn
    <3> QED
      BY <2>2, <2>3, <2>4, <3>3 DEF LoneInv, In, Ready
  <2> QED
    BY <2>4, <2>5, WholeByOne DEF WholeInv
<1>8. ASSUME NEW p \in Programs, InitializeFails(p) PROVE WholeInv'
  <2>1. Goes(p, Missing) /\ vault' = [vault EXCEPT ![On[p]] = Missing]
        /\ UNCHANGED <<identity, rotations, torn>> /\ In(p, "first")
    BY <1>8 DEF InitializeFails, Forgets, Returns
  <2>2. Elsewhere(p) /\ call'[p] = Missing
    BY <2>1, <1>a DEF PairRows
  <2>3. ASSUME LoneInv(p), ~torn[On[p]]
        PROVE  (vault[On[p]] = identity[On[p]] /\ EndsIn(On[p], identity[On[p]]))'
    <3>1. identity[On[p]] = Missing /\ EndsIn(On[p], Missing)
      BY <2>1, <2>3 DEF LoneInv, Between
    <3>2. vault'[On[p]] = Missing
      BY <2>1 DEF PairRows
    <3> QED
      BY <2>1, <3>1, <3>2 DEF EndsIn
  <2>4. LoneInv(p) => LoneInv(p)'
    BY <2>1, <2>2, <2>3, LoneReturns
  <2> QED
    BY <2>2, <2>4, WholeByOne DEF WholeInv
<1>9. ASSUME NEW p \in Programs, VaultReplace(p), vault[On[p]] # Missing PROVE WholeInv'
  <2>1. call[p] \in [step : {"replace", "log", "next"}, old : Keys, new : Keys]
    BY <1>9, CallsHold DEF VaultReplace, In, Ready, PairRows
  <2>2. PICK to \in Calls : to = [call[p] EXCEPT !.step = "log"]
    BY <2>1 DEF Calls
  <2>3. to.step = "log" /\ to.old = call[p].old /\ to.new = call[p].new
    BY <2>1, <2>2
  <2>4. Goes(p, to) /\ vault' = [vault EXCEPT ![On[p]] = call[p].new]
        /\ UNCHANGED <<identity, rotations, torn>> /\ In(p, "replace")
    BY <1>9, <2>2 DEF VaultReplace
  <2>5. Elsewhere(p) /\ call'[p] = to
    BY <2>4, <1>a DEF PairRows
  <2>6. ASSUME LoneInv(p) PROVE LoneInv(p)'
    <3>1. vault'[On[p]] = to.new
      BY <2>3, <2>4 DEF PairRows
    <3>2. ASSUME ~torn[On[p]] PROVE EndsIn(On[p], to.old)
      BY <2>3, <2>4, <2>6, <3>2 DEF LoneInv, Between, Mid, In
    <3>3. ASSUME ~torn[On[p]] PROVE Between(p)'
      BY <2>3, <2>4, <2>5, <3>1, <3>2, <3>3 DEF Between, Mid, In, Ready, EndsIn
    <3> QED
      BY <2>3, <2>4, <2>5, <3>3 DEF LoneInv, In, Ready
  <2> QED
    BY <2>5, <2>6, WholeByOne DEF WholeInv
<1>10. ASSUME NEW p \in Programs, RotationLogged(p) PROVE WholeInv'
  <2>1. call[p] \in [step : {"replace", "log", "next"}, old : Keys, new : Keys]
    BY <1>10, CallsHold DEF RotationLogged, In, Ready, PairRows
  <2>2. PICK to \in Calls : to = [call[p] EXCEPT !.step = "next"]
    BY <2>1 DEF Calls
  <2>3. to.step = "next" /\ to.old = call[p].old /\ to.new = call[p].new
    BY <2>1, <2>2
  <2>4. /\ Goes(p, to) /\ In(p, "log") /\ UNCHANGED <<vault, identity, torn>>
        /\ rotations' = [rotations EXCEPT ![On[p]] = @ \cup {<<call[p].old, call[p].new>>}]
    BY <1>10, <2>2 DEF RotationLogged
  <2>5. Elsewhere(p) /\ call'[p] = to
    BY <2>4, <1>a DEF PairRows
  <2>6. ASSUME LoneInv(p) PROVE LoneInv(p)'
    <3>1. rotations'[On[p]] = rotations[On[p]] \cup {<<to.old, to.new>>}
      BY <2>3, <2>4 DEF PairRows
    <3>2. ASSUME ~torn[On[p]] PROVE vault[On[p]] = to.new /\ EndsIn(On[p], to.old)
      BY <2>3, <2>4, <2>6, <3>2 DEF LoneInv, Between
    <3>3. ASSUME ~torn[On[p]] PROVE EndsIn(On[p], to.new)'
      <4> DEFINE R == rotations[On[p]]
                 row == <<to.old, to.new>>
      <4>1. row[1] = to.old /\ row[2] = to.new
        OBVIOUS
      <4>2. ASSUME NEW r \in R
            PROVE  r[2] = to.new \/ \E s \in R \cup {row} : s[1] = r[2]
        BY <3>2, <3>3, <4>1 DEF EndsIn
      <4>3. rotations'[On[p]] = R \cup {row}
        BY <3>1
      <4> HIDE DEF R, row
      <4> QED
        BY <4>1, <4>2, <4>3 DEF EndsIn
    <3>4. ASSUME ~torn[On[p]] PROVE Between(p)'
      BY <2>3, <2>4, <2>5, <3>2, <3>3, <3>4 DEF Between, Mid, In, Ready, EndsIn
    <3> QED
      BY <2>3, <2>4, <2>5, <3>4 DEF LoneInv, In, Ready
  <2> QED
    BY <2>5, <2>6, WholeByOne DEF WholeInv
<1>11. ASSUME NEW p \in Programs, WriteIdentity(p) PROVE WholeInv'
  <2>1. call[p].new \in Keys
    BY <1>11, CallsHold DEF WriteIdentity, In, Ready, PairRows
  <2>2. /\ Goes(p, Missing) /\ UNCHANGED <<vault, rotations, torn>>
        /\ identity' = [identity EXCEPT ![On[p]] = call[p].new]
        /\ In(p, "first") \/ In(p, "next")
    BY <1>11 DEF WriteIdentity, Returns
  <2>3. Elsewhere(p) /\ call'[p] = Missing
    BY <2>2, <1>a DEF PairRows
  <2>4. ASSUME LoneInv(p), ~torn[On[p]]
        PROVE  (vault[On[p]] = identity[On[p]] /\ EndsIn(On[p], identity[On[p]]))'
    <3>1. vault[On[p]] = call[p].new
      BY <2>2, <2>4 DEF LoneInv, Between
    <3>2. EndsIn(On[p], call[p].new)
      <4>1. EndsIn(On[p], Missing) \/ EndsIn(On[p], call[p].new)
        BY <2>2, <2>4 DEF LoneInv, Between
      <4>2. \A r \in rotations[On[p]] : r[2] # Missing
        BY DEF PairRows
      <4> QED
        BY <4>1, <4>2 DEF EndsIn
    <3>3. identity'[On[p]] = call[p].new
      BY <2>2 DEF PairRows
    <3> QED
      BY <2>2, <3>1, <3>2, <3>3 DEF EndsIn
  <2>5. LoneInv(p) => LoneInv(p)'
    BY <2>2, <2>3, <2>4, LoneReturns
  <2> QED
    BY <2>3, <2>5, WholeByOne DEF WholeInv
<1>12. ASSUME NEW p \in Programs, Reset(p) PROVE WholeInv'
  <2>1. PICK to \in Calls : to = [step |-> "reset"]
    BY DEF Calls
  <2>2. /\ Goes(p, to) /\ UNCHANGED <<identity, rotations, torn>>
        /\ vault' = [vault EXCEPT ![On[p]] = Missing]
    BY <1>12, <2>1 DEF Reset, Forgets
  <2>3. Elsewhere(p) /\ call'[p] = to
    BY <2>2, <1>a DEF PairRows
  <2>4. vault'[On[p]] = Missing
    BY <2>2 DEF PairRows
  <2>5. LoneInv(p)'
    <3>1. /\ Mid(p)' /\ ~In(p, "set")' /\ ~In(p, "first")' /\ ~In(p, "replace")'
          /\ ~In(p, "log")' /\ ~In(p, "next")'
      BY <2>1, <2>3 DEF Mid, In, Ready
    <3> QED
      BY <2>4, <3>1 DEF LoneInv, Between
  <2> QED
    BY <2>3, <2>5, WholeByOne
<1>13. ASSUME NEW p \in Programs, ResetRows(p) PROVE WholeInv'
  <2>1. /\ Goes(p, Missing) /\ UNCHANGED vault /\ In(p, "reset")
        /\ identity' = [identity EXCEPT ![On[p]] = Missing]
        /\ rotations' = [rotations EXCEPT ![On[p]] = {}]
        /\ torn' = [torn EXCEPT ![On[p]] = FALSE]
    BY <1>13 DEF ResetRows, Returns
  <2>2. Elsewhere(p) /\ call'[p] = Missing
    BY <2>1, <1>a DEF PairRows
  <2>3. identity'[On[p]] = Missing /\ rotations'[On[p]] = {}
    BY <2>1 DEF PairRows
  <2>4. LoneInv(p) => LoneInv(p)'
    BY <2>1, <2>2, <2>3, LoneReturns DEF LoneInv, EndsIn
  <2> QED
    BY <2>2, <2>4, WholeByOne DEF WholeInv
<1>14. ASSUME NEW p \in Programs, Dies(p) PROVE WholeInv'
  <2> DEFINE mid == call[p].step \in {"first", "log", "next", "reset"}
  <2>1. /\ Goes(p, Missing) /\ ~Ready(p) /\ UNCHANGED <<vault, identity, rotations>>
        /\ torn' = [torn EXCEPT ![On[p]] = @ \/ mid]
    BY <1>14 DEF Dies, Returns, identityVars
  <2>2. Elsewhere(p) /\ call'[p] = Missing
    BY <2>1, <1>a DEF PairRows
  <2>3. (~torn[On[p]])' => ~torn[On[p]] /\ ~Mid(p)
    <3>1. torn'[On[p]] = (torn[On[p]] \/ mid)
      BY <2>1 DEF PairRows
    <3> QED
      BY <3>1 DEF Mid
  <2>4. LoneInv(p) => LoneInv(p)'
    BY <2>1, <2>2, <2>3, LoneReturns DEF LoneInv, Between, EndsIn
  <2> QED
    BY <2>2, <2>4, WholeByOne DEF WholeInv
<1>15. ASSUME NEW p \in Programs, VaultSet(p) \/ VaultReplace(p) PROVE WholeInv'
  BY <1>4, <1>7, <1>9, <1>15
<1> QED
  BY <1>1, <1>2, <1>3, <1>4, <1>5, <1>6, <1>8, <1>10, <1>11, <1>12, <1>13, <1>14, <1>15
     DEF PairingNext

\* Where one program uses a device: unless a write of its identity was cut short since its
\* last reset, its identity is the key in its vault, at the end of its chain of rotations,
\* whenever no call is under way.
THEOREM IdentitiesAreWhole == PairingSpec => []IdentityIsWhole
<1>1. PairingInit => WholeInv
  BY PairingAssumption DEF PairingInit, WholeInv, LoneInv, Between, EndsIn, In, Ready
<1>2. PairInv /\ WholeInv /\ [PairingNext]_pairingVars => WholeInv'
  BY RowsStep, WholeStep DEF PairInv
<1>3. WholeInv => IdentityIsWhole
  <2> SUFFICES ASSUME WholeInv, NEW d \in Devices, Alone(d), ~torn[d],
                      \A p \in Programs : On[p] = d => Ready(p)
               PROVE  vault[d] = identity[d] /\ EndsIn(d, identity[d])
    BY DEF IdentityIsWhole, EndsIn
  <2>1. CASE \E p \in Programs : On[p] = d
    <3>1. PICK p \in Programs : On[p] = d
      BY <2>1
    <3>2. LoneInv(p) /\ ~Mid(p)
      BY <3>1 DEF WholeInv, Mid
    <3> QED
      BY <3>1, <3>2 DEF LoneInv, Between
  <2>2. CASE \A p \in Programs : On[p] # d
    BY <2>2 DEF WholeInv, EndsIn
  <2> QED
    BY <2>1, <2>2
<1> QED
  BY <1>1, <1>2, <1>3, PairInvHolds, PTL DEF PairingSpec
=============================================================================
