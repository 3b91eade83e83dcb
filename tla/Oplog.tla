--------------------------------- MODULE Oplog ---------------------------------
(***************************************************************************)
(* The operation log: what devices will exchange when there is a           *)
(* transport.  Triggers note which row a write touched; seal reads what    *)
(* was noted, reads the rows as they are by then, and signs one operation  *)
(* per row, stamped by a hybrid clock that outlives the process.           *)
(*                                                                         *)
(* The list of what was noted is read before the transaction that seals    *)
(* it, so writes and other seals come in between; the system's clock jumps *)
(* both ways; the device's key is rotated under the log.  Writes are       *)
(* numbered, and the number stands for the contents a row got from it.     *)
(***************************************************************************)
EXTENDS Integers, FiniteSetsExt

CONSTANTS Rows,      \* ids in replicated tables; a new row has a new id
          Facts,     \* those in the tables that are only ever inserted into
          Sealers,   \* processes that may seal
          MaxDrift,  \* how far the log's clock may be ahead of the system's
          MaxWrites, \* bound: writes to replicated rows
          MaxWall,   \* bound: readings of the system's clock
          MaxKey     \* bound: keys the device has one after the other

ASSUME OplogAssumption ==
    /\ Facts \subseteq Rows
    /\ {MaxDrift, MaxWrites, MaxWall, MaxKey} \subseteq Nat

VARIABLES rows,   \* the replicated tables: the write that made each row, and is it there?
          writes, \* how many writes there were
          outbox, \* sync_outbox
          oplog,  \* sync_oplog
          clock,  \* sync_clock
          now,    \* the system's clock
          key,    \* the device's key; 0 if it has none it can sign with
          keys,   \* how many keys it had
          listed  \* what each process has listed to seal

oplogVars == <<rows, writes, outbox, oplog, clock, now, key, keys, listed>>

OplogInit ==
    /\ rows = [r \in Rows |-> [write |-> 0, there |-> FALSE]]
    /\ writes = 0
    /\ outbox = {}
    /\ oplog = {}
    /\ clock = [wall |-> 0, counter |-> 0]
    /\ now \in 0..MaxWall
    /\ key = 0
    /\ keys = 0
    /\ listed = [p \in Sealers |-> {}]

-----------------------------------------------------------------------------

Captured(r, deleted) ==
    /\ writes < MaxWrites
    /\ writes' = writes + 1
    /\ outbox' = outbox \cup {[seq |-> writes + 1, row |-> r, deleted |-> deleted]}
    /\ UNCHANGED <<oplog, clock, now, key, keys, listed>>

\* An insert, or an update of a row that is there and may change.
Write(r) ==
    /\ \/ rows[r].write = 0
       \/ rows[r].there /\ r \notin Facts
    /\ Captured(r, FALSE)
    /\ rows' = [rows EXCEPT ![r] = [write |-> writes + 1, there |-> TRUE]]

Delete(r) ==
    /\ rows[r].there
    /\ r \notin Facts
    /\ Captured(r, TRUE)
    /\ rows' = [rows EXCEPT ![r].there = FALSE]

SystemClock ==
    /\ now' \in 0..MaxWall
    /\ UNCHANGED <<rows, writes, outbox, oplog, clock, key, keys, listed>>

\* The device gets its first key, another one, or none that signs.
KeyChanges ==
    /\ \/ keys < MaxKey /\ keys' = keys + 1 /\ key' = keys + 1
       \/ key # 0 /\ key' = 0 /\ UNCHANGED keys
    /\ UNCHANGED <<rows, writes, outbox, oplog, clock, now, listed>>

-----------------------------------------------------------------------------
(***************************************************************************)
(* seal.                                                                   *)
(***************************************************************************)

DrainList(p) ==
    /\ listed[p] = {}
    /\ key # 0
    /\ outbox # {}
    /\ listed' = [listed EXCEPT ![p] = outbox]
    /\ UNCHANGED <<rows, writes, outbox, oplog, clock, now, key, keys>>

\* For each row, the last entry.
Coalesce(entries) ==
    {e \in entries : \A f \in entries : f.row = e.row => f.seq <= e.seq}

Drifted == clock.wall - now > MaxDrift

\* The larger of the two clocks; the counter goes on while the wall stands still.
Ticked(n) ==
    IF now > clock.wall THEN [wall |-> now, counter |-> n - 1]
    ELSE [wall |-> clock.wall, counter |-> clock.counter + n]

\* Contents 0 is a tombstone.
ContentsOf(e) == IF e.deleted \/ ~rows[e.row].there THEN 0 ELSE rows[e.row].write

Sealed(entries) ==
    LET kept == Coalesce(entries) IN
    {[row |-> e.row, contents |-> ContentsOf(e), author |-> key,
      stamp |-> Ticked(Cardinality({f \in kept : f.seq <= e.seq}))] : e \in kept}

HighWater(entries) == CHOOSE s \in {e.seq : e \in entries} : \A e \in entries : e.seq <= s

\* Mutation of Drained: the whole outbox is cleared.
DrainedAll(entries) == {}

Drained(entries) == {e \in outbox : e.seq > HighWater(entries)}

Seal(p) ==
    /\ listed[p] # {}
    /\ key # 0
    /\ ~Drifted
    /\ oplog' = oplog \cup Sealed(listed[p])
    /\ clock' = Ticked(Cardinality(Coalesce(listed[p])))
    /\ outbox' = Drained(listed[p])
    /\ listed' = [listed EXCEPT ![p] = {}]
    /\ UNCHANGED <<rows, writes, now, key, keys>>

\* The clock has drifted, the key does not sign, the process dies: nothing is lost.
SealFails(p) ==
    /\ listed[p] # {}
    /\ listed' = [listed EXCEPT ![p] = {}]
    /\ UNCHANGED <<rows, writes, outbox, oplog, clock, now, key, keys>>

OplogNext ==
    \/ \E r \in Rows : Write(r) \/ Delete(r)
    \/ SystemClock \/ KeyChanges
    \/ \E p \in Sealers : DrainList(p) \/ Seal(p) \/ SealFails(p)

-----------------------------------------------------------------------------
(***************************************************************************)
(* Properties.                                                             *)
(***************************************************************************)

After(s, t) == s.wall > t.wall \/ (s.wall = t.wall /\ s.counter > t.counter)

\* The outbox holds writes there were, and no stamp is ahead of the clock that made it.
OplogTypeOK ==
    /\ \A r \in Rows : rows[r].write \in 0..writes
    /\ writes \in 0..MaxWrites
    /\ \A e \in outbox : e.seq \in 1..writes /\ rows[e.row].write # 0
    /\ \A op \in oplog : op.author \in 1..keys /\ ~After(op.stamp, clock)
    /\ key \in 0..keys /\ keys \in 0..MaxKey /\ now \in 0..MaxWall

OpsOn(r) == {op \in oplog : op.row = r}
Newest(r) == {op \in OpsOn(r) : \A other \in OpsOn(r) : ~After(other.stamp, op.stamp)}

\* Whatever is written while a seal runs, whoever else seals, and however the system's
\* clock and the device's key change: replaying the log, the newest operation on a row
\* winning, gives the tables, but for the rows still in the outbox; and every
\* operation on an insert-only row says the same.
ReplayGivesTheTables ==
    \A r \in Rows : (\A e \in outbox : e.row # r) =>
        /\ rows[r].write = 0 <=> OpsOn(r) = {}
        /\ \A op \in IF r \in Facts THEN OpsOn(r) ELSE Newest(r) :
            op.contents = IF rows[r].there THEN rows[r].write ELSE 0

OplogSpec == OplogInit /\ [][OplogNext]_oplogVars
=============================================================================
