------------------------------- MODULE DataDir -------------------------------
(***************************************************************************)
(* The movable data folder.  A pointer file names the folder that holds the*)
(* books; a move locks the database there, copies it, checks the copy,     *)
(* writes a journal of what it is about to do, gives the copy its final    *)
(* name, swaps the pointer and removes the old folder's files.  It may die *)
(* after every one of these steps, and is then run again.                  *)
(*                                                                         *)
(* Other processes read the pointer once, when they start, and open the    *)
(* database there, which SQLite creates if it is not there.  A process     *)
(* that has a file open when it is removed goes on writing to it.          *)
(*                                                                         *)
(* The content of a database is the set of changes committed to it; every  *)
(* attempt at a move adds one of its own, its audit row, so that no two    *)
(* copies have the same checksum.                                          *)
(***************************************************************************)
EXTENDS Integers

CONSTANTS Movers, Users,      \* processes that move the folder; that use the books
          Folders, Home,      \* default_data_dir, named by no pointer file
          MaxCommits,         \* bound: commits of the users
          MaxAttempts,        \* bound: attempts that come to check their copy
          MaxCrashes,         \* bound: attempts that die or fail
          None

Changes == ({"commit"} \X (1..MaxCommits)) \cup ({"move"} \X (1..MaxAttempts))
               \cup {<<"theirs", 0>>}
Content == SUBSET Changes

ASSUME FoldersAssumption ==
    /\ Home \in Folders
    /\ MaxCommits \in Nat /\ MaxAttempts \in Nat /\ MaxCrashes \in Nat
    /\ None \notin Movers /\ \A content \in Content : content # None

VARIABLES pointer,    \* the folder data_dir.json names
          db,         \* per folder, the content of slipscan.db
          partial,    \* of slipscan.db.partial
          log,        \* of slipscan.db.partial-wal, as the copy was when it was left
          journal,    \* data_move.json
          locked,     \* who holds SQLite's exclusive lock on slipscan.db
          mover,      \* how far each move has come
          user,       \* what each other process has resolved and opened
          commits, attempts, crashes,
          theirs      \* for the properties: what others put into a folder

fileVars == <<db, partial, log, journal>>
dataDirCounters == <<commits, attempts, crashes>>
dataDirVars == <<pointer, fileVars, locked, mover, user, dataDirCounters, theirs>>
Theirs == {<<"theirs", 0>>}

Idle == [at |-> "idle", from |-> Home, to |-> Home]
Away == [at |-> "away", folder |-> Home]

DataDirInit ==
    /\ pointer = Home
    /\ db = [f \in Folders |-> IF f = Home THEN {} ELSE None]
    /\ partial = [f \in Folders |-> None]
    /\ log = [f \in Folders |-> None]
    /\ journal = None
    /\ locked = [f \in Folders |-> None]
    /\ mover = [m \in Movers |-> Idle]
    /\ user = [u \in Users |-> Away]
    /\ commits = 0 /\ attempts = 0 /\ crashes = 0
    /\ theirs = [f \in Folders |-> None]

-----------------------------------------------------------------------------
(***************************************************************************)
(* A move, one action per file operation others can see or a crash can     *)
(* come between.                                                           *)
(***************************************************************************)

At(m, place) == mover[m].at = place
GoTo(m, place) == mover' = [mover EXCEPT ![m].at = place]
From(m) == mover[m].from
To(m) == mover[m].to

\* The file at folder f is replaced or removed: who has it open keeps the old one.
Unlinked(f) ==
    [u \in Users |-> IF user[u] = [at |-> "open", folder |-> f]
                     THEN [user[u] EXCEPT !.at = "orphan"] ELSE user[u]]

\* prepare_copy: where the data is, that there is any, and that the target is not it.
Resolve(m, to) ==
    /\ At(m, "idle")
    /\ db[pointer] # None
    /\ to # pointer
    /\ mover' = [mover EXCEPT ![m] = [at |-> "resolved", from |-> pointer, to |-> to]]
    /\ UNCHANGED <<pointer, fileVars, locked, user, dataDirCounters, theirs>>

\* Mutation of JournalMatches: no checksum is compared.
JournalNames(from, to) ==
    journal # None /\ journal.from = from /\ journal.to = to

\* Mutation of JournalMatches: a database at the target is never our own.
NeverMatches(from, to) == FALSE

JournalMatches(from, to) ==
    journal # None /\ journal.from = from /\ journal.to = to /\ journal.sha = db[to]

\* A database at the target is our own of an interrupted commit, and goes.
ClearTarget(m) ==
    /\ At(m, "resolved")
    /\ db[To(m)] # None => JournalMatches(From(m), To(m))
    /\ db' = [db EXCEPT ![To(m)] = None]
    /\ user' = Unlinked(To(m))
    /\ GoTo(m, "clear")
    /\ UNCHANGED <<pointer, partial, log, journal, locked, dataDirCounters, theirs>>

\* Or it is someone else's, and the move is refused.
RefuseTarget(m) ==
    /\ At(m, "resolved")
    /\ db[To(m)] # None /\ ~JournalMatches(From(m), To(m))
    /\ mover' = [mover EXCEPT ![m] = Idle]
    /\ UNCHANGED <<pointer, fileVars, locked, user, dataDirCounters, theirs>>

\* Mutation of InUse: only another move would notice.
LockedBy(f) == locked[f] # None

InUse(f) ==
    locked[f] # None \/ \E u \in Users : user[u] = [at |-> "open", folder |-> f]

\* lock_and_quiesce_source.  Opening the source creates it if it is gone.
LockSource(m) ==
    /\ At(m, "clear") /\ ~InUse(From(m))
    /\ locked' = [locked EXCEPT ![From(m)] = m]
    /\ db' = [db EXCEPT ![From(m)] = IF @ = None THEN {} ELSE @]
    /\ GoTo(m, "locked")
    /\ UNCHANGED <<pointer, partial, log, journal, user, dataDirCounters, theirs>>

RefuseBusy(m) ==
    /\ At(m, "clear") /\ InUse(From(m))
    /\ mover' = [mover EXCEPT ![m] = Idle]
    /\ UNCHANGED <<pointer, fileVars, locked, user, dataDirCounters, theirs>>

\* copy_file_verified, of the main file only: a -wal beside the partial stays.
CopyDatabase(m) ==
    /\ At(m, "locked") /\ db[From(m)] # None
    /\ partial' = [partial EXCEPT ![To(m)] = db[From(m)]]
    /\ GoTo(m, "copied")
    /\ UNCHANGED <<pointer, db, log, journal, locked, user, dataDirCounters, theirs>>

\* What SQLite makes of a database and a log left beside it: the pages of the log
\* win, and may hide any of the changes made since.
Opened(main, left) ==
    IF left = None THEN {main} ELSE {left \cup kept : kept \in SUBSET main}

\* check_and_localize_copy, until its writes are in the copy's log.
OpenCopy(m) ==
    /\ At(m, "copied") /\ attempts < MaxAttempts
    /\ attempts' = attempts + 1
    /\ \E content \in Opened(partial[To(m)], log[To(m)]) :
           log' = [log EXCEPT ![To(m)] = content \cup {<<"move", attempts'>>}]
    /\ GoTo(m, "checking")
    /\ UNCHANGED <<pointer, db, partial, journal, locked, user, commits, crashes, theirs>>

\* The integrity check notices that a log did not belong to the copy.
CopyIsBroken(m) ==
    /\ At(m, "copied") /\ log[To(m)] # None
    /\ log' = [log EXCEPT ![To(m)] = None]
    /\ locked' = [locked EXCEPT ![From(m)] = None]
    /\ mover' = [mover EXCEPT ![m] = Idle]
    /\ UNCHANGED <<pointer, db, partial, journal, user, dataDirCounters, theirs>>

\* Closing the copy folds its log in.
CloseCopy(m) ==
    /\ At(m, "checking")
    /\ partial' = [partial EXCEPT ![To(m)] = log[To(m)]]
    /\ log' = [log EXCEPT ![To(m)] = None]
    /\ GoTo(m, "checked")
    /\ UNCHANGED <<pointer, db, journal, locked, user, dataDirCounters, theirs>>

\* begin_commit, first half.
WriteJournal(m) ==
    /\ At(m, "checked")
    /\ journal' = [from |-> From(m), to |-> To(m), sha |-> partial[To(m)]]
    /\ GoTo(m, "journaled")
    /\ UNCHANGED <<pointer, db, partial, log, locked, user, dataDirCounters, theirs>>

\* Its second half.
Rename(m) ==
    /\ At(m, "journaled")
    /\ db' = [db EXCEPT ![To(m)] = partial[To(m)]]
    /\ partial' = [partial EXCEPT ![To(m)] = None]
    /\ user' = Unlinked(To(m))
    /\ GoTo(m, "named")
    /\ UNCHANGED <<pointer, log, journal, locked, dataDirCounters, theirs>>

\* Mutation of SwapPointer: before the copy has its final name.
SwapEarly(m) ==
    /\ At(m, "named") \/ At(m, "journaled")
    /\ pointer' = To(m)
    /\ IF At(m, "named") THEN GoTo(m, "swapped") ELSE UNCHANGED mover
    /\ UNCHANGED <<fileVars, locked, user, dataDirCounters, theirs>>

\* commit_move: write_pointer, read back.
SwapPointer(m) ==
    /\ At(m, "named")
    /\ pointer' = To(m)
    /\ GoTo(m, "swapped")
    /\ UNCHANGED <<fileVars, locked, user, dataDirCounters, theirs>>

\* drop(source_lock): the files of an open connection could not be removed.
Unlock(m) ==
    /\ At(m, "swapped")
    /\ locked' = [locked EXCEPT ![From(m)] = None]
    /\ GoTo(m, "unlocked")
    /\ UNCHANGED <<pointer, fileVars, user, dataDirCounters, theirs>>

\* A file that cannot be removed stays, and is reported.
RemoveOld(m) ==
    /\ At(m, "unlocked")
    /\ \/ /\ db' = [db EXCEPT ![From(m)] = None]
          /\ user' = Unlinked(From(m))
       \/ UNCHANGED <<db, user>>
    /\ GoTo(m, "removed")
    /\ UNCHANGED <<pointer, partial, log, journal, locked, dataDirCounters, theirs>>

\* The journal is removed at the end, or stays as well.
Finish(m) ==
    /\ At(m, "removed")
    /\ journal' \in {None, journal}
    /\ mover' = [mover EXCEPT ![m] = Idle]
    /\ UNCHANGED <<pointer, db, partial, log, locked, user, dataDirCounters, theirs>>

\* The process dies or the next step fails: the lock goes with it, files stay.  The
\* journal is truncated before it is written; an error, as opposed to a crash, closes
\* the copy.
Crash(m) ==
    /\ ~At(m, "idle") /\ crashes < MaxCrashes
    /\ crashes' = crashes + 1
    /\ mover' = [mover EXCEPT ![m] = Idle]
    /\ locked' = [f \in Folders |-> IF locked[f] = m THEN None ELSE locked[f]]
    /\ journal' \in {journal} \cup (IF At(m, "checked") THEN {None} ELSE {})
    /\ \/ UNCHANGED <<partial, log>>
       \/ /\ At(m, "checking")
          /\ partial' = [partial EXCEPT ![To(m)] = log[To(m)]]
          /\ log' = [log EXCEPT ![To(m)] = None]
    /\ UNCHANGED <<pointer, db, user, commits, attempts, theirs>>

-----------------------------------------------------------------------------
(***************************************************************************)
(* Everyone else.                                                          *)
(***************************************************************************)

\* A process starts and reads the pointer.
Start(u) ==
    /\ user[u].at = "away"
    /\ user' = [user EXCEPT ![u] = [at |-> "resolved", folder |-> pointer]]
    /\ UNCHANGED <<pointer, fileVars, locked, mover, dataDirCounters, theirs>>

\* Db::open, which waits for a lock and creates what is not there.
Open(u) ==
    LET f == user[u].folder IN
    /\ user[u].at = "resolved" /\ locked[f] = None
    /\ db' = [db EXCEPT ![f] = IF @ = None THEN {} ELSE @]
    /\ user' = [user EXCEPT ![u].at = "open"]
    /\ UNCHANGED <<pointer, partial, log, journal, locked, mover, dataDirCounters, theirs>>

Commit(u) ==
    /\ user[u].at \in {"open", "orphan"} /\ commits < MaxCommits
    /\ commits' = commits + 1
    /\ db' = IF user[u].at = "orphan" THEN db
             ELSE [db EXCEPT ![user[u].folder] = @ \cup {<<"commit", commits'>>}]
    /\ UNCHANGED <<pointer, partial, log, journal, locked, mover, user, attempts,
                   crashes, theirs>>

\* It ends, or gives up waiting.
Leave(u) ==
    /\ user[u].at # "away"
    /\ user' = [user EXCEPT ![u] = Away]
    /\ UNCHANGED <<pointer, fileVars, locked, mover, dataDirCounters, theirs>>

\* Somebody puts books of their own into a folder, not in the middle of a move.
TheirsAppear(f) ==
    /\ \A m \in Movers : At(m, "idle")
    /\ db[f] = None /\ f # pointer
    /\ \A u \in Users : user[u].folder # f \/ user[u].at = "away"
    /\ db' = [db EXCEPT ![f] = Theirs]
    /\ theirs' = [theirs EXCEPT ![f] = Theirs]
    /\ UNCHANGED <<pointer, partial, log, journal, locked, mover, user, dataDirCounters>>

MoveStep(m) ==
    \/ ClearTarget(m) \/ RefuseTarget(m) \/ LockSource(m) \/ RefuseBusy(m)
    \/ CopyDatabase(m) \/ OpenCopy(m) \/ CopyIsBroken(m) \/ CloseCopy(m)
    \/ WriteJournal(m) \/ Rename(m) \/ SwapPointer(m) \/ Unlock(m) \/ RemoveOld(m)
    \/ Finish(m)

DataDirNext ==
    \/ \E m \in Movers :
           \/ \E to \in Folders : Resolve(m, to)
           \/ MoveStep(m)
           \/ Crash(m)
    \/ \E u \in Users : Start(u) \/ Open(u) \/ Commit(u) \/ Leave(u)
    \/ \E f \in Folders : TheirsAppear(f)

DataDirSpec == DataDirInit /\ [][DataDirNext]_dataDirVars

(***************************************************************************)
(* A move that does not die goes on, and one that died or was refused is   *)
(* asked for again.                                                        *)
(***************************************************************************)
DataDirFairSpec ==
    DataDirSpec /\ \A m \in Movers :
        /\ WF_dataDirVars(MoveStep(m))
        /\ \A to \in Folders : WF_dataDirVars(Resolve(m, to))

-----------------------------------------------------------------------------
(***************************************************************************)
(* Properties.                                                             *)
(***************************************************************************)

Places == {"idle", "resolved", "clear", "locked", "copied", "checking", "checked",
           "journaled", "named", "swapped", "unlocked", "removed"}

\* The types of the files, and of how far everyone has come; the checksum in the
\* journal is that of a database.
DataDirTypeOK ==
    /\ pointer \in Folders
    /\ db \in [Folders -> Content \cup {None}]
    /\ partial \in [Folders -> Content \cup {None}]
    /\ log \in [Folders -> Content \cup {None}]
    /\ journal # None => journal.sha # None
    /\ journal \in {None} \cup [from : Folders, to : Folders, sha : Content]
    /\ locked \in [Folders -> Movers \cup {None}]
    /\ mover \in [Movers -> [at : Places, from : Folders, to : Folders]]
    /\ user \in [Users -> [at : {"away", "resolved", "open", "orphan"}, folder : Folders]]
    /\ commits \in 0..MaxCommits /\ attempts \in 0..MaxAttempts /\ crashes \in 0..MaxCrashes

\* commit_move: wherever a move dies, the pointer names a folder with a database, so
\* nobody who resolves it starts an empty one there.
PointerNamesBooks == db[pointer] # None

\* journal_matches: books somebody else put at a target are never taken for a copy of
\* an interrupted move, and are never replaced.
TheirBooksUntouched == \A f \in Folders : theirs[f] # None => db[f] = theirs[f]

\* prepare_copy: a move that died anywhere can be run again and completes, once the
\* other processes are closed, unless somebody else's books have come to be there.
EveryMoveCanBeResumed ==
    \A f \in Folders :
        <>[](\A u \in Users : user[u].at = "away") => <>(pointer = f \/ theirs[f] # None)

\* The books the pointer names lose nothing, moves included (datadir.rs: crashing at
\* any point is safe, a re-run resumes over the partial copy).
MoveKeepsTheBooks ==
    [][db[pointer] # None /\ db'[pointer'] # None
        => db[pointer] \subseteq db'[pointer']]_dataDirVars

\* prepare_copy to commit_move, however often they die on the way: for whoever follows
\* the pointer a move is one step, which keeps every change or shows the audit row of
\* an attempt that never finished beside its own.
ImplementedBooks ==
    INSTANCE MovableBooks WITH where <- pointer, books <- db[pointer],
                               Commits <- {"commit"} \X (1..MaxCommits),
                               Marks <- {"move"} \X (1..MaxAttempts)

ImplementsMovableBooks == ImplementedBooks!Spec
=============================================================================
