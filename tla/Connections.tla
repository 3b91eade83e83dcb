----------------------------- MODULE Connections -----------------------------
(***************************************************************************)
(* Processes on one database file, as the modules of the office share      *)
(* them.                                                                   *)
(*                                                                         *)
(* A service call reads rows first and opens its SQLite transaction later. *)
(* Between the two a connection holds what it read; its transaction then   *)
(* works from that, whatever other processes have committed meanwhile.     *)
(* Within one process a mutex around the connection runs the calls one     *)
(* after the other.                                                        *)
(***************************************************************************)
CONSTANTS Conns,   \* connections to the database, one per process
          Teams,   \* the sets of processes that may share it
          None     \* no row, no date, no limit, nothing read

ASSUME TeamsAssumption == Teams \subseteq SUBSET Conns

VARIABLES team,    \* the processes that have the database open
          seen     \* what each connection has read in the call it is in

connVars == <<team, seen>>

ConnInit ==
    /\ team \in Teams
    /\ seen = [c \in Conns |-> None]

Alone == \E c \in Conns : team = {c}

Idle(c) == seen[c] = None

\* No call of the same process is under way.
Free == Alone => \A c \in Conns : Idle(c)

\* A call begins by reading.
Read(c, what) ==
    /\ c \in team
    /\ Idle(c)
    /\ seen' = [seen EXCEPT ![c] = what]
    /\ UNCHANGED team

\* A call goes on with something else read.
Keep(c, what) ==
    /\ seen' = [seen EXCEPT ![c] = what]
    /\ UNCHANGED team

\* A call ends: it committed, was refused, or found nothing to do.
Done(c) == Keep(c, None)

\* The call was refused, hit SQLITE_BUSY, or its process died.
Abandon(c) == ~Idle(c) /\ Done(c)

Doing(c, job) == ~Idle(c) /\ seen[c].job = job
=============================================================================
