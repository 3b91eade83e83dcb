------------------------------ MODULE Recurring ------------------------------
(***************************************************************************)
(* Recurring schedules: templates that recurring_run_due turns into        *)
(* invoices and transactions, one per occurrence, and only when someone    *)
(* calls it.                                                               *)
(*                                                                         *)
(* A schedule's row says which occurrence is next; the table of runs, one  *)
(* row per occurrence reached, decides whether it was reached already.     *)
(* Every edit writes the whole row back as it was read.                    *)
(***************************************************************************)
EXTENDS Connections, Recurrence

CONSTANTS Schedules,   \* ids
          Invoicing,   \* the schedules that raise invoices; the others book transactions
          Start, Rule, \* per schedule, and never changed once it exists
          Bounds,      \* the pairs <<end date, occurrences>> people give a schedule
          AsOf,        \* the dates recurring_run_due is called for
          MaxLines,    \* bound: lines of one template
          MaxRuns      \* bound: occurrences of one schedule

ASSUME RecurringAssumption ==
    /\ Invoicing \subseteq Schedules
    /\ MaxRuns \in Nat /\ MaxLines \in Nat \ {0}
    /\ \A s \in Schedules :
        /\ Start[s] \in CalendarDates
        /\ Rule[s].unit \in {"daily", "weekly", "monthly", "yearly"}
        /\ Rule[s].every \in Nat \ {0}
    /\ \A b \in Bounds :
        /\ b[1] = None \/ b[1] \in CalendarDates
        /\ b[2] = None \/ b[2] \in Nat \ {0}
    \* A run never reaches the bound of the model.
    /\ \A s \in Schedules, d \in AsOf :
        Before(d, OccurrenceDate(Start[s], Rule[s], MaxRuns))

VARIABLES schedules, \* recurring_schedules
          template,  \* how many lines recurring_schedule_items holds for each
          reached,   \* recurring_runs: how each occurrence went, if it was reached
          issued,    \* how many invoices or transactions each occurrence produced
          closed     \* does the ledger refuse the dates of the occurrences?

recurringVars == <<schedules, template, reached, issued, closed>>

Occurrences == 0..(MaxRuns - 1)
DueDates == [s \in Schedules |-> [i \in 0..MaxRuns |-> OccurrenceDate(Start[s], Rule[s], i)]]
Due(s, i) == DueDates[s][i]
Template(s) == IF s \in Invoicing THEN template[s] ELSE 1

NewRow(s, bound) ==
    [status |-> "active", processed |-> 0, next |-> Due(s, 0),
     end |-> bound[1], max |-> bound[2]]

RecurringInit ==
    /\ schedules = [s \in Schedules |-> [NewRow(s, <<None, None>>) EXCEPT !.status = "none"]]
    /\ template = [s \in Schedules |-> 0]
    /\ reached = [s \in Schedules |-> [i \in Occurrences |-> "no"]]
    /\ issued = [s \in Schedules |-> [i \in Occurrences |-> 0]]
    /\ closed = FALSE

Exists(s) == schedules[s].status \notin {"none", "deleted"}

\* UPDATE of a row that is gone changes nothing.
PutSchedule(s, row) ==
    schedules' = IF Exists(s) THEN [schedules EXCEPT ![s] = row] ELSE schedules

-----------------------------------------------------------------------------
(***************************************************************************)
(* People's edits.                                                         *)
(***************************************************************************)

Allowed(s, bound) == bound[1] # None => NotAfter(Start[s], bound[1])

CreateSchedule(s) ==
    /\ Free
    /\ schedules[s].status = "none"
    /\ \E b \in Bounds :
        /\ Allowed(s, b)
        /\ schedules' = [schedules EXCEPT ![s] = NewRow(s, b)]
    /\ template' = [template EXCEPT ![s] = IF s \in Invoicing THEN 1 ELSE 0]
    /\ UNCHANGED <<connVars, reached, issued, closed>>

GetSchedule(c, s) ==
    /\ Exists(s)
    /\ Read(c, [job |-> "schedule", id |-> s, row |-> schedules[s]])
    /\ UNCHANGED recurringVars

\* What the bounds leave out, an occurrence of this index and date.
Past(bound, index, date) ==
    \/ bound[1] # None /\ Before(bound[1], date)
    \/ bound[2] # None /\ index >= bound[2]

\* An edit that excludes the next occurrence does not end the schedule.
UpdateSchedule(c) ==
    LET s == seen[c].id
        row == seen[c].row
    IN
    /\ Doing(c, "schedule")
    /\ \E b \in Bounds :
        /\ Allowed(s, b)
        /\ PutSchedule(s, [row EXCEPT !.end = b[1], !.max = b[2]])
    /\ Done(c)
    /\ UNCHANGED <<template, reached, issued, closed>>

PauseSchedule(c) ==
    /\ Doing(c, "schedule")
    /\ seen[c].row.status = "active"
    /\ PutSchedule(seen[c].id, [seen[c].row EXCEPT !.status = "paused"])
    /\ Done(c)
    /\ UNCHANGED <<template, reached, issued, closed>>

ResumeSchedule(c) ==
    /\ Doing(c, "schedule")
    /\ seen[c].row.status = "paused"
    /\ PutSchedule(seen[c].id, [seen[c].row EXCEPT !.status = "active"])
    /\ Done(c)
    /\ UNCHANGED <<template, reached, issued, closed>>

\* The runs reference the schedule and refuse to go with it.
DeleteSchedule(c) ==
    LET s == seen[c].id IN
    /\ Doing(c, "schedule")
    /\ seen[c].row.processed = 0
    /\ \A i \in Occurrences : reached[s][i] = "no"
    /\ schedules' = [schedules EXCEPT ![s].status = "deleted"]
    /\ template' = [template EXCEPT ![s] = 0]
    /\ Done(c)
    /\ UNCHANGED <<reached, issued, closed>>

AddTemplateLine(c) ==
    LET s == seen[c].id IN
    /\ Doing(c, "schedule")
    /\ s \in Invoicing
    /\ Exists(s)
    /\ template[s] < MaxLines
    /\ template' = [template EXCEPT ![s] = @ + 1]
    /\ Done(c)
    /\ UNCHANGED <<schedules, reached, issued, closed>>

RemoveTemplateLine(s) ==
    /\ Free
    /\ template[s] > 0
    /\ template' = [template EXCEPT ![s] = @ - 1]
    /\ UNCHANGED <<connVars, schedules, reached, issued, closed>>

\* The ledger's lock date, or an archived contact, comes and goes.
Close ==
    /\ Free
    /\ closed' = ~closed
    /\ UNCHANGED <<connVars, schedules, template, reached, issued>>

-----------------------------------------------------------------------------
(***************************************************************************)
(* One occurrence: what it produces, its run, and the schedule's own row,  *)
(* in one transaction, all by the index of the row that was read.          *)
(***************************************************************************)

\* Mutation of RunExists: only a skip is looked for.
SkipExists(s, i) == reached[s][i] = "skipped"

RunExists(s, i) == reached[s][i] # "no"

Generates(s, i) ==
    IF s \in Invoicing THEN Template(s) > 0 /\ ~closed ELSE issued[s][i] = 0

\* Mutation of Advanced: the occurrence that ends a schedule is not counted.
AdvancedUnlessOver(s, row) ==
    LET next == Due(s, row.processed + 1)
    IN  IF Past(<<row.end, row.max>>, row.processed + 1, next)
        THEN [row EXCEPT !.status = "ended"]
        ELSE [row EXCEPT !.processed = @ + 1, !.next = next]

Advanced(s, row) ==
    LET next == Due(s, row.processed + 1)
        over == Past(<<row.end, row.max>>, row.processed + 1, next)
    IN  [row EXCEPT !.processed = @ + 1, !.next = next,
                    !.status = IF over THEN "ended" ELSE @]

Processes(s, row) ==
    /\ Exists(s)
    /\ row.processed < MaxRuns
    /\ ~RunExists(s, row.processed)

ProcessOccurrence(s, row, skip) ==
    LET i == row.processed IN
    /\ Processes(s, row)
    /\ skip \/ Generates(s, i)
    /\ issued' = IF skip THEN issued ELSE [issued EXCEPT ![s][i] = @ + 1]
    /\ reached' = [reached EXCEPT ![s][i] = IF skip THEN "skipped" ELSE "generated"]
    /\ PutSchedule(s, Advanced(s, row))
    /\ UNCHANGED <<template, closed>>

SkipNext(c) ==
    /\ Doing(c, "schedule")
    /\ seen[c].row.status # "ended"
    /\ ProcessOccurrence(seen[c].id, seen[c].row, TRUE)
    /\ Done(c)

-----------------------------------------------------------------------------
(***************************************************************************)
(* recurring_run_due: the schedules due are listed once, and each is run   *)
(* until it is due no more.  Its row is read again after every occurrence. *)
(***************************************************************************)

StillDue(row, asOf) == row.status = "active" /\ NotAfter(row.next, asOf)

ListDue(c, asOf) ==
    /\ Read(c, [job |-> "run", asOf |-> asOf, failed |-> {},
                todo |-> {[id |-> s, row |-> schedules[s]] :
                            s \in {s \in Schedules : StillDue(schedules[s], asOf)}}])
    /\ UNCHANGED recurringVars

NextTodo(c, e) == [seen[c] EXCEPT !.todo = @ \ {e}]

RunOccurrence(c, e) ==
    /\ e.row # None
    /\ StillDue(e.row, seen[c].asOf)
    /\ ProcessOccurrence(e.id, e.row, FALSE)
    /\ Keep(c, [seen[c] EXCEPT !.todo = (@ \ {e}) \cup {[id |-> e.id, row |-> None]}])

Reread(c, e) ==
    /\ e.row = None
    /\ Keep(c, [seen[c] EXCEPT
                    !.todo = (@ \ {e}) \cup {[id |-> e.id, row |-> schedules[e.id]]}])
    /\ UNCHANGED recurringVars

\* Mutation of AfterFailure: the schedule is tried again.
RetryAfterFailure(c, e) == [seen[c] EXCEPT !.failed = @ \cup {e.id}]

AfterFailure(c, e) == [NextTodo(c, e) EXCEPT !.failed = @ \cup {e.id}]

\* The failure is audited and the next schedule has its turn.
RunFails(c, e) ==
    /\ e.row # None
    /\ StillDue(e.row, seen[c].asOf)
    /\ e.row.processed < MaxRuns
    /\ ~(Processes(e.id, e.row) /\ Generates(e.id, e.row.processed))
    /\ Keep(c, AfterFailure(c, e))
    /\ UNCHANGED recurringVars

CaughtUp(c, e) ==
    /\ e.row # None
    /\ ~StillDue(e.row, seen[c].asOf)
    /\ Keep(c, NextTodo(c, e))
    /\ UNCHANGED recurringVars

RunReturns(c) ==
    /\ seen[c].todo = {}
    /\ Done(c)
    /\ UNCHANGED recurringVars

RunStep(c) ==
    /\ Doing(c, "run")
    /\ \/ RunReturns(c)
       \/ \E e \in seen[c].todo :
            RunOccurrence(c, e) \/ Reread(c, e) \/ RunFails(c, e) \/ CaughtUp(c, e)

RecurringNext ==
    \/ Close
    \/ \E s \in Schedules : CreateSchedule(s) \/ RemoveTemplateLine(s)
    \/ \E c \in Conns :
        \/ \E s \in Schedules : GetSchedule(c, s)
        \/ UpdateSchedule(c) \/ PauseSchedule(c) \/ ResumeSchedule(c)
        \/ DeleteSchedule(c) \/ AddTemplateLine(c) \/ SkipNext(c)
        \/ \E d \in AsOf : ListDue(c, d)
        \/ RunStep(c)
        \/ Abandon(c) /\ UNCHANGED recurringVars

-----------------------------------------------------------------------------
(***************************************************************************)
(* Properties.                                                             *)
(***************************************************************************)

ScheduleRow ==
    [status : {"none", "active", "paused", "ended", "deleted"},
     processed : 0..MaxRuns, next : CalendarDates,
     end : {b[1] : b \in Bounds \cup {<<None, None>>}},
     max : {b[2] : b \in Bounds \cup {<<None, None>>}}]

\* The tables hold what the columns allow.
RecurringTypeOK ==
    /\ schedules \in [Schedules -> ScheduleRow]
    /\ template \in [Schedules -> 0..MaxLines]
    /\ reached \in [Schedules -> [Occurrences -> {"no", "generated", "skipped"}]]
    /\ issued \in [Schedules -> [Occurrences -> Nat]]
    /\ closed \in BOOLEAN

\* However many processes run, skip, pause and edit one schedule from rows they
\* read earlier, an occurrence produces one invoice or transaction if its run says
\* generated, and none if it was skipped or never reached.
OncePerOccurrence ==
    \A s \in Schedules, i \in Occurrences :
        issued[s][i] = IF reached[s][i] = "generated" THEN 1 ELSE 0

\* With one process no occurrence is passed over: those reached are the ones before
\* the one the row calls next, which is therefore never refused as a duplicate, and when
\* recurring_run_due has been through its list no schedule is still due as of the date
\* it was called for, except those that failed.
NothingIsPassedOver ==
    Alone =>
        /\ \A s \in Schedules, i \in Occurrences :
            Exists(s) => (reached[s][i] # "no" <=> i < schedules[s].processed)
        /\ \A c \in Conns : Doing(c, "run") /\ seen[c].todo = {} =>
            \A s \in Schedules : StillDue(schedules[s], seen[c].asOf) => s \in seen[c].failed

\* A call of recurring_run_due ends: every occurrence brings its schedule nearer to
\* being due no more, and a failure takes the schedule off the list.
RunEnds == \A c \in Conns : Doing(c, "run") ~> Idle(c)

RecurringSpec == ConnInit /\ RecurringInit /\ [][RecurringNext]_<<connVars, recurringVars>>
=============================================================================
