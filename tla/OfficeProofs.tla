---------------------------- MODULE OfficeProofs ----------------------------
(***************************************************************************)
(* What is proved of the office: recurring schedules, purchasing,          *)
(* reconciliation and depreciation.                                        *)
(***************************************************************************)
EXTENDS MCOffice, SumsProofs, SequenceTheorems

-----------------------------------------------------------------------------
(***************************************************************************)
(* What holds of recurring schedules for any schedules, rules, bounds and  *)
(* connections, proved.                                                    *)
(***************************************************************************)
IsRow(r) ==
    /\ r = [status |-> r.status, processed |-> r.processed, next |-> r.next,
            end |-> r.end, max |-> r.max]
    /\ r.processed \in Nat

\* What a call holds: the row of a schedule, or the schedules a run still has to do.
Held(c) ==
    /\ seen[c].job = "schedule" => seen[c].id \in Schedules /\ IsRow(seen[c].row)
    /\ seen[c].job = "run" =>
        /\ seen[c] = [job |-> "run", asOf |-> seen[c].asOf, failed |-> seen[c].failed,
                      todo |-> seen[c].todo]
        /\ \A e \in seen[c].todo : e.id \in Schedules /\ (e.row # None => IsRow(e.row))

\* The inductive invariant.  The rows, stored and held, count their occurrences in
\* natural numbers, whatever older row overwrote a newer one; nothing more is needed of
\* them, because the runs decide.
OnceInv ==
    /\ schedules = [s \in Schedules |-> schedules[s]] /\ \A s \in Schedules : IsRow(schedules[s])
    /\ reached \in [Schedules -> [Occurrences -> {"no", "generated", "skipped"}]]
    /\ issued \in [Schedules -> [Occurrences -> Nat]]
    /\ seen = [c \in Conns |-> seen[c]]
    /\ \A c \in Conns : seen[c] # None => Held(c)
    /\ OncePerOccurrence

\* Writing one field of a row leaves a row, if the counter remains a number.
LEMMA RowExcept ==
    ASSUME NEW r, IsRow(r), NEW v
    PROVE  /\ IsRow([r EXCEPT !.status = v])
           /\ IsRow([r EXCEPT !.next = v])
           /\ IsRow([r EXCEPT !.end = v])
           /\ IsRow([r EXCEPT !.max = v])
           /\ v \in Nat => IsRow([r EXCEPT !.processed = v])
<1> DEFINE row(a, b, d, e, f) ==
             [status |-> a, processed |-> b, next |-> d, end |-> e, max |-> f]
<1>1. ASSUME NEW a, NEW b, NEW d, NEW e, NEW f, r = row(a, b, d, e, f)
      PROVE  /\ [r EXCEPT !.status = v] = row(v, b, d, e, f)
             /\ [r EXCEPT !.next = v] = row(a, b, v, e, f)
             /\ [r EXCEPT !.end = v] = row(a, b, d, v, f)
             /\ [r EXCEPT !.max = v] = row(a, b, d, e, v)
             /\ [r EXCEPT !.processed = v] = row(a, v, d, e, f)
  BY <1>1
<1>2. ASSUME NEW a, NEW b \in Nat, NEW d, NEW e, NEW f
      PROVE  IsRow(row(a, b, d, e, f))
  BY DEF IsRow
<1>3. r = row(r.status, r.processed, r.next, r.end, r.max) /\ r.processed \in Nat
  BY DEF IsRow
<1> HIDE DEF row
<1> QED
  BY <1>1, <1>2, <1>3

\* Writing a row keeps the rows rows.
LEMMA PutRows ==
    ASSUME OnceInv, NEW s \in Schedules, NEW row, IsRow(row), PutSchedule(s, row)
    PROVE  /\ schedules' = [t \in Schedules |-> schedules'[t]]
           /\ \A t \in Schedules : IsRow(schedules'[t])
BY DEF PutSchedule, OnceInv

\* The step past an occurrence.
LEMMA AdvancedRow ==
    ASSUME NEW s, NEW row, IsRow(row)
    PROVE  IsRow(Advanced(s, row))
<1> DEFINE next == Due(s, row.processed + 1)
           over == Past(<<row.end, row.max>>, row.processed + 1, next)
           counted == [row EXCEPT !.processed = row.processed + 1]
           stepped == [counted EXCEPT !.next = next]
           ending == IF over THEN "ended" ELSE stepped.status
<1>1. IsRow(counted)
  <2>1. row.processed + 1 \in Nat
    BY DEF IsRow
  <2> QED
    BY <2>1, RowExcept
<1>2. IsRow(stepped)
  <2> HIDE DEF counted, next
  <2> QED
    BY <1>1, RowExcept
<1>3. IsRow([stepped EXCEPT !.status = ending])
  <2> HIDE DEF stepped, ending
  <2> QED
    BY <1>2, RowExcept
<1>4. Advanced(s, row) = [stepped EXCEPT !.status = ending]
  BY DEF Advanced
<1> QED
  BY <1>3, <1>4

\* An occurrence is processed only where no run says it was, and leaves one.
LEMMA ProcessKeepsOnce ==
    ASSUME OnceInv, NEW s \in Schedules, NEW row, IsRow(row), NEW skip \in BOOLEAN,
           ProcessOccurrence(s, row, skip)
    PROVE  /\ schedules' = [t \in Schedules |-> schedules'[t]]
           /\ \A t \in Schedules : IsRow(schedules'[t])
           /\ reached' \in [Schedules -> [Occurrences -> {"no", "generated", "skipped"}]]
           /\ issued' \in [Schedules -> [Occurrences -> Nat]]
           /\ OncePerOccurrence'
<1> DEFINE i == row.processed
           how == IF skip THEN "skipped" ELSE "generated"
<1>1. i \in Occurrences
  BY RecurringAssumption DEF ProcessOccurrence, Processes, IsRow, Occurrences
<1>2. reached[s][i] = "no" /\ issued[s][i] = 0
  BY <1>1 DEF ProcessOccurrence, Processes, RunExists, OnceInv, OncePerOccurrence
<1>3. /\ reached' = [reached EXCEPT ![s][i] = how]
      /\ issued' = IF skip THEN issued ELSE [issued EXCEPT ![s][i] = @ + 1]
      /\ PutSchedule(s, Advanced(s, row))
  BY DEF ProcessOccurrence
<1>4. /\ reached' \in [Schedules -> [Occurrences -> {"no", "generated", "skipped"}]]
      /\ \A t \in Schedules, j \in Occurrences :
            reached'[t][j] = IF t = s /\ j = i THEN how ELSE reached[t][j]
  BY <1>1, <1>3 DEF OnceInv
<1>5. /\ issued' \in [Schedules -> [Occurrences -> Nat]]
      /\ \A t \in Schedules, j \in Occurrences :
            issued'[t][j] = IF t = s /\ j = i /\ ~skip THEN 1 ELSE issued[t][j]
  <2>1. CASE skip
    BY <1>3, <2>1 DEF OnceInv
  <2>2. CASE ~skip
    <3>1. issued' = [issued EXCEPT ![s][i] = issued[s][i] + 1]
      BY <1>3, <2>2
    <3>2. issued' = [issued EXCEPT ![s][i] = 1]
      BY <1>2, <3>1
    <3> QED
      BY <1>1, <2>2, <3>2 DEF OnceInv
  <2> QED
    BY <2>1, <2>2
<1>6. OncePerOccurrence'
  BY <1>2, <1>4, <1>5 DEF OnceInv, OncePerOccurrence
<1> QED
  BY <1>3, <1>4, <1>5, <1>6, PutRows, AdvancedRow

\* People's edits write back the row they hold, with one field of it changed.
LEMMA EditStep ==
    ASSUME OnceInv, NEW c \in Conns,
           UpdateSchedule(c) \/ PauseSchedule(c) \/ ResumeSchedule(c)
    PROVE  OnceInv'
<1> DEFINE s == seen[c].id
           row == seen[c].row
<1>1. s \in Schedules /\ IsRow(row)
  BY DEF UpdateSchedule, PauseSchedule, ResumeSchedule, Doing, Idle, OnceInv, Held
<1>2. PICK new : IsRow(new) /\ PutSchedule(s, new)
  <2>1. CASE UpdateSchedule(c)
    <3>1. PICK b \in Bounds : PutSchedule(s, [row EXCEPT !.end = b[1], !.max = b[2]])
      BY <2>1 DEF UpdateSchedule
    <3> DEFINE ends == [row EXCEPT !.end = b[1]]
               new == [ends EXCEPT !.max = b[2]]
    <3>2. IsRow(ends)
      BY <1>1, RowExcept
    <3>3. IsRow(new)
      <4> HIDE DEF ends
      <4> QED
        BY <3>2, RowExcept
    <3> QED
      BY <3>1, <3>3
  <2>2. CASE PauseSchedule(c)
    BY <1>1, <2>2, RowExcept DEF PauseSchedule
  <2>3. CASE ResumeSchedule(c)
    BY <1>1, <2>3, RowExcept DEF ResumeSchedule
  <2> QED
    BY <2>1, <2>2, <2>3
<1>3. /\ schedules' = [t \in Schedules |-> schedules'[t]]
      /\ \A t \in Schedules : IsRow(schedules'[t])
  BY <1>1, <1>2, PutRows
<1>4. seen' = [seen EXCEPT ![c] = None] /\ UNCHANGED <<reached, issued>>
  BY DEF UpdateSchedule, PauseSchedule, ResumeSchedule, Done, Keep
<1> QED
  BY <1>3, <1>4 DEF OnceInv, Held, OncePerOccurrence

\* Creating and deleting a schedule, and editing what it produces.
LEMMA ScheduleStep ==
    ASSUME OnceInv,
           \/ \E s \in Schedules : CreateSchedule(s) \/ RemoveTemplateLine(s)
           \/ \E c \in Conns : DeleteSchedule(c) \/ AddTemplateLine(c)
    PROVE  OnceInv'
<1>1. ASSUME NEW s \in Schedules, CreateSchedule(s)
      PROVE  OnceInv'
  <2>1. PICK b \in Bounds : schedules' = [schedules EXCEPT ![s] = NewRow(s, b)]
    BY <1>1 DEF CreateSchedule
  <2>2. IsRow(NewRow(s, b))
    BY DEF NewRow, IsRow
  <2>3. UNCHANGED <<seen, reached, issued>>
    BY <1>1 DEF CreateSchedule, connVars
  <2> QED
    BY <2>1, <2>2, <2>3 DEF OnceInv, Held, OncePerOccurrence
<1>2. ASSUME NEW s \in Schedules, RemoveTemplateLine(s)
      PROVE  OnceInv'
  BY <1>2 DEF RemoveTemplateLine, connVars, OnceInv, Held, OncePerOccurrence
<1>3. ASSUME NEW c \in Conns, DeleteSchedule(c)
      PROVE  OnceInv'
  <2> DEFINE s == seen[c].id
             gone == [schedules[s] EXCEPT !.status = "deleted"]
  <2>1. /\ s \in Schedules
        /\ schedules' = [schedules EXCEPT ![s].status = "deleted"]
        /\ seen' = [seen EXCEPT ![c] = None] /\ UNCHANGED <<reached, issued>>
    BY <1>3 DEF DeleteSchedule, Doing, Idle, OnceInv, Held, Done, Keep
  <2>2. IsRow(gone)
    <3>1. IsRow(schedules[s])
      BY <2>1 DEF OnceInv
    <3> QED
      BY <3>1, RowExcept
  <2>3. schedules' = [schedules EXCEPT ![s] = gone]
    BY <2>1
  <2> HIDE DEF gone
  <2>4. \A t \in Schedules : schedules'[t] = IF t = s THEN gone ELSE schedules[t]
    BY <2>1, <2>3 DEF OnceInv
  <2>5. schedules' = [t \in Schedules |-> schedules'[t]]
    BY <2>3 DEF OnceInv
  <2>6. \A t \in Schedules : IsRow(schedules'[t])
    BY <2>2, <2>4 DEF OnceInv
  <2>7. OncePerOccurrence'
    BY <2>1 DEF OnceInv, OncePerOccurrence
  <2>8. \A d \in Conns : seen'[d] # None => Held(d)'
    BY <2>1 DEF OnceInv, Held
  <2> QED
    BY <2>1, <2>5, <2>6, <2>7, <2>8 DEF OnceInv
<1>4. ASSUME NEW c \in Conns, AddTemplateLine(c)
      PROVE  OnceInv'
  BY <1>4 DEF AddTemplateLine, Done, Keep, OnceInv, Held, OncePerOccurrence
<1> QED
  BY <1>1, <1>2, <1>3, <1>4

\* A skip, by the index of the row that was read.
LEMMA SkipStep ==
    ASSUME OnceInv, NEW c \in Conns, SkipNext(c)
    PROVE  OnceInv'
<1>1. seen[c].id \in Schedules /\ IsRow(seen[c].row)
  BY DEF SkipNext, Doing, Idle, OnceInv, Held
<1>2. ProcessOccurrence(seen[c].id, seen[c].row, TRUE) /\ seen' = [seen EXCEPT ![c] = None]
  BY DEF SkipNext, Done, Keep
<1>3. /\ schedules' = [t \in Schedules |-> schedules'[t]]
      /\ \A t \in Schedules : IsRow(schedules'[t])
      /\ reached' \in [Schedules -> [Occurrences -> {"no", "generated", "skipped"}]]
      /\ issued' \in [Schedules -> [Occurrences -> Nat]]
      /\ OncePerOccurrence'
  BY <1>1, <1>2, ProcessKeepsOnce
<1> QED
  BY <1>2, <1>3 DEF OnceInv, Held

\* A run whose list changes by entries that are still schedules, with their rows.
LEMMA ListStep ==
    ASSUME OnceInv, NEW c \in Conns, NEW todo, NEW failed,
           seen[c] # None, seen[c].job = "run",
           \A e \in todo : e.id \in Schedules /\ (e.row # None => IsRow(e.row)),
           seen' = [seen EXCEPT ![c] = [job |-> "run", asOf |-> seen[c].asOf,
                                        failed |-> failed, todo |-> todo]]
    PROVE  /\ seen' = [d \in Conns |-> seen'[d]]
           /\ \A d \in Conns : seen'[d] # None => Held(d)'
<1> DEFINE now == [job |-> "run", asOf |-> seen[c].asOf, failed |-> failed, todo |-> todo]
<1>1. seen'[c] = now /\ \A d \in Conns : d # c => seen'[d] = seen[d]
  BY DEF OnceInv
<1>2. /\ now.job = "run" /\ now.todo = todo
      /\ now = [job |-> "run", asOf |-> now.asOf, failed |-> now.failed, todo |-> now.todo]
  OBVIOUS
<1> HIDE DEF now
<1>3. Held(c)'
  BY <1>1, <1>2 DEF Held
<1>4. ASSUME NEW d \in Conns, d # c, seen'[d] # None
      PROVE  Held(d)'
  BY <1>1, <1>4 DEF OnceInv, Held
<1> QED
  BY <1>3, <1>4 DEF OnceInv

\* Writing the list of a call, and what failed in it.
LEMMA CallExcept ==
    ASSUME NEW r, NEW todo, NEW failed,
           r = [job |-> "run", asOf |-> r.asOf, failed |-> r.failed, todo |-> r.todo]
    PROVE  /\ [r EXCEPT !.todo = todo] =
                [job |-> "run", asOf |-> r.asOf, failed |-> r.failed, todo |-> todo]
           /\ [[r EXCEPT !.todo = todo] EXCEPT !.failed = failed] =
                [job |-> "run", asOf |-> r.asOf, failed |-> failed, todo |-> todo]
<1> DEFINE call(a, f, t) == [job |-> "run", asOf |-> a, failed |-> f, todo |-> t]
<1>1. ASSUME NEW a, NEW f, NEW t
      PROVE  /\ [call(a, f, t) EXCEPT !.todo = todo] = call(a, f, todo)
             /\ [call(a, f, t) EXCEPT !.failed = failed] = call(a, failed, t)
  OBVIOUS
<1>2. r = call(r.asOf, r.failed, r.todo)
  OBVIOUS
<1> HIDE DEF call
<1> DEFINE listed == [r EXCEPT !.todo = todo]
<1>3. listed = call(r.asOf, r.failed, todo)
  <2>1. listed = [call(r.asOf, r.failed, r.todo) EXCEPT !.todo = todo]
    BY <1>2
  <2> HIDE DEF listed
  <2> QED
    BY <1>1, <2>1
<1>4. [listed EXCEPT !.failed = failed] = call(r.asOf, failed, todo)
  <2>1. [listed EXCEPT !.failed = failed] = [call(r.asOf, r.failed, todo) EXCEPT !.failed = failed]
    BY <1>3
  <2> HIDE DEF listed
  <2> QED
    BY <1>1, <2>1
<1> QED
  BY <1>3, <1>4 DEF call

\* recurring_run_due, one occurrence or one look at a row at a time.
LEMMA RunStepKeepsOnce ==
    ASSUME OnceInv, NEW c \in Conns, RunStep(c)
    PROVE  OnceInv'
<1> DEFINE call == seen[c]
<1>1. /\ call # None /\ call.job = "run"
      /\ call = [job |-> "run", asOf |-> call.asOf, failed |-> call.failed, todo |-> call.todo]
      /\ \A e \in call.todo : e.id \in Schedules /\ (e.row # None => IsRow(e.row))
  BY DEF RunStep, Doing, Idle, OnceInv, Held
<1>2. \A todo, failed :
        /\ [call EXCEPT !.todo = todo] =
             [job |-> "run", asOf |-> call.asOf, failed |-> call.failed, todo |-> todo]
        /\ [[call EXCEPT !.todo = todo] EXCEPT !.failed = failed] =
             [job |-> "run", asOf |-> call.asOf, failed |-> failed, todo |-> todo]
  BY <1>1, CallExcept
<1>3. CASE RunReturns(c)
  BY <1>3 DEF RunReturns, Done, Keep, recurringVars, OnceInv, Held, OncePerOccurrence
<1>4. ASSUME NEW e \in call.todo,
             RunOccurrence(c, e) \/ Reread(c, e) \/ RunFails(c, e) \/ CaughtUp(c, e)
      PROVE  OnceInv'
  <2> DEFINE others == call.todo \ {e}
  <2>1. e.id \in Schedules
    BY <1>1, <1>4
  <2>2. CASE RunOccurrence(c, e)
    <3>1. /\ e.row # None /\ ProcessOccurrence(e.id, e.row, FALSE)
          /\ seen' = [seen EXCEPT ![c] =
               [call EXCEPT !.todo = others \cup {[id |-> e.id, row |-> None]}]]
      BY <2>2 DEF RunOccurrence, Keep
    <3>2. IsRow(e.row)
      BY <1>1, <1>4, <3>1
    <3>3. /\ schedules' = [t \in Schedules |-> schedules'[t]]
          /\ \A t \in Schedules : IsRow(schedules'[t])
          /\ reached' \in [Schedules -> [Occurrences -> {"no", "generated", "skipped"}]]
          /\ issued' \in [Schedules -> [Occurrences -> Nat]]
          /\ OncePerOccurrence'
      BY <2>1, <3>1, <3>2, ProcessKeepsOnce
    <3> DEFINE todo == others \cup {[id |-> e.id, row |-> None]}
    <3>4. \A f \in todo : f.id \in Schedules /\ (f.row # None => IsRow(f.row))
      BY <1>1, <2>1
    <3>5. seen' = [seen EXCEPT ![c] = [job |-> "run", asOf |-> call.asOf,
                                       failed |-> call.failed, todo |-> todo]]
      BY <1>2, <3>1
    <3> HIDE DEF todo
    <3>6. /\ seen' = [d \in Conns |-> seen'[d]]
          /\ \A d \in Conns : seen'[d] # None => Held(d)'
      BY <1>1, <3>4, <3>5, ListStep
    <3> QED
      BY <3>3, <3>6 DEF OnceInv
  <2>3. CASE Reread(c, e)
    <3> DEFINE todo == others \cup {[id |-> e.id, row |-> schedules[e.id]]}
    <3>1. /\ seen' = [seen EXCEPT ![c] = [call EXCEPT !.todo = todo]]
          /\ UNCHANGED <<schedules, reached, issued>>
      BY <2>3 DEF Reread, Keep, recurringVars
    <3>2. \A f \in todo : f.id \in Schedules /\ (f.row # None => IsRow(f.row))
      BY <1>1, <2>1 DEF OnceInv
    <3> HIDE DEF todo
    <3>3. seen' = [seen EXCEPT ![c] = [job |-> "run", asOf |-> call.asOf,
                                       failed |-> call.failed, todo |-> todo]]
      BY <1>2, <3>1
    <3>4. /\ seen' = [d \in Conns |-> seen'[d]]
          /\ \A d \in Conns : seen'[d] # None => Held(d)'
      BY <1>1, <3>2, <3>3, ListStep
    <3> QED
      BY <3>1, <3>4 DEF OnceInv, OncePerOccurrence
  <2>4. CASE RunFails(c, e) \/ CaughtUp(c, e)
    <3>1. UNCHANGED <<schedules, reached, issued>>
      BY <2>4 DEF RunFails, CaughtUp, recurringVars
    <3>2. PICK failed : seen' = [seen EXCEPT ![c] = [job |-> "run", asOf |-> call.asOf,
                                                     failed |-> failed, todo |-> others]]
      <4>1. CASE CaughtUp(c, e)
        BY <1>2, <4>1 DEF CaughtUp, NextTodo, Keep
      <4>2. CASE RunFails(c, e)
        <5> DEFINE short == [call EXCEPT !.todo = others]
                   failed == short.failed \cup {e.id}
        <5>1. seen' = [seen EXCEPT ![c] = [short EXCEPT !.failed = failed]]
          BY <4>2 DEF RunFails, AfterFailure, NextTodo, Keep
        <5> HIDE DEF failed
        <5> QED
          BY <1>2, <5>1
      <4> QED
        BY <2>4, <4>1, <4>2
    <3>3. \A f \in others : f.id \in Schedules /\ (f.row # None => IsRow(f.row))
      BY <1>1
    <3> HIDE DEF others
    <3>4. /\ seen' = [d \in Conns |-> seen'[d]]
          /\ \A d \in Conns : seen'[d] # None => Held(d)'
      BY <1>1, <3>2, <3>3, ListStep
    <3> QED
      BY <3>1, <3>4 DEF OnceInv, OncePerOccurrence
  <2> QED
    BY <1>4, <2>2, <2>3, <2>4
<1> QED
  BY <1>3, <1>4 DEF RunStep

\* Reading a schedule, or listing those due.
LEMMA ReadStep ==
    ASSUME OnceInv, NEW c \in Conns,
           (\E s \in Schedules : GetSchedule(c, s)) \/ (\E d \in AsOf : ListDue(c, d))
    PROVE  OnceInv'
<1>1. UNCHANGED <<schedules, reached, issued>>
  BY DEF GetSchedule, ListDue, recurringVars
<1>2. ASSUME NEW what, seen' = [seen EXCEPT ![c] = what],
             \/ /\ what.job = "schedule"
                /\ what.id \in Schedules /\ IsRow(what.row)
             \/ /\ what.job = "run"
                /\ what = [job |-> "run", asOf |-> what.asOf, failed |-> what.failed,
                           todo |-> what.todo]
                /\ \A e \in what.todo : e.id \in Schedules /\ IsRow(e.row)
      PROVE  OnceInv'
  <2>1. seen'[c] = what /\ \A d \in Conns : d # c => seen'[d] = seen[d]
    BY <1>2 DEF OnceInv
  <2>2. Held(c)'
    BY <1>2, <2>1 DEF Held
  <2>3. ASSUME NEW d \in Conns, d # c, seen'[d] # None
        PROVE  Held(d)'
    BY <2>1, <2>3 DEF OnceInv, Held
  <2> QED
    BY <1>1, <1>2, <2>2, <2>3 DEF OnceInv, OncePerOccurrence
<1>3. ASSUME NEW s \in Schedules, GetSchedule(c, s)
      PROVE  OnceInv'
  <2> DEFINE what == [job |-> "schedule", id |-> s, row |-> schedules[s]]
  <2>1. seen' = [seen EXCEPT ![c] = what]
    BY <1>3 DEF GetSchedule, Read
  <2>2. what.job = "schedule" /\ what.id \in Schedules /\ IsRow(what.row)
    BY DEF OnceInv
  <2> HIDE DEF what
  <2> QED
    BY <1>2, <2>1, <2>2
<1>4. ASSUME NEW d \in AsOf, ListDue(c, d)
      PROVE  OnceInv'
  <2> DEFINE todo == {[id |-> s, row |-> schedules[s]] :
                        s \in {s \in Schedules : StillDue(schedules[s], d)}}
             what == [job |-> "run", asOf |-> d, failed |-> {}, todo |-> todo]
  <2>1. seen' = [seen EXCEPT ![c] = what]
    BY <1>4 DEF ListDue, Read
  <2>2. \A e \in todo : e.id \in Schedules /\ IsRow(e.row)
    BY DEF OnceInv
  <2> HIDE DEF todo
  <2>3. /\ what.job = "run" /\ what.todo = todo
        /\ what = [job |-> "run", asOf |-> what.asOf, failed |-> what.failed, todo |-> what.todo]
    OBVIOUS
  <2> HIDE DEF what
  <2> QED
    BY <1>2, <2>1, <2>2, <2>3
<1> QED
  BY <1>3, <1>4

\* Every step keeps the invariant.
LEMMA OnceStep ==
    OnceInv /\ [RecurringNext]_<<connVars, recurringVars>> => OnceInv'
<1> SUFFICES ASSUME OnceInv, [RecurringNext]_<<connVars, recurringVars>>
             PROVE  OnceInv'
  OBVIOUS
<1>1. ASSUME UNCHANGED <<seen, schedules, reached, issued>>
      PROVE  OnceInv'
  BY <1>1 DEF OnceInv, Held, OncePerOccurrence
<1>2. CASE UNCHANGED <<connVars, recurringVars>>
  BY <1>1, <1>2 DEF connVars, recurringVars
<1>3. CASE Close
  BY <1>1, <1>3 DEF Close, connVars
<1>4. ASSUME NEW c \in Conns, Abandon(c), UNCHANGED recurringVars
      PROVE  OnceInv'
  BY <1>4 DEF Abandon, Done, Keep, recurringVars, OnceInv, Held, OncePerOccurrence
<1> QED
  BY <1>2, <1>3, <1>4, EditStep, ScheduleStep, SkipStep, RunStepKeepsOnce, ReadStep
  DEF RecurringNext

LEMMA OnceInitially == ConnInit /\ RecurringInit => OnceInv
<1> SUFFICES ASSUME ConnInit, RecurringInit
             PROVE  OnceInv
  OBVIOUS
<1>1. \A s \in Schedules : IsRow(NewRow(s, <<None, None>>))
  BY DEF NewRow, IsRow
<1>2. \A s \in Schedules : IsRow([NewRow(s, <<None, None>>) EXCEPT !.status = "none"])
  BY <1>1, RowExcept
<1>3. \A s \in Schedules : IsRow(schedules[s])
  BY <1>2 DEF RecurringInit
<1> QED
  BY <1>3 DEF ConnInit, RecurringInit, OnceInv, OncePerOccurrence

LEMMA OnceHolds == RecurringSpec => []OnceInv
BY OnceInitially, OnceStep, PTL DEF RecurringSpec

\* OncePerOccurrence: however many processes run, skip, pause and edit one schedule from
\* rows they read earlier, an occurrence produces one invoice or transaction if its run
\* says generated, and none if it was skipped or never reached (recurring_run_due).
THEOREM OccurrencesOnce == RecurringSpec => []OncePerOccurrence
<1>1. OnceInv => OncePerOccurrence
  BY DEF OnceInv
<1> QED
  BY <1>1, OnceHolds, PTL

\* One process: what its call has read of the schedules is still so, every schedule a
\* run listed is on its list once, and whatever is still due is on it or failed.
Current(c) ==
    /\ seen[c].job = "schedule" =>
        Exists(seen[c].id) /\ seen[c].row = schedules[seen[c].id]
    /\ seen[c].job = "run" =>
        /\ \A e \in seen[c].todo : e.row # None => e.row = schedules[e.id]
        /\ \A e, f \in seen[c].todo : e.id = f.id => e = f
        /\ \A s \in Schedules : StillDue(schedules[s], seen[c].asOf) =>
               s \in seen[c].failed \/ \E e \in seen[c].todo : e.id = s

\* The runs of a schedule are those of the occurrences before the next one.
InTurn(s) ==
    /\ Exists(s) => \A i \in Occurrences : reached[s][i] # "no" <=> i < schedules[s].processed
    /\ schedules[s].status = "none" => \A i \in Occurrences : reached[s][i] = "no"

PassInv ==
    /\ \A c \in Conns : ~Idle(c) => c \in team
    /\ Alone => /\ \A s \in Schedules : InTurn(s)
                /\ \A c \in Conns : ~Idle(c) => Current(c)

\* What an occurrence leaves when the row it went by is the one there is.
LEMMA ProcessInTurn ==
    ASSUME OnceInv, NEW s \in Schedules, NEW skip \in BOOLEAN,
           \A t \in Schedules : InTurn(t),
           ProcessOccurrence(s, schedules[s], skip)
    PROVE  /\ \A t \in Schedules : InTurn(t)'
           /\ \A t \in Schedules : t # s => schedules'[t] = schedules[t]
<1> DEFINE row == schedules[s]
           i == row.processed
           new == Advanced(s, row)
<1>1. /\ IsRow(row) /\ i \in Occurrences /\ Exists(s)
      /\ schedules' = [schedules EXCEPT ![s] = new]
      /\ reached' = [reached EXCEPT ![s][i] = IF skip THEN "skipped" ELSE "generated"]
  BY RecurringAssumption
  DEF OnceInv, ProcessOccurrence, Processes, PutSchedule, IsRow, Occurrences
<1>2. new.processed = i + 1 /\ new.status \in {"ended", row.status}
  <2> DEFINE over == Past(<<row.end, row.max>>, i + 1, Due(s, i + 1))
             counted == [row EXCEPT !.processed = i + 1]
             stepped == [counted EXCEPT !.next = Due(s, i + 1)]
             ending == IF over THEN "ended" ELSE stepped.status
  <2>1. new = [stepped EXCEPT !.status = ending]
    BY DEF Advanced
  <2>2. PICK a, b, d, e : row = [status |-> a, processed |-> i, next |-> b, end |-> d, max |-> e]
    BY <1>1 DEF IsRow
  <2> HIDE DEF row, i
  <2>3. counted = [status |-> a, processed |-> i + 1, next |-> b, end |-> d, max |-> e]
    BY <2>2
  <2> HIDE DEF counted
  <2>4. stepped = [status |-> a, processed |-> i + 1, next |-> Due(s, i + 1), end |-> d, max |-> e]
    BY <2>3
  <2> HIDE DEF stepped
  <2>5. stepped.status = a /\ row.status = a
    BY <2>2, <2>4
  <2>6. new = [status |-> ending, processed |-> i + 1, next |-> Due(s, i + 1),
               end |-> d, max |-> e]
    <3> HIDE DEF ending
    <3> QED
      BY <2>1, <2>4
  <2> QED
    BY <2>5, <2>6
<1> HIDE DEF new
<1>3. schedules'[s] = new /\ \A t \in Schedules : t # s => schedules'[t] = schedules[t]
  BY <1>1 DEF OnceInv
<1>4. /\ \A t \in Schedules, j \in Occurrences : t # s => reached'[t][j] = reached[t][j]
      /\ \A j \in Occurrences : j # i => reached'[s][j] = reached[s][j]
      /\ reached'[s][i] # "no"
  BY <1>1 DEF OnceInv
<1>5. InTurn(s)'
  <2>1. Exists(s)' /\ schedules'[s].status # "none"
    BY <1>1, <1>2, <1>3 DEF Exists
  <2>2. \A j \in Occurrences : reached'[s][j] # "no" <=> j < i + 1
    <3>1. \A j \in Occurrences : reached[s][j] # "no" <=> j < i
      BY <1>1 DEF InTurn
    <3>2. i \in Nat /\ \A j \in Occurrences : j \in Nat
      BY <1>1 DEF Occurrences, IsRow
    <3> HIDE DEF i
    <3> QED
      BY <3>1, <3>2, <1>4
  <2> QED
    BY <2>1, <2>2, <1>2, <1>3 DEF InTurn
<1>6. ASSUME NEW t \in Schedules, t # s
      PROVE  InTurn(t)'
  BY <1>3, <1>4, <1>6 DEF InTurn, Exists
<1> QED
  BY <1>3, <1>5, <1>6

LEMMA PutInTurn ==
    ASSUME OnceInv, NEW s \in Schedules, NEW new,
           \A t \in Schedules : InTurn(t), Exists(s), UNCHANGED reached,
           schedules' = [schedules EXCEPT ![s] = new], new.status # "none",
           new.status # "deleted" => new.processed = schedules[s].processed
    PROVE  \A t \in Schedules : InTurn(t)'
<1>1. schedules'[s] = new /\ \A t \in Schedules : t # s => schedules'[t] = schedules[t]
  BY DEF OnceInv
<1>2. InTurn(s)'
  BY <1>1 DEF InTurn, Exists
<1>3. ASSUME NEW t \in Schedules, t # s
      PROVE  InTurn(t)'
  BY <1>1, <1>3 DEF InTurn, Exists
<1> QED
  BY <1>2, <1>3

\* Where there is one process there is one call.
LEMMA OneCall ==
    ASSUME OnceInv, PassInv, Alone, NEW c \in Conns, c \in team, NEW what,
           seen' = [seen EXCEPT ![c] = what], UNCHANGED team
    PROVE  /\ \A d \in Conns : d # c => Idle(d) /\ Idle(d)'
           /\ what = None \/ Current(c)' => \A d \in Conns : ~Idle(d)' => Current(d)'
<1>1. seen'[c] = what /\ \A d \in Conns : d # c => seen'[d] = seen[d]
  BY DEF OnceInv
<1>2. \A d \in Conns : d # c => d \notin team
  BY DEF Alone
<1>3. \A d \in Conns : d # c => Idle(d) /\ Idle(d)'
  BY <1>1, <1>2 DEF PassInv, Idle
<1> QED
  BY <1>1, <1>3 DEF Idle

\* People's edits, by the row that was read; each ends its call.
LEMMA EditInTurn ==
    ASSUME OnceInv, PassInv, Alone, NEW c \in Conns,
           \/ UpdateSchedule(c) \/ PauseSchedule(c) \/ ResumeSchedule(c)
           \/ DeleteSchedule(c) \/ AddTemplateLine(c) \/ SkipNext(c)
    PROVE  \A s \in Schedules : InTurn(s)'
<1> DEFINE s == seen[c].id
           row == seen[c].row
<1>1. s \in Schedules /\ Exists(s) /\ row = schedules[s] /\ IsRow(row)
      /\ \A t \in Schedules : InTurn(t)
  BY DEF UpdateSchedule, PauseSchedule, ResumeSchedule, DeleteSchedule, AddTemplateLine, SkipNext,
         Doing, Idle, OnceInv, Held, PassInv, Current
<1>2. PICK a, b, d, e, f :
        row = [status |-> a, processed |-> b, next |-> d, end |-> e, max |-> f]
  BY <1>1 DEF IsRow
<1>3. a \notin {"none", "deleted"}
  BY <1>1, <1>2 DEF Exists
<1>4. CASE UpdateSchedule(c)
  <2>1. PICK bound \in Bounds : PutSchedule(s, [row EXCEPT !.end = bound[1], !.max = bound[2]])
    BY <1>4 DEF UpdateSchedule
  <2> DEFINE new == [status |-> a, processed |-> b, next |-> d, end |-> bound[1], max |-> bound[2]]
             ends == [row EXCEPT !.end = bound[1]]
  <2>2. [row EXCEPT !.end = bound[1], !.max = bound[2]] = new
    <3>1. ends = [status |-> a, processed |-> b, next |-> d, end |-> bound[1], max |-> f]
      BY <1>2
    <3> HIDE DEF ends
    <3>2. [ends EXCEPT !.max = bound[2]] = new
      BY <3>1
    <3> QED
      BY <3>2 DEF ends
  <2>3. schedules' = [schedules EXCEPT ![s] = new] /\ UNCHANGED reached
    BY <1>1, <1>4, <2>1, <2>2 DEF PutSchedule, UpdateSchedule
  <2>4. new.status = a /\ new.processed = b /\ schedules[s].processed = b
    BY <1>1, <1>2
  <2> HIDE DEF new
  <2> QED
    BY <1>1, <1>3, <2>3, <2>4, PutInTurn
<1>5. CASE PauseSchedule(c) \/ ResumeSchedule(c)
  <2>1. PICK ending \in {"paused", "active"} : PutSchedule(s, [row EXCEPT !.status = ending])
    BY <1>5 DEF PauseSchedule, ResumeSchedule
  <2> DEFINE new == [status |-> ending, processed |-> b, next |-> d, end |-> e, max |-> f]
  <2>2. [row EXCEPT !.status = ending] = new
    BY <1>2
  <2>3. schedules' = [schedules EXCEPT ![s] = new] /\ UNCHANGED reached
    BY <1>1, <1>5, <2>1, <2>2 DEF PutSchedule, PauseSchedule, ResumeSchedule
  <2>4. new.status \in {"paused", "active"} /\ new.processed = b /\ schedules[s].processed = b
    BY <1>1, <1>2
  <2> HIDE DEF new
  <2> QED
    BY <1>1, <2>3, <2>4, PutInTurn
<1>6. CASE DeleteSchedule(c)
  <2> DEFINE new == [status |-> "deleted", processed |-> b, next |-> d, end |-> e, max |-> f]
  <2>1. [schedules[s] EXCEPT !.status = "deleted"] = new
    BY <1>1, <1>2
  <2>2. schedules' = [schedules EXCEPT ![s] = new] /\ UNCHANGED reached
    BY <1>6, <2>1 DEF DeleteSchedule
  <2>3. new.status = "deleted"
    OBVIOUS
  <2> HIDE DEF new
  <2> QED
    BY <1>1, <2>2, <2>3, PutInTurn
<1>7. CASE AddTemplateLine(c)
  BY <1>1, <1>7 DEF AddTemplateLine, InTurn, Exists
<1>8. CASE SkipNext(c)
  <2>1. ProcessOccurrence(s, schedules[s], TRUE)
    BY <1>1, <1>8 DEF SkipNext
  <2> QED
    BY <1>1, <2>1, ProcessInTurn
<1> QED
  BY <1>4, <1>5, <1>6, <1>7, <1>8

\* recurring_run_due: what is due stays on the list until it is through, or failed.
LEMMA RunInTurn ==
    ASSUME OnceInv, PassInv, Alone, NEW c \in Conns, RunStep(c)
    PROVE  /\ \A s \in Schedules : InTurn(s)'
           /\ \A d \in Conns : ~Idle(d)' => Current(d)'
<1> DEFINE call == seen[c]
<1>1. /\ call # None /\ call.job = "run" /\ c \in team
      /\ call = [job |-> "run", asOf |-> call.asOf, failed |-> call.failed, todo |-> call.todo]
      /\ \A e \in call.todo : e.id \in Schedules
  BY DEF RunStep, Doing, Idle, OnceInv, Held, PassInv
<1>2. \A todo, failed :
        /\ [call EXCEPT !.todo = todo] =
             [job |-> "run", asOf |-> call.asOf, failed |-> call.failed, todo |-> todo]
        /\ [[call EXCEPT !.todo = todo] EXCEPT !.failed = failed] =
             [job |-> "run", asOf |-> call.asOf, failed |-> failed, todo |-> todo]
  BY <1>1, CallExcept
<1>3. /\ \A e \in call.todo : e.row # None => e.row = schedules[e.id]
      /\ \A e, f \in call.todo : e.id = f.id => e = f
      /\ \A s \in Schedules : StillDue(schedules[s], call.asOf) =>
             s \in call.failed \/ \E e \in call.todo : e.id = s
      /\ \A s \in Schedules : InTurn(s)
  BY <1>1 DEF PassInv, Idle, Current
<1>4. UNCHANGED team
  BY DEF RunStep, RunReturns, RunOccurrence, Reread, RunFails, CaughtUp, Done, Keep
<1>5. ASSUME NEW todo, NEW failed,
             seen' = [seen EXCEPT ![c] = [job |-> "run", asOf |-> call.asOf,
                                          failed |-> failed, todo |-> todo]],
             \A e \in todo : e.row # None => e.row = schedules'[e.id],
             \A e, f \in todo : e.id = f.id => e = f,
             \A s \in Schedules : StillDue(schedules'[s], call.asOf) =>
                 s \in failed \/ \E e \in todo : e.id = s
      PROVE  \A d \in Conns : ~Idle(d)' => Current(d)'
  <2> DEFINE now == [job |-> "run", asOf |-> call.asOf, failed |-> failed, todo |-> todo]
  <2>1. seen'[c] = now
    BY <1>5 DEF OnceInv
  <2>2. now.job = "run" /\ now.asOf = call.asOf /\ now.failed = failed /\ now.todo = todo
    OBVIOUS
  <2>3. seen' = [seen EXCEPT ![c] = now]
    BY <1>5
  <2> HIDE DEF now, call
  <2>4. Current(c)'
    BY <1>5, <2>1, <2>2 DEF Current, StillDue
  <2> QED
    BY <1>1, <1>4, <2>3, <2>4, OneCall
<1>6. CASE RunReturns(c)
  <2>1. seen' = [seen EXCEPT ![c] = None] /\ UNCHANGED <<schedules, reached>>
    BY <1>6 DEF RunReturns, Done, Keep, recurringVars
  <2>2. \A d \in Conns : ~Idle(d)' => Current(d)'
    BY <1>1, <1>4, <2>1, OneCall
  <2> QED
    BY <1>3, <2>1, <2>2 DEF InTurn, Exists
<1>7. ASSUME NEW e \in call.todo, RunOccurrence(c, e)
      PROVE  /\ \A s \in Schedules : InTurn(s)'
             /\ \A d \in Conns : ~Idle(d)' => Current(d)'
  <2> DEFINE next == [id |-> e.id, row |-> None]
             todo == (call.todo \ {e}) \cup {next}
  <2>1. /\ e.id \in Schedules /\ ProcessOccurrence(e.id, schedules[e.id], FALSE)
        /\ seen' = [seen EXCEPT ![c] = [call EXCEPT !.todo = todo]]
    BY <1>1, <1>3, <1>7 DEF RunOccurrence, Keep
  <2>2. /\ \A s \in Schedules : InTurn(s)'
        /\ \A t \in Schedules : t # e.id => schedules'[t] = schedules[t]
    BY <1>3, <2>1, ProcessInTurn
  <2>3. next.id = e.id /\ next.row = None
    OBVIOUS
  <2>4. seen' = [seen EXCEPT ![c] = [job |-> "run", asOf |-> call.asOf,
                                     failed |-> call.failed, todo |-> todo]]
    BY <1>2, <2>1
  <2> HIDE DEF next
  <2>5. \A f \in todo : f = next \/ (f \in call.todo /\ f.id # e.id)
    BY <1>3, <1>7
  <2>6. \A f \in todo : f.row # None => f.row = schedules'[f.id]
    BY <1>1, <1>3, <2>2, <2>3, <2>5
  <2>7. \A f, g \in todo : f.id = g.id => f = g
    BY <1>3, <2>3, <2>5
  <2>8. \A s \in Schedules : StillDue(schedules'[s], call.asOf) =>
             s \in call.failed \/ \E f \in todo : f.id = s
    <3>1. next \in todo /\ \A f \in call.todo : f.id # e.id => f \in todo
      OBVIOUS
    <3> HIDE DEF todo
    <3> QED
      BY <1>3, <2>2, <2>3, <3>1
  <2> HIDE DEF todo
  <2>9. \A d \in Conns : ~Idle(d)' => Current(d)'
    BY <2>4, <2>6, <2>7, <2>8, <1>5
  <2> QED
    BY <2>2, <2>9
<1>8. ASSUME NEW e \in call.todo, Reread(c, e)
      PROVE  /\ \A s \in Schedules : InTurn(s)'
             /\ \A d \in Conns : ~Idle(d)' => Current(d)'
  <2> DEFINE next == [id |-> e.id, row |-> schedules[e.id]]
             todo == (call.todo \ {e}) \cup {next}
  <2>1. /\ UNCHANGED <<schedules, reached>>
        /\ seen' = [seen EXCEPT ![c] = [call EXCEPT !.todo = todo]]
    BY <1>8 DEF Reread, Keep, recurringVars
  <2>2. next.id = e.id /\ next.row = schedules[e.id]
    OBVIOUS
  <2>3. seen' = [seen EXCEPT ![c] = [job |-> "run", asOf |-> call.asOf,
                                     failed |-> call.failed, todo |-> todo]]
    BY <1>2, <2>1
  <2> HIDE DEF next
  <2>4. \A f \in todo : f = next \/ (f \in call.todo /\ f.id # e.id)
    BY <1>3, <1>8
  <2>5. \A f \in todo : f.row # None => f.row = schedules'[f.id]
    BY <1>1, <1>3, <2>1, <2>2, <2>4
  <2>6. \A f, g \in todo : f.id = g.id => f = g
    BY <1>3, <2>2, <2>4
  <2>7. \A s \in Schedules : StillDue(schedules'[s], call.asOf) =>
             s \in call.failed \/ \E f \in todo : f.id = s
    BY <1>3, <2>1, <2>2
  <2>8. \A s \in Schedules : InTurn(s)'
    BY <1>3, <2>1 DEF InTurn, Exists
  <2> HIDE DEF todo
  <2> QED
    BY <2>3, <2>5, <2>6, <2>7, <2>8, <1>5
<1>9. ASSUME NEW e \in call.todo, RunFails(c, e) \/ CaughtUp(c, e)
      PROVE  /\ \A s \in Schedules : InTurn(s)'
             /\ \A d \in Conns : ~Idle(d)' => Current(d)'
  <2> DEFINE todo == call.todo \ {e}
  <2>1. UNCHANGED <<schedules, reached>>
    BY <1>9 DEF RunFails, CaughtUp, recurringVars
  <2>2. PICK failed :
          /\ seen' = [seen EXCEPT ![c] = [job |-> "run", asOf |-> call.asOf,
                                          failed |-> failed, todo |-> todo]]
          /\ call.failed \subseteq failed
          /\ e.id \in failed \/ ~StillDue(schedules[e.id], call.asOf)
    <3>1. CASE CaughtUp(c, e)
      <4>1. ~StillDue(schedules[e.id], call.asOf)
        BY <1>3, <1>9, <3>1 DEF CaughtUp
      <4>2. seen' = [seen EXCEPT ![c] = [call EXCEPT !.todo = todo]]
        BY <3>1 DEF CaughtUp, NextTodo, Keep
      <4> QED
        BY <1>2, <4>1, <4>2
    <3>2. CASE RunFails(c, e)
      <4> DEFINE short == [call EXCEPT !.todo = todo]
                 failed == short.failed \cup {e.id}
      <4>1. seen' = [seen EXCEPT ![c] = [short EXCEPT !.failed = failed]]
        BY <3>2 DEF RunFails, AfterFailure, NextTodo, Keep
      <4>2. short.failed = call.failed
        <5>1. short = [job |-> "run", asOf |-> call.asOf, failed |-> call.failed, todo |-> todo]
          BY <1>2
        <5> HIDE DEF short, call, todo
        <5> QED
          BY <5>1
      <4>3. call.failed \subseteq failed /\ e.id \in failed
        BY <4>2
      <4> HIDE DEF failed
      <4> QED
        BY <1>2, <4>1, <4>3
    <3> QED
      BY <1>9, <3>1, <3>2
  <2>3. \A f \in todo : f.row # None => f.row = schedules'[f.id]
    BY <1>3, <2>1
  <2>4. \A f, g \in todo : f.id = g.id => f = g
    BY <1>3
  <2>5. \A s \in Schedules : StillDue(schedules'[s], call.asOf) =>
             s \in failed \/ \E f \in todo : f.id = s
    BY <1>3, <2>1, <2>2
  <2>6. \A s \in Schedules : InTurn(s)'
    BY <1>3, <2>1 DEF InTurn, Exists
  <2> HIDE DEF todo
  <2> QED
    BY <2>2, <2>3, <2>4, <2>5, <2>6, <1>5
<1> QED
  BY <1>6, <1>7, <1>8, <1>9 DEF RunStep

\* A call begins by reading what is so.
LEMMA ReadsCurrent ==
    ASSUME OnceInv, PassInv, Alone, NEW c \in Conns,
           (\E s \in Schedules : GetSchedule(c, s)) \/ (\E d \in AsOf : ListDue(c, d))
    PROVE  /\ \A s \in Schedules : InTurn(s)'
           /\ \A d \in Conns : ~Idle(d)' => Current(d)'
<1>1. UNCHANGED <<schedules, reached, team>> /\ c \in team
  BY DEF GetSchedule, ListDue, Read, recurringVars
<1>2. \A s \in Schedules : InTurn(s)'
  BY <1>1 DEF PassInv, InTurn, Exists
<1>3. ASSUME NEW s \in Schedules, GetSchedule(c, s)
      PROVE  \A d \in Conns : ~Idle(d)' => Current(d)'
  <2> DEFINE what == [job |-> "schedule", id |-> s, row |-> schedules[s]]
  <2>1. seen' = [seen EXCEPT ![c] = what] /\ Exists(s)
    BY <1>3 DEF GetSchedule, Read
  <2>2. what.job = "schedule" /\ what.id = s /\ what.row = schedules[s]
    OBVIOUS
  <2> HIDE DEF what
  <2>3. seen'[c] = what
    BY <2>1 DEF OnceInv
  <2>4. Current(c)'
    BY <1>1, <2>1, <2>2, <2>3 DEF Current, Exists
  <2> QED
    BY <1>1, <2>1, <2>4, OneCall
<1>4. ASSUME NEW asOf \in AsOf, ListDue(c, asOf)
      PROVE  \A d \in Conns : ~Idle(d)' => Current(d)'
  <2> DEFINE todo == {[id |-> s, row |-> schedules[s]] :
                        s \in {s \in Schedules : StillDue(schedules[s], asOf)}}
             what == [job |-> "run", asOf |-> asOf, failed |-> {}, todo |-> todo]
  <2>1. seen' = [seen EXCEPT ![c] = what]
    BY <1>4 DEF ListDue, Read
  <2>2. /\ \A e \in todo : e.row = schedules[e.id]
        /\ \A e, f \in todo : e.id = f.id => e = f
        /\ \A s \in Schedules : StillDue(schedules[s], asOf) => \E e \in todo : e.id = s
    <3> DEFINE entry(s) == [id |-> s, row |-> schedules[s]]
    <3>1. \A s : entry(s).id = s /\ entry(s).row = schedules[s]
      OBVIOUS
    <3>2. todo = {entry(s) : s \in {s \in Schedules : StillDue(schedules[s], asOf)}}
      OBVIOUS
    <3> HIDE DEF entry, todo
    <3> QED
      BY <3>1, <3>2
  <2> HIDE DEF todo
  <2>3. what.job = "run" /\ what.asOf = asOf /\ what.todo = todo
    OBVIOUS
  <2> HIDE DEF what
  <2>4. seen'[c] = what
    BY <2>1 DEF OnceInv
  <2>5. Current(c)'
    BY <1>1, <2>2, <2>3, <2>4 DEF Current, StillDue
  <2> QED
    BY <1>1, <2>1, <2>5, OneCall
<1> QED
  BY <1>2, <1>3, <1>4

\* Every step keeps the invariant.
LEMMA PassStep ==
    OnceInv /\ PassInv /\ [RecurringNext]_<<connVars, recurringVars>> => PassInv'
<1> SUFFICES ASSUME OnceInv, PassInv, [RecurringNext]_<<connVars, recurringVars>>
             PROVE  PassInv'
  OBVIOUS
<1>1. /\ UNCHANGED team
      /\ \A c \in Conns : ~Idle(c)' => c \in team
  <2>1. ASSUME NEW c \in Conns, c \in team, NEW what, seen' = [seen EXCEPT ![c] = what],
               UNCHANGED team
        PROVE  \A d \in Conns : ~Idle(d)' => d \in team
    BY <2>1 DEF PassInv, OnceInv, Idle
  <2>2. CASE UNCHANGED <<team, seen>>
    BY <2>2 DEF PassInv, Idle
  <2>3. ASSUME NEW c \in Conns,
               \/ UpdateSchedule(c) \/ PauseSchedule(c) \/ ResumeSchedule(c)
               \/ DeleteSchedule(c) \/ AddTemplateLine(c) \/ SkipNext(c) \/ Abandon(c)
        PROVE  UNCHANGED team /\ \E what : c \in team /\ seen' = [seen EXCEPT ![c] = what]
    BY <2>3 DEF PassInv, UpdateSchedule, PauseSchedule, ResumeSchedule, DeleteSchedule,
                AddTemplateLine, SkipNext, Abandon, Doing, Done, Keep
  <2>4. ASSUME NEW c \in Conns, RunStep(c)
        PROVE  UNCHANGED team /\ \E what : c \in team /\ seen' = [seen EXCEPT ![c] = what]
    BY <2>4 DEF PassInv, RunStep, RunReturns, RunOccurrence, Reread, RunFails, CaughtUp,
                Doing, Done, Keep
  <2>5. ASSUME NEW c \in Conns,
               (\E s \in Schedules : GetSchedule(c, s)) \/ (\E d \in AsOf : ListDue(c, d))
        PROVE  UNCHANGED team /\ \E what : c \in team /\ seen' = [seen EXCEPT ![c] = what]
    BY <2>5 DEF GetSchedule, ListDue, Read
  <2>6. (\E s \in Schedules : CreateSchedule(s) \/ RemoveTemplateLine(s)) \/ Close =>
            UNCHANGED <<team, seen>>
    BY DEF CreateSchedule, RemoveTemplateLine, Close, connVars
  <2>7. \/ UNCHANGED <<team, seen>>
        \/ UNCHANGED team /\ \E c \in Conns : \E what :
               c \in team /\ seen' = [seen EXCEPT ![c] = what]
    BY <2>3, <2>4, <2>5, <2>6 DEF RecurringNext, connVars
  <2> QED
    BY <2>1, <2>2, <2>7
<1>2. CASE ~Alone
  BY <1>1, <1>2 DEF PassInv, Alone
<1>3. CASE Alone
  <2> SUFFICES /\ \A s \in Schedules : InTurn(s)'
               /\ \A d \in Conns : ~Idle(d)' => Current(d)'
    BY <1>1 DEF PassInv
  <2>1. ASSUME UNCHANGED <<seen, schedules, reached>>
        PROVE  /\ \A s \in Schedules : InTurn(s)'
               /\ \A d \in Conns : ~Idle(d)' => Current(d)'
    BY <1>3, <2>1 DEF PassInv, InTurn, Exists, Idle, Current, StillDue
  <2>2. CASE UNCHANGED <<connVars, recurringVars>>
    BY <2>1, <2>2 DEF connVars, recurringVars
  <2>3. CASE Close \/ \E s \in Schedules : RemoveTemplateLine(s)
    BY <2>1, <2>3 DEF Close, RemoveTemplateLine, connVars
  <2>4. ASSUME NEW s \in Schedules, CreateSchedule(s)
        PROVE  /\ \A t \in Schedules : InTurn(t)'
               /\ \A d \in Conns : ~Idle(d)' => Current(d)'
    <3>1. PICK b \in Bounds : schedules' = [schedules EXCEPT ![s] = NewRow(s, b)]
      BY <2>4 DEF CreateSchedule
    <3>2. /\ UNCHANGED <<seen, reached>> /\ \A d \in Conns : Idle(d)
          /\ schedules[s].status = "none"
      BY <1>3, <2>4 DEF CreateSchedule, Free, connVars
    <3>3. /\ schedules'[s] = NewRow(s, b)
          /\ \A t \in Schedules : t # s => schedules'[t] = schedules[t]
      BY <3>1 DEF OnceInv
    <3>4. NewRow(s, b).processed = 0 /\ NewRow(s, b).status = "active"
      BY DEF NewRow
    <3>5. InTurn(s)'
      <4>1. \A i \in Occurrences : reached'[s][i] = "no"
        BY <1>3, <3>2 DEF PassInv, InTurn
      <4>2. \A i \in Occurrences : ~(i < 0)
        BY DEF Occurrences
      <4> QED
        BY <3>3, <3>4, <4>1, <4>2 DEF InTurn
    <3>6. \A t \in Schedules : InTurn(t)'
      BY <1>3, <3>2, <3>3, <3>5 DEF PassInv, InTurn, Exists
    <3> QED
      BY <3>2, <3>6 DEF Idle
  <2>5. ASSUME NEW c \in Conns,
               \/ UpdateSchedule(c) \/ PauseSchedule(c) \/ ResumeSchedule(c)
               \/ DeleteSchedule(c) \/ AddTemplateLine(c) \/ SkipNext(c)
        PROVE  /\ \A s \in Schedules : InTurn(s)'
               /\ \A d \in Conns : ~Idle(d)' => Current(d)'
    <3>1. \A s \in Schedules : InTurn(s)'
      BY <1>3, <2>5, EditInTurn
    <3>2. c \in team /\ UNCHANGED team /\ seen' = [seen EXCEPT ![c] = None]
      BY <2>5 DEF PassInv, UpdateSchedule, PauseSchedule, ResumeSchedule, DeleteSchedule,
                  AddTemplateLine, SkipNext, Doing, Done, Keep
    <3>3. \A d \in Conns : ~Idle(d)' => Current(d)'
      BY <1>3, <3>2, OneCall
    <3> QED
      BY <3>1, <3>3
  <2>6. ASSUME NEW c \in Conns, Abandon(c), UNCHANGED recurringVars
        PROVE  /\ \A s \in Schedules : InTurn(s)'
               /\ \A d \in Conns : ~Idle(d)' => Current(d)'
    <3>1. /\ c \in team /\ UNCHANGED team /\ seen' = [seen EXCEPT ![c] = None]
          /\ UNCHANGED <<schedules, reached>>
      BY <2>6 DEF PassInv, Abandon, Done, Keep, recurringVars
    <3>2. \A d \in Conns : ~Idle(d)' => Current(d)'
      BY <1>3, <3>1, OneCall
    <3> QED
      BY <1>3, <3>1, <3>2 DEF PassInv, InTurn, Exists
  <2> QED
    BY <1>3, <2>2, <2>3, <2>4, <2>5, <2>6, RunInTurn, ReadsCurrent DEF RecurringNext
<1> QED
  BY <1>2, <1>3

LEMMA PassHolds == RecurringSpec => [](OnceInv /\ PassInv)
<1>1. ConnInit /\ RecurringInit => PassInv
  <2> SUFFICES ASSUME ConnInit, RecurringInit
               PROVE  PassInv
    OBVIOUS
  <2>1. \A s \in Schedules : schedules[s].status = "none"
    <3>1. \A s \in Schedules : IsRow(NewRow(s, <<None, None>>))
      BY DEF NewRow, IsRow
    <3>2. \A r : IsRow(r) => [r EXCEPT !.status = "none"].status = "none"
      BY DEF IsRow
    <3> HIDE DEF NewRow
    <3> QED
      BY <3>1, <3>2 DEF RecurringInit
  <2> QED
    BY <2>1 DEF ConnInit, RecurringInit, PassInv, InTurn, Exists, Idle
<1>2. OnceInv /\ PassInv /\ [RecurringNext]_<<connVars, recurringVars>> => OnceInv' /\ PassInv'
  BY OnceStep, PassStep
<1>3. RecurringSpec => []OnceInv
  BY OnceHolds
<1> QED
  BY <1>1, <1>2, <1>3, PTL DEF RecurringSpec

\* NothingIsPassedOver: with one process the runs are those of the occurrences before
\* the next one, and what recurring_run_due leaves due is what failed in it.
THEOREM OccurrencesInTurn == RecurringSpec => []NothingIsPassedOver
<1>1. PassInv => NothingIsPassedOver
  BY DEF PassInv, InTurn, Current, Doing, NothingIsPassedOver
<1> QED
  BY <1>1, PassHolds, PTL

(***************************************************************************)
(* The dates of a schedule are dates of the calendar, leap days and ends   *)
(* of months included.                                                     *)
(***************************************************************************)
LEMMA MonthLengths ==
    ASSUME NEW y \in Nat, NEW m \in 1..12
    PROVE  MonthLength(y, m) \in 28..31
BY DEF MonthLength

LEMMA DateParts ==
    ASSUME NEW d \in CalendarDates
    PROVE  /\ d[1] \in Nat /\ d[2] \in 1..12 /\ d[3] \in 1..31
           /\ d[3] <= MonthLength(d[1], d[2])
BY DEF CalendarDates

LEMMA DateIsThere ==
    ASSUME NEW y \in Nat, NEW m \in 1..12, NEW k \in 1..31, k <= MonthLength(y, m)
    PROVE  <<y, m, k>> \in CalendarDates
<1> DEFINE d == <<y, m, k>>
<1>1. d \in Nat \X (1..12) \X (1..31) /\ d[1] = y /\ d[2] = m /\ d[3] = k
  OBVIOUS
<1> HIDE DEF d
<1> QED
  BY <1>1 DEF CalendarDates

LEMMA NextDayIsDate ==
    ASSUME NEW d \in CalendarDates
    PROVE  NextDay(d) \in CalendarDates
<1>1. /\ d[1] \in Nat /\ d[2] \in 1..12 /\ d[3] \in 1..31
      /\ d[3] <= MonthLength(d[1], d[2]) /\ MonthLength(d[1], d[2]) \in 28..31
  BY DateParts, MonthLengths
<1>2. CASE d[3] < MonthLength(d[1], d[2])
  <2>1. d[3] + 1 \in 1..31 /\ d[3] + 1 <= MonthLength(d[1], d[2])
    BY <1>1, <1>2
  <2> QED
    BY <1>1, <1>2, <2>1, DateIsThere DEF NextDay
<1>3. CASE ~(d[3] < MonthLength(d[1], d[2])) /\ d[2] < 12
  <2>1. d[2] + 1 \in 1..12 /\ 1 \in 1..31
    BY <1>1, <1>3
  <2>2. 1 <= MonthLength(d[1], d[2] + 1)
    BY <1>1, <2>1, MonthLengths
  <2> QED
    BY <1>1, <1>3, <2>1, <2>2, DateIsThere DEF NextDay
<1>4. CASE ~(d[3] < MonthLength(d[1], d[2])) /\ ~(d[2] < 12)
  <2>1. d[1] + 1 \in Nat /\ 1 \in 1..12 /\ 1 \in 1..31
    BY <1>1
  <2>2. 1 <= MonthLength(d[1] + 1, 1)
    BY <2>1, MonthLengths
  <2> QED
    BY <1>4, <2>1, <2>2, DateIsThere DEF NextDay
<1> QED
  BY <1>2, <1>3, <1>4

LEMMA AddMonthsIsDate ==
    ASSUME NEW d \in CalendarDates, NEW n \in Nat
    PROVE  AddMonths(d, n) \in CalendarDates
<1>1. d[1] \in Nat /\ d[2] \in 1..12 /\ d[3] \in 1..31
  BY DateParts
<1> DEFINE k == MonthIndex(d) + n
           y == k \div 12
           m == (k % 12) + 1
           last == MonthLength(y, m)
           day == IF d[3] < last THEN d[3] ELSE last
<1>2. k \in Nat
  BY <1>1 DEF MonthIndex
<1> HIDE DEF k
<1>3. y \in Nat /\ m \in 1..12
  BY <1>2
<1> HIDE DEF y, m
<1>4. last \in 28..31
  BY <1>3, MonthLengths
<1> HIDE DEF last
<1>5. day \in 1..31 /\ day <= last
  BY <1>1, <1>4
<1>6. AddMonths(d, n) = <<y, m, day>>
  BY DEF AddMonths, Clamped, k, y, m, last
<1> HIDE DEF day
<1> QED
  BY <1>3, <1>5, <1>6, DateIsThere DEF last

LEMMA LeastNumber ==
    ASSUME NEW B, B \subseteq Nat, B # {}
    PROVE  \E i \in B : \A j \in B : i <= j
<1>1. PICK i \in B : \A j \in B : <<j, i>> \notin OpToRel(<, Nat)
  BY NatLessThanWellFounded, WFMin
<1>2. ASSUME NEW j \in B PROVE i <= j
  <2>1. i \in Nat /\ j \in Nat /\ <<j, i>> \notin OpToRel(<, Nat)
    BY <1>1
  <2>2. ~(j < i)
    BY <2>1 DEF OpToRel
  <2>3. i \in Nat /\ j \in Nat
    BY <2>1
  <2> QED
    BY <2>2, <2>3
<1> QED
  BY <1>2

\* A walk of n days from d.
IsWalk(d, n, f) == f = [i \in 0..n |-> IF i = 0 THEN d ELSE NextDay(f[i - 1])]

LEMMA WalkStaysInCalendar ==
    ASSUME NEW d \in CalendarDates, NEW n \in Nat, NEW f, IsWalk(d, n, f)
    PROVE  \A i \in 0..n : f[i] \in CalendarDates
<1> DEFINE B == {i \in 0..n : f[i] \notin CalendarDates}
<1> SUFFICES ASSUME B # {} PROVE FALSE
  OBVIOUS
<1>1. B \subseteq Nat /\ B # {}
  OBVIOUS
<1>2. PICK i \in B : \A j \in B : i <= j
  <2> HIDE DEF B
  <2> QED
    BY <1>1, LeastNumber
<1>3. i \in 0..n /\ f[i] \notin CalendarDates
  BY <1>2
<1>4. i # 0
  BY <1>3 DEF IsWalk
<1>5. i - 1 \in 0..n /\ f[i] = NextDay(f[i - 1])
  BY <1>3, <1>4 DEF IsWalk
<1>6. f[i - 1] \in CalendarDates
  BY <1>2, <1>3, <1>5
<1> QED
  BY <1>3, <1>5, <1>6, NextDayIsDate

LEMMA WalkIsThere ==
    ASSUME NEW d, NEW n \in Nat
    PROVE  \E f : IsWalk(d, n, f)
<1> DEFINE B == {k \in Nat : ~\E f : IsWalk(d, k, f)}
<1> SUFFICES ASSUME n \in B PROVE FALSE
  OBVIOUS
<1>1. B \subseteq Nat /\ B # {}
  OBVIOUS
<1>2. PICK k \in B : \A j \in B : k <= j
  <2> HIDE DEF B
  <2> QED
    BY <1>1, LeastNumber
<1>3. k \in Nat /\ ~\E f : IsWalk(d, k, f)
  BY <1>2
<1>4. k # 0
  <2> DEFINE f == [i \in 0..0 |-> d]
  <2>1. f = [i \in 0..0 |-> IF i = 0 THEN d ELSE NextDay(f[i - 1])]
    OBVIOUS
  <2> HIDE DEF f
  <2>2. IsWalk(d, 0, f)
    BY <2>1 DEF IsWalk
  <2> QED
    BY <1>3, <2>2
<1>5. k - 1 \in Nat /\ k - 1 \notin B
  BY <1>2, <1>3, <1>4
<1>6. PICK g : IsWalk(d, k - 1, g)
  BY <1>5
<1> DEFINE f == [i \in 0..k |-> IF i < k THEN g[i] ELSE NextDay(g[k - 1])]
<1>7. ASSUME NEW i \in 0..k
      PROVE  f[i] = IF i = 0 THEN d ELSE NextDay(f[i - 1])
  <2>1. CASE i = k
    BY <1>3, <1>4, <2>1
  <2>2. CASE i < k
    <3>1. i \in 0..(k - 1) /\ f[i] = g[i]
      BY <1>3, <2>2
    <3>2. g[i] = IF i = 0 THEN d ELSE NextDay(g[i - 1])
      BY <1>6, <3>1 DEF IsWalk
    <3>3. i # 0 => f[i - 1] = g[i - 1]
      BY <1>3, <2>2
    <3> HIDE DEF f
    <3> QED
      BY <3>1, <3>2, <3>3
  <2> QED
    BY <1>3, <2>1, <2>2
<1>8. f = [i \in 0..k |-> f[i]]
  OBVIOUS
<1> HIDE DEF f
<1>9. IsWalk(d, k, f)
  BY <1>7, <1>8 DEF IsWalk
<1> QED
  BY <1>3, <1>9

LEMMA AddDaysIsDate ==
    ASSUME NEW d \in CalendarDates, NEW n \in Nat
    PROVE  AddDays(d, n) \in CalendarDates
<1> DEFINE f == CHOOSE g : IsWalk(d, n, g)
<1>1. AddDays(d, n) = f[n]
  BY DEF AddDays, IsWalk
<1>2. IsWalk(d, n, f)
  BY WalkIsThere
<1> HIDE DEF f
<1> QED
  BY <1>1, <1>2, WalkStaysInCalendar

LEMMA OccurrenceIsDate ==
    ASSUME NEW s \in Schedules, NEW i \in Nat
    PROVE  OccurrenceDate(Start[s], Rule[s], i) \in CalendarDates
<1>1. /\ Start[s] \in CalendarDates
      /\ Rule[s].unit \in {"daily", "weekly", "monthly", "yearly"}
      /\ Rule[s].every \in Nat
  BY RecurringAssumption
<1> DEFINE n == Rule[s].every * i
<1>2. n \in Nat
  BY <1>1
<1> HIDE DEF n
<1>3. n * 7 \in Nat /\ n * 12 \in Nat
  BY <1>2
<1>4. /\ AddDays(Start[s], n) \in CalendarDates
      /\ AddDays(Start[s], n * 7) \in CalendarDates
      /\ AddMonths(Start[s], n) \in CalendarDates
      /\ AddMonths(Start[s], n * 12) \in CalendarDates
  BY <1>1, <1>2, <1>3, AddDaysIsDate, AddMonthsIsDate
<1> QED
  BY <1>1, <1>4 DEF OccurrenceDate, n

LEMMA DueIsDate ==
    ASSUME NEW s \in Schedules, NEW i \in 0..MaxRuns
    PROVE  Due(s, i) \in CalendarDates
<1>1. i \in Nat
  BY RecurringAssumption
<1> QED
  BY <1>1, OccurrenceIsDate DEF Due, DueDates

\* The inductive invariant of the columns: rows that calls hold are rows as well, since each
\* is written back whole, and so are those on the list of a run.
RowsTyped ==
    /\ schedules \in [Schedules -> ScheduleRow]
    /\ template \in [Schedules -> 0..MaxLines]
    /\ closed \in BOOLEAN
    /\ \A c \in Conns : seen[c] # None =>
        /\ seen[c].job = "schedule" => seen[c].row \in ScheduleRow
        /\ seen[c].job = "run" => \A e \in seen[c].todo : e.row # None => e.row \in ScheduleRow

LEMMA LinesAndRuns ==
    /\ MaxLines \in Nat \ {0} /\ MaxRuns \in Nat
    /\ 0 \in 0..MaxLines /\ 1 \in 0..MaxLines
<1>1. MaxLines \in Nat \ {0} /\ MaxRuns \in Nat
  BY RecurringAssumption
<1> QED
  BY <1>1

LEMMA RowWith ==
    ASSUME NEW r \in ScheduleRow
    PROVE  /\ \A v \in {"none", "active", "paused", "ended", "deleted"} :
                [r EXCEPT !.status = v] \in ScheduleRow
           /\ \A b \in Bounds : [r EXCEPT !.end = b[1], !.max = b[2]] \in ScheduleRow
           /\ \A i \in 0..MaxRuns, d \in CalendarDates, v \in {r.status, "ended"} :
                [r EXCEPT !.processed = i, !.next = d, !.status = v] \in ScheduleRow
<1>1. ASSUME NEW v \in {"none", "active", "paused", "ended", "deleted"}
      PROVE  [r EXCEPT !.status = v] \in ScheduleRow
  BY DEF ScheduleRow
<1>2. ASSUME NEW b \in Bounds PROVE [r EXCEPT !.end = b[1], !.max = b[2]] \in ScheduleRow
  BY DEF ScheduleRow
<1>3. ASSUME NEW i \in 0..MaxRuns, NEW d \in CalendarDates, NEW v \in {r.status, "ended"}
      PROVE  [r EXCEPT !.processed = i, !.next = d, !.status = v] \in ScheduleRow
  BY DEF ScheduleRow
<1> QED
  BY <1>1, <1>2, <1>3

LEMMA NewRowTyped ==
    ASSUME NEW s \in Schedules, NEW b \in Bounds \cup {<<None, None>>}
    PROVE  NewRow(s, b) \in ScheduleRow
<1>1. 0 \in 0..MaxRuns
  BY RecurringAssumption
<1>2. Due(s, 0) \in CalendarDates
  BY <1>1, DueIsDate
<1> QED
  BY <1>1, <1>2 DEF NewRow, ScheduleRow

LEMMA AdvancedTyped ==
    ASSUME NEW s \in Schedules, NEW row \in ScheduleRow, row.processed < MaxRuns
    PROVE  Advanced(s, row) \in ScheduleRow
<1> DEFINE i == row.processed + 1
           over == Past(<<row.end, row.max>>, i, Due(s, i))
           v == IF over THEN "ended" ELSE row.status
<1>1. i \in 0..MaxRuns
  BY RecurringAssumption DEF ScheduleRow
<1>2. Due(s, i) \in CalendarDates
  BY <1>1, DueIsDate
<1>3. v \in {row.status, "ended"}
  OBVIOUS
<1>4. Advanced(s, row) = [row EXCEPT !.processed = i, !.next = Due(s, i), !.status = v]
  BY DEF Advanced, ScheduleRow
<1>5. \A j \in 0..MaxRuns, d \in CalendarDates, u \in {row.status, "ended"} :
        [row EXCEPT !.processed = j, !.next = d, !.status = u] \in ScheduleRow
  BY RowWith
<1>6. [row EXCEPT !.processed = i, !.next = Due(s, i), !.status = v] \in ScheduleRow
  <2> HIDE DEF i, v
  <2> QED
    BY <1>1, <1>2, <1>3, <1>5
<1> QED
  BY <1>4, <1>6

LEMMA PutTyped ==
    ASSUME RowsTyped, NEW s \in Schedules, NEW row \in ScheduleRow, PutSchedule(s, row)
    PROVE  schedules' \in [Schedules -> ScheduleRow]
BY DEF PutSchedule, RowsTyped

\* The tables hold rows, and a call that ends holds none.
LEMMA RowsDone ==
    ASSUME RowsTyped, OnceInv, NEW c \in Conns, Done(c),
           schedules' \in [Schedules -> ScheduleRow],
           template' \in [Schedules -> 0..MaxLines], closed' \in BOOLEAN
    PROVE  RowsTyped'
BY DEF Done, Keep, RowsTyped, OnceInv

LEMMA EditTyped ==
    ASSUME RowsTyped, OnceInv, NEW c \in Conns,
           \/ UpdateSchedule(c) \/ PauseSchedule(c) \/ ResumeSchedule(c) \/ DeleteSchedule(c)
           \/ AddTemplateLine(c) \/ SkipNext(c)
    PROVE  RowsTyped'
<1> DEFINE s == seen[c].id
           row == seen[c].row
<1>1. /\ Doing(c, "schedule") /\ s \in Schedules /\ row \in ScheduleRow /\ Done(c)
  BY DEF UpdateSchedule, PauseSchedule, ResumeSchedule, DeleteSchedule, AddTemplateLine, SkipNext,
         Doing, Idle, OnceInv, Held, RowsTyped
<1>2. CASE UpdateSchedule(c) \/ PauseSchedule(c) \/ ResumeSchedule(c)
  <2>1. PICK new \in ScheduleRow : PutSchedule(s, new)
    BY <1>1, <1>2, RowWith DEF UpdateSchedule, PauseSchedule, ResumeSchedule
  <2>2. schedules' \in [Schedules -> ScheduleRow]
    BY <1>1, <2>1, PutTyped
  <2>3. UNCHANGED <<template, closed>>
    BY <1>2 DEF UpdateSchedule, PauseSchedule, ResumeSchedule
  <2> QED
    BY <1>1, <2>2, <2>3, RowsDone DEF RowsTyped
<1>3. CASE DeleteSchedule(c)
  <2>1. /\ schedules' = [schedules EXCEPT ![s].status = "deleted"]
        /\ template' = [template EXCEPT ![s] = 0] /\ closed' = closed
    BY <1>3 DEF DeleteSchedule
  <2>2. [schedules[s] EXCEPT !.status = "deleted"] \in ScheduleRow
    BY <1>1, RowWith DEF RowsTyped
  <2>3. schedules' \in [Schedules -> ScheduleRow]
    BY <2>1, <2>2 DEF RowsTyped
  <2>4. template' \in [Schedules -> 0..MaxLines]
    BY <2>1, LinesAndRuns DEF RowsTyped
  <2> QED
    BY <1>1, <2>1, <2>3, <2>4, RowsDone DEF RowsTyped
<1>4. CASE AddTemplateLine(c)
  <2>1. /\ template[s] < MaxLines /\ template' = [template EXCEPT ![s] = @ + 1]
        /\ UNCHANGED <<schedules, closed>>
    BY <1>4 DEF AddTemplateLine
  <2>2. template[s] + 1 \in 0..MaxLines
    BY <1>1, <2>1, LinesAndRuns DEF RowsTyped
  <2>3. template' \in [Schedules -> 0..MaxLines]
    BY <2>1, <2>2 DEF RowsTyped
  <2> QED
    BY <1>1, <2>1, <2>3, RowsDone DEF RowsTyped
<1>5. CASE SkipNext(c)
  <2>1. /\ row.processed < MaxRuns /\ PutSchedule(s, Advanced(s, row))
        /\ UNCHANGED <<template, closed>>
    BY <1>5 DEF SkipNext, ProcessOccurrence, Processes
  <2>2. schedules' \in [Schedules -> ScheduleRow]
    BY <1>1, <2>1, AdvancedTyped, PutTyped
  <2> QED
    BY <1>1, <2>1, <2>2, RowsDone DEF RowsTyped
<1> QED
  BY <1>2, <1>3, <1>4, <1>5

\* A call that goes on holds rows if what it has read now does.
LEMMA RowsKept ==
    ASSUME RowsTyped, OnceInv, NEW c \in Conns, NEW what, seen' = [seen EXCEPT ![c] = what],
           schedules' \in [Schedules -> ScheduleRow], UNCHANGED <<template, closed>>,
           what.job = "schedule" => what.row \in ScheduleRow,
           what.job = "run" => \A e \in what.todo : e.row # None => e.row \in ScheduleRow
    PROVE  RowsTyped'
<1>1. seen'[c] = what /\ \A d \in Conns : d # c => seen'[d] = seen[d]
  BY DEF OnceInv
<1>2. ASSUME NEW d \in Conns, seen'[d] # None
      PROVE  /\ seen'[d].job = "schedule" => seen'[d].row \in ScheduleRow
             /\ seen'[d].job = "run" =>
                  \A e \in seen'[d].todo : e.row # None => e.row \in ScheduleRow
  <2>1. CASE d = c
    BY <1>1, <2>1
  <2>2. CASE d # c
    BY <1>1, <1>2, <2>2 DEF RowsTyped
  <2> QED
    BY <2>1, <2>2
<1>3. template' \in [Schedules -> 0..MaxLines] /\ closed' \in BOOLEAN
  BY DEF RowsTyped
<1> QED
  BY <1>2, <1>3 DEF RowsTyped

LEMMA RunTyped ==
    ASSUME RowsTyped, OnceInv, NEW c \in Conns, RunStep(c)
    PROVE  RowsTyped'
<1> DEFINE call == seen[c]
<1>1. /\ call # None /\ call.job = "run"
      /\ call = [job |-> "run", asOf |-> call.asOf, failed |-> call.failed, todo |-> call.todo]
      /\ \A e \in call.todo : e.id \in Schedules /\ (e.row # None => e.row \in ScheduleRow)
  BY DEF RunStep, Doing, Idle, OnceInv, Held, RowsTyped
<1>2. \A todo, failed :
        /\ [call EXCEPT !.todo = todo] =
             [job |-> "run", asOf |-> call.asOf, failed |-> call.failed, todo |-> todo]
        /\ [[call EXCEPT !.todo = todo] EXCEPT !.failed = failed] =
             [job |-> "run", asOf |-> call.asOf, failed |-> failed, todo |-> todo]
  BY <1>1, CallExcept
<1>3. CASE RunReturns(c)
  BY <1>3, RowsDone DEF RunReturns, recurringVars, RowsTyped
<1>4. ASSUME NEW todo, NEW failed,
             seen' = [seen EXCEPT ![c] = [job |-> "run", asOf |-> call.asOf,
                                          failed |-> failed, todo |-> todo]],
             \A e \in todo : e.row # None => e.row \in ScheduleRow,
             schedules' \in [Schedules -> ScheduleRow], UNCHANGED <<template, closed>>
      PROVE  RowsTyped'
  <2> DEFINE what == [job |-> "run", asOf |-> call.asOf, failed |-> failed, todo |-> todo]
  <2>1. what.job = "run" /\ what.todo = todo
    OBVIOUS
  <2> HIDE DEF what
  <2> QED
    BY <1>4, <2>1, RowsKept DEF what
<1>5. ASSUME NEW e \in call.todo,
             RunOccurrence(c, e) \/ Reread(c, e) \/ RunFails(c, e) \/ CaughtUp(c, e)
      PROVE  RowsTyped'
  <2> DEFINE others == call.todo \ {e}
  <2>1. e.id \in Schedules
    BY <1>1, <1>5
  <2>2. CASE RunOccurrence(c, e)
    <3> DEFINE todo == others \cup {[id |-> e.id, row |-> None]}
    <3>1. /\ e.row # None /\ e.row.processed < MaxRuns
          /\ PutSchedule(e.id, Advanced(e.id, e.row)) /\ UNCHANGED <<template, closed>>
          /\ seen' = [seen EXCEPT ![c] = [call EXCEPT !.todo = todo]]
      BY <2>2 DEF RunOccurrence, ProcessOccurrence, Processes, Keep
    <3>2. e.row \in ScheduleRow
      BY <1>1, <1>5, <3>1
    <3>3. schedules' \in [Schedules -> ScheduleRow]
      BY <2>1, <3>1, <3>2, AdvancedTyped, PutTyped
    <3>4. \A f \in todo : f.row # None => f.row \in ScheduleRow
      BY <1>1
    <3> HIDE DEF todo
    <3> QED
      BY <1>2, <1>4, <3>1, <3>3, <3>4
  <2>3. CASE Reread(c, e)
    <3> DEFINE todo == others \cup {[id |-> e.id, row |-> schedules[e.id]]}
    <3>1. /\ seen' = [seen EXCEPT ![c] = [call EXCEPT !.todo = todo]]
          /\ UNCHANGED <<schedules, template, closed>>
      BY <2>3 DEF Reread, Keep, recurringVars
    <3>2. \A f \in todo : f.row # None => f.row \in ScheduleRow
      BY <1>1, <2>1 DEF RowsTyped
    <3>3. schedules' \in [Schedules -> ScheduleRow]
      BY <3>1 DEF RowsTyped
    <3> HIDE DEF todo
    <3> QED
      BY <1>2, <1>4, <3>1, <3>2, <3>3
  <2>4. CASE RunFails(c, e) \/ CaughtUp(c, e)
    <3>1. UNCHANGED <<schedules, template, closed>>
      BY <2>4 DEF RunFails, CaughtUp, recurringVars
    <3>2. PICK failed : seen' = [seen EXCEPT ![c] = [job |-> "run", asOf |-> call.asOf,
                                                     failed |-> failed, todo |-> others]]
      <4>1. CASE CaughtUp(c, e)
        BY <1>2, <4>1 DEF CaughtUp, NextTodo, Keep
      <4>2. CASE RunFails(c, e)
        <5> DEFINE short == [call EXCEPT !.todo = others]
                   failed == short.failed \cup {e.id}
        <5>1. seen' = [seen EXCEPT ![c] = [short EXCEPT !.failed = failed]]
          BY <4>2 DEF RunFails, AfterFailure, NextTodo, Keep
        <5> HIDE DEF failed
        <5> QED
          BY <1>2, <5>1
      <4> QED
        BY <2>4, <4>1, <4>2
    <3>3. \A f \in others : f.row # None => f.row \in ScheduleRow
      BY <1>1
    <3>4. schedules' \in [Schedules -> ScheduleRow]
      BY <3>1 DEF RowsTyped
    <3> HIDE DEF others
    <3> QED
      BY <1>4, <3>1, <3>2, <3>3, <3>4
  <2> QED
    BY <1>5, <2>2, <2>3, <2>4
<1> QED
  BY <1>3, <1>5 DEF RunStep

LEMMA RowsInitially == ConnInit /\ RecurringInit => RowsTyped
<1> SUFFICES ASSUME ConnInit, RecurringInit PROVE RowsTyped
  OBVIOUS
<1>1. ASSUME NEW s \in Schedules
      PROVE  [NewRow(s, <<None, None>>) EXCEPT !.status = "none"] \in ScheduleRow
  BY NewRowTyped, RowWith
<1>2. schedules \in [Schedules -> ScheduleRow]
  BY <1>1 DEF RecurringInit
<1> QED
  BY <1>2, LinesAndRuns DEF ConnInit, RecurringInit, RowsTyped

LEMMA RowsStep == OnceInv /\ RowsTyped /\ [RecurringNext]_<<connVars, recurringVars>> => RowsTyped'
<1> SUFFICES ASSUME OnceInv, RowsTyped, [RecurringNext]_<<connVars, recurringVars>> PROVE RowsTyped'
  OBVIOUS
<1>1. CASE UNCHANGED <<connVars, recurringVars>>
  BY <1>1 DEF connVars, recurringVars, RowsTyped
<1>2. CASE Close
  BY <1>2 DEF Close, connVars, RowsTyped
<1>3. ASSUME NEW s \in Schedules, CreateSchedule(s) PROVE RowsTyped'
  <2>1. PICK b \in Bounds : schedules' = [schedules EXCEPT ![s] = NewRow(s, b)]
    BY <1>3 DEF CreateSchedule
  <2>2. schedules' \in [Schedules -> ScheduleRow]
    BY <2>1, NewRowTyped DEF RowsTyped
  <2>3. template[s] \in 0..MaxLines
    BY DEF RowsTyped
  <2> QED
    BY <1>3, <2>2, <2>3, LinesAndRuns DEF CreateSchedule, connVars, RowsTyped
<1>4. ASSUME NEW s \in Schedules, RemoveTemplateLine(s) PROVE RowsTyped'
  <2>1. template[s] - 1 \in 0..MaxLines /\ template' = [template EXCEPT ![s] = @ - 1]
    BY <1>4, LinesAndRuns DEF RemoveTemplateLine, RowsTyped
  <2> QED
    BY <1>4, <2>1 DEF RemoveTemplateLine, connVars, RowsTyped
<1>5. ASSUME NEW c \in Conns, NEW s \in Schedules, GetSchedule(c, s) PROVE RowsTyped'
  <2> DEFINE what == [job |-> "schedule", id |-> s, row |-> schedules[s]]
  <2>1. what.job = "schedule" /\ what.row = schedules[s]
    OBVIOUS
  <2>2. seen' = [seen EXCEPT ![c] = what] /\ UNCHANGED <<schedules, template, closed>>
    BY <1>5 DEF GetSchedule, Read, recurringVars
  <2>3. schedules[s] \in ScheduleRow /\ schedules' \in [Schedules -> ScheduleRow]
    BY <2>2 DEF RowsTyped
  <2> HIDE DEF what
  <2> QED
    BY <2>1, <2>2, <2>3, RowsKept
<1>6. ASSUME NEW c \in Conns, NEW d \in AsOf, ListDue(c, d) PROVE RowsTyped'
  <2> DEFINE todo == {[id |-> s, row |-> schedules[s]] :
                        s \in {s \in Schedules : StillDue(schedules[s], d)}}
             what == [job |-> "run", asOf |-> d, failed |-> {}, todo |-> todo]
  <2>1. seen' = [seen EXCEPT ![c] = what] /\ UNCHANGED <<schedules, template, closed>>
    BY <1>6 DEF ListDue, Read, recurringVars
  <2>2. \A e \in todo : e.row \in ScheduleRow
    BY DEF RowsTyped
  <2> HIDE DEF todo
  <2>3. what.job = "run" /\ what.todo = todo
    OBVIOUS
  <2>4. schedules' \in [Schedules -> ScheduleRow]
    BY <2>1 DEF RowsTyped
  <2> HIDE DEF what
  <2> QED
    BY <2>1, <2>2, <2>3, <2>4, RowsKept
<1>7. ASSUME NEW c \in Conns, Abandon(c), UNCHANGED recurringVars PROVE RowsTyped'
  BY <1>7, RowsDone DEF Abandon, recurringVars, RowsTyped
<1> QED
  BY <1>1, <1>2, <1>3, <1>4, <1>5, <1>6, <1>7, EditTyped, RunTyped DEF RecurringNext

LEMMA RecurringTypes == OnceInv /\ RowsTyped => RecurringTypeOK
BY DEF OnceInv, RowsTyped, RecurringTypeOK

-----------------------------------------------------------------------------
(***************************************************************************)
(* What holds of goods receipts for any orders, lines, places and          *)
(* connections, proved.                                                    *)
(***************************************************************************)
PurchaseIsRow(r) == r = [status |-> r.status, subtotal |-> r.subtotal, tax |-> r.tax, total |-> r.total]

\* Writing a field of a row leaves a row, and every other field of it alone.
LEMMA PurchaseRowExcept ==
    ASSUME NEW r, PurchaseIsRow(r), NEW v
    PROVE  /\ PurchaseIsRow([r EXCEPT !.status = v]) /\ [r EXCEPT !.status = v].status = v
           /\ PurchaseIsRow([r EXCEPT !.subtotal = v]) /\ [r EXCEPT !.subtotal = v].status = r.status
           /\ PurchaseIsRow([r EXCEPT !.tax = v]) /\ [r EXCEPT !.tax = v].status = r.status
           /\ PurchaseIsRow([r EXCEPT !.total = v]) /\ [r EXCEPT !.total = v].status = r.status
<1>1. ASSUME NEW a, NEW b, NEW d, NEW e, r = [status |-> a, subtotal |-> b, tax |-> d, total |-> e]
      PROVE  /\ [r EXCEPT !.status = v] = [status |-> v, subtotal |-> b, tax |-> d, total |-> e]
             /\ [r EXCEPT !.subtotal = v] = [status |-> a, subtotal |-> v, tax |-> d, total |-> e]
             /\ [r EXCEPT !.tax = v] = [status |-> a, subtotal |-> b, tax |-> v, total |-> e]
             /\ [r EXCEPT !.total = v] = [status |-> a, subtotal |-> b, tax |-> d, total |-> v]
             /\ r.status = a
  BY <1>1
<1>2. ASSUME NEW a, NEW b, NEW d, NEW e
      PROVE  LET row == [status |-> a, subtotal |-> b, tax |-> d, total |-> e]
             IN  PurchaseIsRow(row) /\ row.status = a
  BY DEF PurchaseIsRow
<1> QED
  BY <1>1, <1>2 DEF PurchaseIsRow

\* What a call that has read an order or a line holds.  An order is read only while it
\* is there, so the row it holds can be written back without bringing anything back
\* from the dead or sending it there.
PurchaseHeld(c) ==
    /\ seen[c].job = "order" =>
        /\ seen[c].id \in Purchases
        /\ PurchaseIsRow(seen[c].row)
        /\ seen[c].row.status \notin {"none", "deleted"}
    /\ seen[c].job = "line" => seen[c].id \in PoLines

\* The inductive invariant.  A received line is there, and a line's order is there: the
\* second half is what receipts alone do not say, and what a new line needs of its order.
ReceiptInv ==
    /\ purchases = [o \in Purchases |-> purchases[o]] /\ \A o \in Purchases : PurchaseIsRow(purchases[o])
    /\ poLines = [l \in PoLines |-> poLines[l]]
    /\ receipts \in [PoLines -> Nat]
    /\ seen = [c \in Conns |-> seen[c]]
    /\ \A c \in Conns : seen[c] # None => PurchaseHeld(c)
    /\ \A l \in PoLines : receipts[l] > 0 => poLines[l] # None
    /\ \A l \in PoLines : poLines[l] # None => OrderExists(OrderOf[l])

\* A new row is a row.
LEMMA LineRowIsThere ==
    ASSUME NEW n \in Quantities, NEW p \in Prices
    PROVE  LineRow(n, p) # None
<1>1. n \in Nat /\ p \in Nat
  BY PurchasingAssumption
<1>2. n * p \in Nat
  BY <1>1
<1> QED
  BY <1>2, PurchasingAssumption DEF LineRow

\* Recomputing the totals leaves every status alone.
LEMMA TotalsKeepStatus ==
    ASSUME ReceiptInv, NEW o \in Purchases, NEW rows, PutLines(o, rows)
    PROVE  /\ purchases' = [q \in Purchases |-> purchases'[q]]
           /\ \A q \in Purchases :
                PurchaseIsRow(purchases'[q]) /\ purchases'[q].status = purchases[q].status
           /\ OrderExists(o)
           /\ poLines' = rows
<1> DEFINE sum == Subtotal(o, rows)
<1>1. purchases' = [purchases EXCEPT ![o].subtotal = sum, ![o].total = sum + purchases[o].tax]
  BY DEF PutLines, Recalculated
<1> DEFINE first == [purchases[o] EXCEPT !.subtotal = sum]
           last == [first EXCEPT !.total = sum + purchases[o].tax]
<1>2. \A q \in Purchases : PurchaseIsRow(purchases'[q]) /\ purchases'[q].status = purchases[q].status
  <2>1. purchases' = [purchases EXCEPT ![o] = last]
    <3> DEFINE half == [purchases EXCEPT ![o].subtotal = sum]
    <3>1. half = [purchases EXCEPT ![o] = first] /\ half[o] = first
      BY DEF ReceiptInv
    <3>2. purchases' = [half EXCEPT ![o].total = sum + purchases[o].tax]
      BY <1>1
    <3>3. purchases' = [half EXCEPT ![o] = last]
      <4> HIDE DEF half, first
      <4> QED
        BY <3>1, <3>2
    <3>4. [half EXCEPT ![o] = last] = [purchases EXCEPT ![o] = last]
      <4> HIDE DEF half, first, last
      <4> QED
        BY <3>1
    <3> QED
      BY <3>3, <3>4
  <2>2. PurchaseIsRow(first) /\ first.status = purchases[o].status
    <3>1. PurchaseIsRow(purchases[o])
      BY DEF ReceiptInv
    <3> QED
      BY <3>1, PurchaseRowExcept
  <2>3. PurchaseIsRow(last) /\ last.status = first.status
    <3> HIDE DEF first
    <3> QED
      BY <2>2, PurchaseRowExcept
  <2> HIDE DEF last
  <2> QED
    BY <2>1, <2>2, <2>3 DEF ReceiptInv
<1>3. purchases' = [q \in Purchases |-> purchases'[q]]
  BY <1>1 DEF ReceiptInv
<1> QED
  BY <1>2, <1>3 DEF PutLines

\* Writing back the row of an order that was there when it was read.
LEMMA PutStep ==
    ASSUME ReceiptInv, NEW o \in Purchases, NEW row,
           PurchaseIsRow(row), row.status \notin {"none", "deleted"}, PoPut(o, row)
    PROVE  /\ purchases' = [q \in Purchases |-> purchases'[q]]
           /\ \A q \in Purchases : PurchaseIsRow(purchases'[q]) /\ (OrderExists(q) => OrderExists(q)')
           /\ UNCHANGED <<poLines, receipts>>
<1>1. CASE OrderExists(o)
  BY <1>1 DEF PoPut, ReceiptInv, OrderExists
<1>2. CASE ~OrderExists(o)
  BY <1>2 DEF PoPut, ReceiptInv, OrderExists
<1> QED
  BY <1>1, <1>2

\* The two updates of an order's own row.
LEMMA OrderRowStep ==
    ASSUME ReceiptInv, NEW c \in Conns, PoUpdate(c) \/ PoSetStatus(c)
    PROVE  ReceiptInv'
<1> DEFINE o == seen[c].id
           row == seen[c].row
<1>1. /\ o \in Purchases /\ PurchaseIsRow(row) /\ row.status \notin {"none", "deleted"}
  BY DEF PoUpdate, PoSetStatus, Doing, Idle, ReceiptInv, PurchaseHeld
<1>2. seen' = [seen EXCEPT ![c] = None]
  BY DEF PoUpdate, PoSetStatus, Done, Keep
<1>3. PICK new : /\ PurchaseIsRow(new) /\ new.status \notin {"none", "deleted"}
                 /\ PoPut(o, new)
  <2>1. CASE PoUpdate(c)
    <3>1. PICK tax \in Taxes : PoPut(o, [row EXCEPT !.tax = tax, !.total = row.subtotal + tax])
      BY <2>1 DEF PoUpdate
    <3> DEFINE taxed == [row EXCEPT !.tax = tax]
               new == [taxed EXCEPT !.total = row.subtotal + tax]
    <3>2. PurchaseIsRow(taxed) /\ taxed.status = row.status
      BY <1>1, PurchaseRowExcept
    <3>3. PurchaseIsRow(new) /\ new.status = taxed.status
      <4> HIDE DEF taxed
      <4> QED
        BY <3>2, PurchaseRowExcept
    <3>4. PoPut(o, new)
      BY <3>1
    <3> HIDE DEF new
    <3> QED
      BY <1>1, <3>2, <3>3, <3>4
  <2>2. CASE PoSetStatus(c)
    <3>1. PICK to \in {"ordered", "cancelled"} : PoPut(o, [row EXCEPT !.status = to])
      BY <2>2 DEF PoSetStatus
    <3> DEFINE new == [row EXCEPT !.status = to]
    <3>2. PurchaseIsRow(new) /\ new.status = to
      BY <1>1, PurchaseRowExcept
    <3> QED
      BY <3>1, <3>2
  <2> QED
    BY <2>1, <2>2
<1>4. /\ purchases' = [q \in Purchases |-> purchases'[q]]
      /\ \A q \in Purchases : PurchaseIsRow(purchases'[q]) /\ (OrderExists(q) => OrderExists(q)')
      /\ UNCHANGED <<poLines, receipts>>
  BY <1>1, <1>3, PutStep
<1>5. \A l \in PoLines : OrderOf[l] \in Purchases
  BY PurchasingAssumption
<1> QED
  BY <1>2, <1>4, <1>5 DEF ReceiptInv, PurchaseHeld

\* Deleting an order: the foreign key of its lines' receipts has the last word.
LEMMA DeleteStep ==
    ASSUME ReceiptInv, NEW c \in Conns, PoDelete(c)
    PROVE  ReceiptInv'
<1> DEFINE o == seen[c].id
<1>1. o \in Purchases /\ seen' = [seen EXCEPT ![c] = None]
  BY DEF PoDelete, Doing, Idle, ReceiptInv, PurchaseHeld, Done, Keep
<1>2. /\ \A l \in PoLines : OrderOf[l] = o => receipts[l] = 0
      /\ purchases' = [purchases EXCEPT ![o].status = "deleted"]
      /\ poLines' = [l \in PoLines |-> IF OrderOf[l] = o THEN None ELSE poLines[l]]
      /\ receipts' = receipts
  BY DEF PoDelete, MayGo, LinesOf
<1>3. \A q \in Purchases : /\ PurchaseIsRow(purchases'[q])
                           /\ q # o => purchases'[q] = purchases[q]
  <2> DEFINE gone == [purchases[o] EXCEPT !.status = "deleted"]
  <2>1. PurchaseIsRow(gone)
    <3>1. PurchaseIsRow(purchases[o])
      BY <1>1 DEF ReceiptInv
    <3> QED
      BY <3>1, PurchaseRowExcept
  <2>2. purchases' = [purchases EXCEPT ![o] = gone]
    BY <1>2
  <2> HIDE DEF gone
  <2> QED
    BY <1>1, <2>1, <2>2 DEF ReceiptInv
<1>4. \A l \in PoLines : poLines'[l] # None =>
        OrderOf[l] # o /\ OrderOf[l] \in Purchases /\ OrderExists(OrderOf[l])
  BY <1>2, PurchasingAssumption DEF ReceiptInv
<1>5. \A l \in PoLines : receipts'[l] > 0 => poLines'[l] # None
  BY <1>2 DEF ReceiptInv
<1>6. \A l \in PoLines : poLines'[l] # None => OrderExists(OrderOf[l])'
  BY <1>3, <1>4 DEF OrderExists
<1>7. \A d \in Conns : seen'[d] # None => PurchaseHeld(d)'
  BY <1>1 DEF ReceiptInv, PurchaseHeld
<1>8. /\ purchases' = [q \in Purchases |-> purchases'[q]]
      /\ poLines' = [l \in PoLines |-> poLines'[l]]
      /\ receipts' \in [PoLines -> Nat] /\ seen' = [d \in Conns |-> seen'[d]]
  BY <1>1, <1>2 DEF ReceiptInv
<1> QED
  BY <1>3, <1>5, <1>6, <1>7, <1>8 DEF ReceiptInv

\* Adding, changing and deleting a line.
LEMMA LineStep ==
    ASSUME ReceiptInv, NEW c \in Conns, PoItemAdd(c) \/ PoItemUpdate(c) \/ PoItemDelete(c)
    PROVE  ReceiptInv'
<1>1. seen' = [seen EXCEPT ![c] = None] /\ receipts' = receipts
  BY DEF PoItemAdd, PoItemUpdate, PoItemDelete, Done, Keep
<1>2. \A l \in PoLines : OrderOf[l] \in Purchases
  BY PurchasingAssumption
<1>3. PICK l \in PoLines :
        \E row : /\ PutLines(OrderOf[l], [poLines EXCEPT ![l] = row])
                 /\ receipts[l] > 0 => row # None
  <2>1. CASE PoItemAdd(c)
    BY <2>1, LineRowIsThere DEF PoItemAdd, LinesOf
  <2>2. CASE PoItemUpdate(c)
    <3>1. seen[c].id \in PoLines
      BY <2>2 DEF PoItemUpdate, Doing, Idle, ReceiptInv, PurchaseHeld
    <3> DEFINE l == seen[c].id
    <3>2. PICK n \in Quantities, p \in Prices :
            PutLines(OrderOf[l], IF poLines[l] = None THEN poLines
                                 ELSE [poLines EXCEPT ![l] = LineRow(n, p)])
      BY <2>2 DEF PoItemUpdate
    <3>3. CASE poLines[l] = None
      <4>1. poLines = [poLines EXCEPT ![l] = None] /\ ~(receipts[l] > 0)
        BY <3>1, <3>3 DEF ReceiptInv
      <4> QED
        BY <3>1, <3>2, <3>3, <4>1
    <3>4. CASE poLines[l] # None
      BY <3>1, <3>2, <3>4, LineRowIsThere
    <3> QED
      BY <3>3, <3>4
  <2>3. CASE PoItemDelete(c)
    <3> DEFINE l == seen[c].id
    <3>1. l \in PoLines /\ receipts[l] = 0
      BY <2>3 DEF PoItemDelete, MayGo, Doing, Idle, ReceiptInv, PurchaseHeld
    <3>2. PutLines(OrderOf[l], [poLines EXCEPT ![l] = None])
      BY <2>3 DEF PoItemDelete
    <3>3. receipts[l] > 0 => None # None
      BY <3>1
    <3> QED
      BY <3>1, <3>2, <3>3
  <2> QED
    BY <2>1, <2>2, <2>3
<1>4. PICK row : /\ PutLines(OrderOf[l], [poLines EXCEPT ![l] = row])
                 /\ receipts[l] > 0 => row # None
  BY <1>3
<1>5. /\ purchases' = [q \in Purchases |-> purchases'[q]]
      /\ \A q \in Purchases :
            PurchaseIsRow(purchases'[q]) /\ purchases'[q].status = purchases[q].status
      /\ OrderExists(OrderOf[l])
      /\ poLines' = [poLines EXCEPT ![l] = row]
  BY <1>2, <1>4, TotalsKeepStatus
<1> QED
  BY <1>1, <1>2, <1>4, <1>5 DEF ReceiptInv, OrderExists, PurchaseHeld

\* A receipt: its line is there when the transaction runs.
LEMMA ReceiveStep ==
    ASSUME ReceiptInv, NEW c \in Conns, PoReceive(c)
    PROVE  ReceiptInv'
<1> DEFINE l == seen[c].id
<1>1. l \in PoLines /\ poLines[l] # None
  BY DEF PoReceive, Doing, Idle, ReceiptInv, PurchaseHeld
<1>2. /\ seen' = [seen EXCEPT ![c] = None]
      /\ receipts' = [receipts EXCEPT ![l] = @ + 1]
      /\ UNCHANGED <<purchases, poLines>>
  BY DEF PoReceive, Done, Keep
<1>3. receipts' \in [PoLines -> Nat] /\ \A k \in PoLines : k # l => receipts'[k] = receipts[k]
  BY <1>1, <1>2 DEF ReceiptInv
<1> QED
  BY <1>1, <1>2, <1>3 DEF ReceiptInv, OrderExists, PurchaseHeld

\* Creating an order, and reading one or one of its lines.
LEMMA BeginStep ==
    ASSUME ReceiptInv,
           \/ \E o \in Purchases : PoCreate(o)
           \/ \E c \in Conns : \/ \E o \in Purchases : PoGet(c, o)
                               \/ \E l \in PoLines : PoItemGet(c, l)
    PROVE  ReceiptInv'
<1>1. \A l \in PoLines : OrderOf[l] \in Purchases
  BY PurchasingAssumption
<1>2. ASSUME NEW o \in Purchases, PoCreate(o)
      PROVE  ReceiptInv'
  <2>1. PICK tax \in Taxes : purchases' = [purchases EXCEPT ![o] = EmptyOrder(tax)]
    BY <1>2 DEF PoCreate
  <2>2. \A q \in Purchases : PurchaseIsRow(purchases'[q]) /\ (OrderExists(q) => OrderExists(q)')
    BY <2>1 DEF ReceiptInv, EmptyOrder, PurchaseIsRow, OrderExists
  <2>3. UNCHANGED <<poLines, receipts, seen>>
    BY <1>2 DEF PoCreate, connVars
  <2> QED
    BY <1>1, <2>1, <2>2, <2>3 DEF ReceiptInv, PurchaseHeld
<1>3. ASSUME NEW c \in Conns, NEW o \in Purchases, PoGet(c, o)
      PROVE  ReceiptInv'
  <2>1. /\ seen' = [seen EXCEPT ![c] = [job |-> "order", id |-> o, row |-> purchases[o]]]
        /\ OrderExists(o) /\ UNCHANGED <<purchases, poLines, receipts>>
    BY <1>3 DEF PoGet, Read, purchasingVars
  <2> QED
    BY <2>1 DEF ReceiptInv, PurchaseHeld, OrderExists
<1>4. ASSUME NEW c \in Conns, NEW l \in PoLines, PoItemGet(c, l)
      PROVE  ReceiptInv'
  <2> DEFINE what == [job |-> "line", id |-> l, row |-> poLines[l],
                      order |-> purchases[OrderOf[l]].status, received |-> ReceivedQty(l)]
  <2>1. seen' = [seen EXCEPT ![c] = what] /\ UNCHANGED <<purchases, poLines, receipts>>
    BY <1>4 DEF PoItemGet, Read, purchasingVars
  <2>2. what.job = "line" /\ what.id = l
    OBVIOUS
  <2> HIDE DEF what
  <2> QED
    BY <2>1, <2>2 DEF ReceiptInv, PurchaseHeld, OrderExists
<1> QED
  BY <1>2, <1>3, <1>4

\* Every step keeps the invariant.
LEMMA ReceiptStep ==
    ReceiptInv /\ [PurchasingNext]_<<connVars, purchasingVars>> => ReceiptInv'
<1> SUFFICES ASSUME ReceiptInv, [PurchasingNext]_<<connVars, purchasingVars>>
             PROVE  ReceiptInv'
  OBVIOUS
<1>1. ASSUME UNCHANGED <<seen, purchases, poLines, receipts>>
      PROVE  ReceiptInv'
  BY <1>1 DEF ReceiptInv, PurchaseHeld, OrderExists
<1>2. ASSUME UNCHANGED <<connVars, purchasingVars>>
      PROVE  ReceiptInv'
  BY <1>1, <1>2 DEF connVars, purchasingVars
<1>3. ASSUME NEW c \in Conns, Abandon(c), UNCHANGED purchasingVars
      PROVE  ReceiptInv'
  BY <1>3 DEF Abandon, Done, Keep, purchasingVars, ReceiptInv, PurchaseHeld, OrderExists
<1>4. ASSUME NEW l \in PoLines, NEW n \in Deliveries,
             \/ \E p \in Places : StockMovementRecord(l, p, n)
             \/ \E from, to \in Places : StockTransfer(l, from, to, n)
      PROVE  ReceiptInv'
  BY <1>1, <1>4 DEF StockMovementRecord, StockTransfer, connVars
<1>5. ASSUME CoaSeed \/ \E a \in StockAccounts : CoaCreate(a)
      PROVE  ReceiptInv'
  BY <1>1, <1>5 DEF CoaSeed, CoaCreate, connVars
<1> QED
  BY <1>2, <1>3, <1>4, <1>5, OrderRowStep, DeleteStep, LineStep, ReceiveStep, BeginStep
  DEF PurchasingNext

LEMMA ReceiptsInitially == ConnInit /\ PurchasingInit => ReceiptInv
BY DEF ConnInit, PurchasingInit, ReceiptInv, EmptyOrder, PurchaseIsRow

LEMMA ReceiptsHold == PurchasingSpec => []ReceiptInv
BY ReceiptsInitially, ReceiptStep, PTL DEF PurchasingSpec

\* ReceiptsKeepTheirOrder: however many processes receive, edit and delete at once, and
\* whatever each read before, what was received keeps its line and its order (po_delete,
\* po_item_delete).
THEOREM ReceiptsNeverLoseTheirOrder == PurchasingSpec => []ReceiptsKeepTheirOrder
<1>1. ReceiptInv => ReceiptsKeepTheirOrder
  BY DEF ReceiptInv, ReceiptsKeepTheirOrder
<1> QED
  BY <1>1, ReceiptsHold, PTL

\* A line at one price all along cost what came of it with both accounts there,
\* corrections taken off.
PaidFor(l) ==
    poLines[l] # None /\ ~repriced[l] =>
        inventory[l] = poLines[l].price * (Total(received[l]) - unposted[l])

\* The inductive invariant: receipts move what they receive, place by place; transfers
\* move nothing on the whole; and nothing came in without a receipt, which is why a line
\* that was never received may get any price.
GoodsInv ==
    /\ moved \in [PoLines -> [Origins -> [Places -> Int]]]
    /\ received \in [PoLines -> [Places -> Int]]
    /\ inventory \in [PoLines -> Int]
    /\ repriced \in [PoLines -> BOOLEAN]
    /\ unposted \in [PoLines -> Int]
    /\ coa \subseteq StockAccounts
    /\ \A l \in PoLines : poLines[l] # None => poLines[l].price \in Nat
    /\ \A c \in Conns : seen[c] # None /\ seen[c].job = "line" => seen[c].row.price \in Nat
    /\ \A l \in PoLines :
        /\ moved[l]["po_receipt"] = received[l]
        /\ Total(moved[l]["transfer"]) = 0
        /\ receipts[l] = 0 => Total(received[l]) = 0 /\ inventory[l] = 0 /\ unposted[l] = 0
        /\ PaidFor(l)

\* One place's count changes by n, and so does the sum.
LEMMA PlaceChanges ==
    ASSUME NEW f \in [Places -> Int], NEW p \in Places, NEW n \in Int
    PROVE  /\ [f EXCEPT ![p] = @ + n] \in [Places -> Int]
           /\ Total([f EXCEPT ![p] = @ + n]) = Total(f) + n
           /\ Total(f) \in Int
<1> DEFINE h == [f EXCEPT ![p] = @ + n]
<1>1. /\ DOMAIN f = Places /\ DOMAIN h = Places /\ h \in [Places -> Int]
      /\ \A q \in Places : f[q] \in Int /\ h[q] \in Int
      /\ \A q \in Places : q # p => h[q] = f[q]
      /\ h[p] = f[p] + n
  OBVIOUS
<1> HIDE DEF h
<1>2. Total(h) = Total(f) + (h[p] - f[p]) /\ Total(f) \in Int
  BY <1>1, PurchasingAssumption, TotalChange
<1>3. PICK a \in Int : a = f[p]
  OBVIOUS
<1>4. h[p] - f[p] = n
  BY <1>1, <1>3
<1> QED
  BY <1>1, <1>2, <1>4 DEF h

LEMMA ReceiptMeetsGoods ==
    ASSUME ReceiptInv, GoodsInv, NEW c \in Conns, PoReceive(c)
    PROVE  GoodsInv'
<1>1. PICK l \in PoLines : l = seen[c].id /\ poLines[l] # None
  BY DEF PoReceive, Doing, Idle, ReceiptInv, PurchaseHeld
<1>a. PICK price \in Nat : price = seen[c].row.price
  BY DEF PoReceive, Doing, Idle, GoodsInv
<1>2. PICK n \in Deliveries, p \in Places :
        /\ received' = [received EXCEPT ![l][p] = @ + n]
        /\ receipts' = [receipts EXCEPT ![l] = @ + 1]
        /\ moved' = [moved EXCEPT ![l]["po_receipt"][p] = @ + n]
        /\ inventory' = [inventory EXCEPT ![l] = @ + JournalOf(seen[c].row, n)]
        /\ repriced' = [repriced EXCEPT ![l] = @ \/ price # poLines[l].price]
        /\ unposted' = [unposted EXCEPT ![l] = @ + IF AccountsThere THEN 0 ELSE n]
        /\ UNCHANGED <<poLines, coa>>
  BY <1>1, <1>a DEF PoReceive, Moved
<1>3. n \in Int /\ seen' = [seen EXCEPT ![c] = None]
  BY PurchasingAssumption DEF PoReceive, Done, Keep
<1> DEFINE goods == [received[l] EXCEPT ![p] = @ + n]
           worth == IF AccountsThere THEN price * n ELSE 0
           left == IF AccountsThere THEN 0 ELSE n
<1>4. /\ goods \in [Places -> Int] /\ Total(goods) = Total(received[l]) + n
      /\ Total(received[l]) \in Int
  <2>1. received[l] \in [Places -> Int]
    BY <1>1 DEF GoodsInv
  <2> QED
    BY <1>3, <2>1, PlaceChanges
<1>5. received' = [received EXCEPT ![l] = goods]
  BY <1>2
<1>6. moved' = [moved EXCEPT ![l]["po_receipt"] = goods]
  BY <1>1, <1>2 DEF GoodsInv
<1>7. worth \in Int /\ inventory' = [inventory EXCEPT ![l] = @ + worth]
  <2>1. AccountsThere => price * n \in Int
    BY <1>3
  <2>2. inventory' = [inventory EXCEPT ![l] = @ + worth]
    BY <1>2, <1>a DEF JournalOf
  <2> QED
    BY <2>1, <2>2
<1> HIDE DEF goods
<1>8. /\ received' \in [PoLines -> [Places -> Int]] /\ received'[l] = goods
      /\ \A m \in PoLines : m # l => received'[m] = received[m]
  BY <1>1, <1>4, <1>5 DEF GoodsInv
<1>9. /\ moved' \in [PoLines -> [Origins -> [Places -> Int]]]
      /\ moved'[l]["po_receipt"] = goods /\ moved'[l]["transfer"] = moved[l]["transfer"]
      /\ \A m \in PoLines : m # l => moved'[m] = moved[m]
  BY <1>1, <1>4, <1>6 DEF GoodsInv, Origins
<1>10. /\ inventory' \in [PoLines -> Int] /\ inventory'[l] = inventory[l] + worth
       /\ \A m \in PoLines : m # l => inventory'[m] = inventory[m]
  <2> HIDE DEF worth
  <2> QED
    BY <1>1, <1>7 DEF GoodsInv
<1>b. /\ unposted' \in [PoLines -> Int] /\ unposted'[l] = unposted[l] + left
      /\ \A m \in PoLines : m # l => unposted'[m] = unposted[m]
  <2>1. left \in Int
    BY <1>3
  <2>2. unposted' = [unposted EXCEPT ![l] = @ + left]
    BY <1>2
  <2> HIDE DEF left
  <2> QED
    BY <1>1, <2>1, <2>2 DEF GoodsInv
<1>11. /\ repriced' \in [PoLines -> BOOLEAN]
       /\ ~repriced'[l] => ~repriced[l] /\ price = poLines[l].price
       /\ \A m \in PoLines : m # l => repriced'[m] = repriced[m]
  BY <1>1, <1>2 DEF GoodsInv
<1>12. /\ receipts'[l] # 0
       /\ \A m \in PoLines : m # l => receipts'[m] = receipts[m]
  BY <1>1, <1>2 DEF ReceiptInv
<1>13. PaidFor(l)'
  <2> SUFFICES ASSUME ~repriced'[l]
               PROVE  inventory'[l] = poLines[l].price * (Total(received'[l]) - unposted'[l])
    <3>1. poLines' = poLines
      BY <1>2
    <3> QED
      BY <3>1, Zenon DEF PaidFor
  <2>1. /\ poLines[l].price = price
        /\ inventory[l] = price * (Total(received[l]) - unposted[l])
    BY <1>1, <1>11 DEF GoodsInv, PaidFor
  <2>2. Total(received'[l]) = Total(received[l]) + n
    BY <1>4, <1>8
  <2>3. PICK posted \in Int : posted = Total(received[l]) - unposted[l]
    BY <1>1, <1>4 DEF GoodsInv
  <2>4. unposted[l] \in Int
    BY <1>1 DEF GoodsInv
  <2>5. CASE AccountsThere
    <3>1. Total(received'[l]) - unposted'[l] = posted + n
      BY <1>3, <1>4, <1>b, <2>2, <2>3, <2>4, <2>5
    <3>2. inventory'[l] = price * posted + price * n
      BY <1>10, <2>1, <2>3, <2>5
    <3>3. price * (posted + n) = price * posted + price * n
      BY <1>3
    <3> QED
      BY <2>1, <3>1, <3>2, <3>3
  <2>6. CASE ~AccountsThere
    <3>1. Total(received'[l]) - unposted'[l] = posted
      BY <1>3, <1>4, <1>b, <2>2, <2>3, <2>4, <2>6
    <3>2. inventory'[l] = price * posted
      <4>1. price * posted \in Int
        OBVIOUS
      <4> QED
        BY <1>10, <2>1, <2>3, <2>6, <4>1
    <3> QED
      BY <2>1, <3>1, <3>2
  <2> QED
    BY <2>5, <2>6
<1>14. \A m \in PoLines : m # l => PaidFor(m)'
  BY <1>2, <1>8, <1>10, <1>b, <1>11 DEF GoodsInv, PaidFor
<1>15. \A d \in Conns : seen'[d] # None => seen'[d] = seen[d]
  BY <1>3 DEF ReceiptInv
<1> QED
  <2>1. /\ \A m \in PoLines : poLines'[m] # None => poLines'[m].price \in Nat
        /\ \A d \in Conns : seen'[d] # None /\ seen'[d].job = "line" => seen'[d].row.price \in Nat
    <3>1. poLines' = poLines
      BY <1>2
    <3> QED
      BY <3>1, <1>15 DEF GoodsInv
  <2>2. \A m \in PoLines :
          /\ moved'[m]["po_receipt"] = received'[m]
          /\ Total(moved'[m]["transfer"]) = 0
          /\ receipts'[m] = 0 =>
              Total(received'[m]) = 0 /\ inventory'[m] = 0 /\ unposted'[m] = 0
    <3>1. ASSUME NEW m \in PoLines, m = l
          PROVE  /\ moved'[m]["po_receipt"] = received'[m]
                 /\ Total(moved'[m]["transfer"]) = 0
                 /\ receipts'[m] = 0 =>
                     Total(received'[m]) = 0 /\ inventory'[m] = 0 /\ unposted'[m] = 0
      BY <3>1, <1>8, <1>9, <1>10, <1>b, <1>12 DEF GoodsInv
    <3>2. ASSUME NEW m \in PoLines, m # l
          PROVE  /\ moved'[m]["po_receipt"] = received'[m]
                 /\ Total(moved'[m]["transfer"]) = 0
                 /\ receipts'[m] = 0 =>
                     Total(received'[m]) = 0 /\ inventory'[m] = 0 /\ unposted'[m] = 0
      BY <3>2, <1>8, <1>9, <1>10, <1>b, <1>12 DEF GoodsInv
    <3> QED
      BY <3>1, <3>2
  <2>3. \A m \in PoLines : PaidFor(m)'
    BY <1>13, <1>14
  <2> QED
    BY <1>2, <1>8, <1>9, <1>10, <1>b, <1>11, <2>1, <2>2, <2>3 DEF GoodsInv

\* Goods moved by hand: a transfer takes from one place what it brings to another.
LEMMA HandMeetsGoods ==
    ASSUME ReceiptInv, GoodsInv, NEW l \in PoLines, NEW n \in Deliveries,
           \/ \E p \in Places : StockMovementRecord(l, p, n)
           \/ \E from, to \in Places : StockTransfer(l, from, to, n)
    PROVE  GoodsInv'
<1>1. /\ UNCHANGED <<seen, poLines, received, receipts, inventory, repriced, unposted, coa>>
      /\ n \in Int
  BY PurchasingAssumption DEF StockMovementRecord, StockTransfer, connVars
<1>2. ASSUME NEW origin \in Origins \ {"po_receipt"}, NEW row \in [Places -> Int],
             origin = "transfer" => Total(row) = 0,
             moved' = [moved EXCEPT ![l][origin] = row]
      PROVE  GoodsInv'
  <2>1. /\ moved' \in [PoLines -> [Origins -> [Places -> Int]]]
        /\ moved'[l]["po_receipt"] = moved[l]["po_receipt"]
        /\ Total(moved'[l]["transfer"]) = 0
        /\ \A m \in PoLines : m # l => moved'[m] = moved[m]
    BY <1>2 DEF GoodsInv, Origins
  <2>2. \A m \in PoLines : PaidFor(m)'
    BY <1>1 DEF GoodsInv, PaidFor
  <2>3. \A m \in PoLines :
          /\ moved'[m]["po_receipt"] = received'[m]
          /\ Total(moved'[m]["transfer"]) = 0
          /\ receipts'[m] = 0 =>
              Total(received'[m]) = 0 /\ inventory'[m] = 0 /\ unposted'[m] = 0
    <3> TAKE m \in PoLines
    <3>1. CASE m = l
      BY <1>1, <2>1, <3>1 DEF GoodsInv
    <3>2. CASE m # l
      BY <1>1, <2>1, <3>2 DEF GoodsInv
    <3> QED
      BY <3>1, <3>2
  <2> QED
    BY <1>1, <2>1, <2>2, <2>3 DEF GoodsInv
<1>3. ASSUME NEW p \in Places, StockMovementRecord(l, p, n)
      PROVE  GoodsInv'
  <2> DEFINE row == [moved[l]["hand"] EXCEPT ![p] = @ + n]
  <2>1. moved' = [moved EXCEPT ![l]["hand"] = row]
    BY <1>3 DEF StockMovementRecord, Moved
  <2>2. row \in [Places -> Int]
    BY <1>1 DEF GoodsInv, Origins
  <2> HIDE DEF row
  <2>3. "hand" \in Origins \ {"po_receipt"} /\ ("hand" = "transfer" => Total(row) = 0)
    BY DEF Origins
  <2> QED
    BY <1>2, <2>1, <2>2, <2>3
<1>4. ASSUME NEW from \in Places, NEW to \in Places, StockTransfer(l, from, to, n)
      PROVE  GoodsInv'
  <2> DEFINE out == [moved[l]["transfer"] EXCEPT ![from] = @ + (-n)]
             row == [out EXCEPT ![to] = @ + n]
  <2>1. moved[l]["transfer"] \in [Places -> Int] /\ Total(moved[l]["transfer"]) = 0 /\ -n \in Int
    BY <1>1 DEF GoodsInv, Origins
  <2>2. out \in [Places -> Int] /\ Total(out) = Total(moved[l]["transfer"]) + (-n)
    BY <2>1, PlaceChanges
  <2>3. row \in [Places -> Int] /\ Total(row) = Total(out) + n
    <3>1. out \in [Places -> Int]
      BY <2>2
    <3> HIDE DEF out
    <3> QED
      BY <1>1, <3>1, PlaceChanges
  <2>4. Total(row) = 0
    BY <1>1, <2>1, <2>2, <2>3
  <2>5. moved' = [moved EXCEPT ![l]["transfer"] = row]
    <3>1. [moved[l]["transfer"] EXCEPT ![from] = @ - n] = out
      BY <1>1, <2>1
    <3>2. Carried(moved[l]["transfer"], from, to, n) = row
      BY <3>1 DEF Carried
    <3>3. moved' = [moved EXCEPT ![l]["transfer"] = Carried(moved[l]["transfer"], from, to, n)]
      BY <1>4 DEF StockTransfer
    <3> HIDE DEF row
    <3> QED
      BY <3>2, <3>3
  <2> HIDE DEF row
  <2> QED
    BY <1>2, <2>3, <2>4, <2>5 DEF Origins
<1> QED
  BY <1>3, <1>4

\* A line written, dropped or priced anew: its goods stay, and so does their price if
\* there are any and it counts as the same.
LEMMA LineMeetsGoods ==
    ASSUME ReceiptInv, GoodsInv, NEW c \in Conns,
           PoItemAdd(c) \/ PoItemUpdate(c) \/ PoItemDelete(c) \/ PoDelete(c)
    PROVE  GoodsInv'
<1>1. /\ seen' = [seen EXCEPT ![c] = None]
      /\ UNCHANGED <<received, receipts, moved, inventory, unposted, coa>>
  BY DEF PoItemAdd, PoItemUpdate, PoItemDelete, PoDelete, Done, Keep
<1>2. ASSUME repriced' \in [PoLines -> BOOLEAN],
             \A l \in PoLines : poLines'[l] # None => poLines'[l].price \in Nat,
             \A l \in PoLines : receipts[l] = 0 \/ poLines'[l] = None \/ repriced'[l]
                \/ /\ poLines[l] # None /\ ~repriced[l]
                   /\ poLines'[l].price = poLines[l].price
      PROVE  GoodsInv'
  <2>1. ASSUME NEW l \in PoLines
        PROVE  PaidFor(l)'
    <3>1. CASE receipts[l] = 0
      <4>1. Total(received'[l]) = 0 /\ inventory'[l] = 0 /\ unposted'[l] = 0
        BY <1>1, <3>1 DEF GoodsInv
      <4>2. poLines'[l] # None => poLines'[l].price * (0 - 0) = 0
        BY <1>2
      <4> QED
        BY <4>1, <4>2 DEF PaidFor
    <3>2. CASE poLines'[l] = None \/ repriced'[l]
      BY <3>2, Zenon DEF PaidFor
    <3>3. CASE poLines[l] # None /\ ~repriced[l] /\ poLines'[l].price = poLines[l].price
      <4>1. inventory[l] = poLines[l].price * (Total(received[l]) - unposted[l])
        BY <3>3 DEF GoodsInv, PaidFor
      <4> QED
        BY <1>1, <3>3, <4>1 DEF PaidFor
    <3> QED
      BY <1>2, <3>1, <3>2, <3>3
  <2>2. \A d \in Conns : seen'[d] # None => seen'[d] = seen[d]
    BY <1>1 DEF ReceiptInv
  <2> QED
    BY <1>1, <1>2, <2>1, <2>2 DEF GoodsInv
<1>3. CASE PoItemDelete(c) \/ PoDelete(c)
  <2>1. repriced' = repriced
    BY <1>3 DEF PoItemDelete, PoDelete
  <2>2. \A l \in PoLines : poLines'[l] = None \/ poLines'[l] = poLines[l]
    BY <1>3 DEF PoItemDelete, PoDelete, PutLines, ReceiptInv
  <2> QED
    BY <1>2, <2>1, <2>2 DEF GoodsInv
<1>4. \A n \in Quantities, p \in Prices : LineRow(n, p).price = p /\ p \in Nat
  BY PurchasingAssumption DEF LineRow
<1>5. CASE PoItemAdd(c)
  <2>1. PICK l \in PoLines, n \in Quantities, p \in Prices :
          /\ poLines[l] = None /\ receipts[l] = 0
          /\ poLines' = [poLines EXCEPT ![l] = LineRow(n, p)]
    BY <1>5 DEF PoItemAdd, PutLines, LinesOf
  <2>2. /\ poLines'[l].price \in Nat
        /\ \A m \in PoLines : m # l => poLines'[m] = poLines[m]
    BY <1>4, <2>1 DEF ReceiptInv
  <2>3. repriced' = repriced
    BY <1>5 DEF PoItemAdd
  <2> QED
    BY <1>2, <2>1, <2>2, <2>3 DEF GoodsInv
<1>6. CASE PoItemUpdate(c)
  <2>1. PICK l \in PoLines : l = seen[c].id
    BY <1>6 DEF PoItemUpdate, Doing, Idle, ReceiptInv, PurchaseHeld
  <2>2. PICK n \in Quantities, p \in Prices :
          /\ poLines' = IF poLines[l] = None THEN poLines
                        ELSE [poLines EXCEPT ![l] = LineRow(n, p)]
          /\ repriced' = [repriced EXCEPT ![l] = @ \/ (receipts[l] > 0 /\ poLines[l].price # p)]
    BY <1>6, <2>1 DEF PoItemUpdate, PutLines
  <2>3. /\ \A m \in PoLines : m # l => poLines'[m] = poLines[m]
        /\ poLines[l] = None => poLines'[l] = None
        /\ poLines[l] # None => poLines'[l].price = p /\ p \in Nat
    BY <1>4, <2>1, <2>2 DEF ReceiptInv
  <2>4. /\ repriced' \in [PoLines -> BOOLEAN]
        /\ \A m \in PoLines : m # l => repriced'[m] = repriced[m]
        /\ repriced'[l] = (repriced[l] \/ (receipts[l] > 0 /\ poLines[l].price # p))
    BY <2>1, <2>2 DEF GoodsInv
  <2>5. receipts[l] > 0 \/ receipts[l] = 0
    BY DEF ReceiptInv
  <2> QED
    BY <1>2, <2>1, <2>3, <2>4, <2>5 DEF GoodsInv
<1> QED
  BY <1>3, <1>5, <1>6

\* The order's own row, reading, and the chart of accounts touch no goods.
LEMMA OtherMeetsGoods ==
    ASSUME ReceiptInv, GoodsInv,
           \/ UNCHANGED <<connVars, purchasingVars>>
           \/ \E o \in Purchases : PoCreate(o)
           \/ \E c \in Conns : \/ PoUpdate(c) \/ PoSetStatus(c)
                               \/ \E o \in Purchases : PoGet(c, o)
                               \/ \E l \in PoLines : PoItemGet(c, l)
                               \/ Abandon(c) /\ UNCHANGED purchasingVars
           \/ CoaSeed \/ \E a \in StockAccounts : CoaCreate(a)
    PROVE  GoodsInv'
<1>1. /\ UNCHANGED <<poLines, received, receipts, moved, inventory, repriced, unposted>>
      /\ coa' \subseteq StockAccounts
  BY PurchasingAssumption
  DEF GoodsInv, purchasingVars, PoCreate, PoUpdate, PoSetStatus, PoPut, PoGet, PoItemGet,
      CoaSeed, CoaCreate
<1>2. ASSUME \A c \in Conns : seen'[c] # None /\ seen'[c].job = "line" =>
                 seen'[c].row.price \in Nat
      PROVE  GoodsInv'
  BY <1>1, <1>2 DEF GoodsInv, PaidFor
<1>3. ASSUME NEW c \in Conns, NEW what, seen' = [seen EXCEPT ![c] = what],
             what # None /\ what.job = "line" => what.row.price \in Nat
      PROVE  GoodsInv'
  BY <1>2, <1>3 DEF GoodsInv, ReceiptInv
<1>4. CASE \/ UNCHANGED <<connVars, purchasingVars>>
           \/ \E o \in Purchases : PoCreate(o)
           \/ CoaSeed \/ \E a \in StockAccounts : CoaCreate(a)
  <2>1. seen' = seen
    BY <1>4 DEF connVars, PoCreate, CoaSeed, CoaCreate
  <2> QED
    BY <1>2, <2>1 DEF GoodsInv
<1>5. ASSUME NEW c \in Conns,
             PoUpdate(c) \/ PoSetStatus(c) \/ (Abandon(c) /\ UNCHANGED purchasingVars)
      PROVE  GoodsInv'
  <2>1. seen' = [seen EXCEPT ![c] = None]
    BY <1>5 DEF PoUpdate, PoSetStatus, Abandon, Done, Keep
  <2> QED
    BY <1>3, <2>1
<1>6. ASSUME NEW c \in Conns, NEW o \in Purchases, PoGet(c, o)
      PROVE  GoodsInv'
  <2> DEFINE what == [job |-> "order", id |-> o, row |-> purchases[o]]
  <2>1. seen' = [seen EXCEPT ![c] = what] /\ what.job # "line"
    BY <1>6 DEF PoGet, Read
  <2> HIDE DEF what
  <2> QED
    BY <1>3, <2>1
<1>7. ASSUME NEW c \in Conns, NEW l \in PoLines, PoItemGet(c, l)
      PROVE  GoodsInv'
  <2> DEFINE what == [job |-> "line", id |-> l, row |-> poLines[l],
                      order |-> purchases[OrderOf[l]].status, received |-> ReceivedQty(l)]
  <2>1. seen' = [seen EXCEPT ![c] = what] /\ poLines[l] # None
    BY <1>7 DEF PoItemGet, Read
  <2>2. what.row = poLines[l]
    OBVIOUS
  <2> HIDE DEF what
  <2> QED
    BY <1>3, <2>1, <2>2 DEF GoodsInv
<1> QED
  BY <1>4, <1>5, <1>6, <1>7

LEMMA GoodsInitially == ConnInit /\ PurchasingInit => GoodsInv
<1> SUFFICES ASSUME ConnInit, PurchasingInit
             PROVE  GoodsInv
  OBVIOUS
<1>1. Total([p \in Places |-> 0]) = 0
  <2> DEFINE nothing == [p \in Places |-> 0]
  <2>1. DOMAIN nothing = Places /\ \A p \in Places : nothing[p] = 0
    OBVIOUS
  <2> HIDE DEF nothing
  <2> QED
    BY <2>1, PurchasingAssumption, TotalZero
<1> QED
  BY <1>1 DEF ConnInit, PurchasingInit, GoodsInv, PaidFor, Origins

LEMMA GoodsStep ==
    ReceiptInv /\ GoodsInv /\ [PurchasingNext]_<<connVars, purchasingVars>> => GoodsInv'
<1> SUFFICES ASSUME ReceiptInv, GoodsInv, [PurchasingNext]_<<connVars, purchasingVars>>
             PROVE  GoodsInv'
  OBVIOUS
<1> QED
  BY ReceiptMeetsGoods, HandMeetsGoods, LineMeetsGoods, OtherMeetsGoods DEF PurchasingNext

LEMMA GoodsHold == PurchasingSpec => [](ReceiptInv /\ GoodsInv)
BY GoodsInitially, GoodsStep, ReceiptsHold, ReceiptStep, PTL DEF PurchasingSpec

\* InventoryMeetsGoods: what is on hand and was not moved by hand is what the receipts
\* say, and the inventory account holds the price of exactly the goods that came while
\* the chart had both accounts, which each receipt looks up anew (po_receive,
\* post_po_receipt_journal, stock_transfer, coa_seed, coa_create).
THEOREM GoodsAreWorthTheirPrice == PurchasingSpec => []InventoryMeetsGoods
<1>1. ASSUME ReceiptInv, GoodsInv, NEW l \in PoLines
      PROVE  OnHand(l) - Total(moved[l]["hand"]) = Total(received[l]) /\ Total(received[l]) \in Int
  <2> DEFINE f == [k \in Origins |-> Total(moved[l][k])]
             in == [k \in Origins |-> IF k = "po_receipt" THEN f[k] ELSE 0]
             hand == [k \in Origins |-> IF k = "hand" THEN f[k] ELSE 0]
  <2>1. \A k \in Origins : Total(moved[l][k]) \in Int
    <3> SUFFICES ASSUME NEW k \in Origins
                 PROVE  Total(moved[l][k]) \in Int
      OBVIOUS
    <3>1. DOMAIN moved[l][k] = Places /\ \A p \in Places : moved[l][k][p] \in Int
      BY <1>1 DEF GoodsInv
    <3> QED
      BY <3>1, PurchasingAssumption, TotalInt
  <2>2. /\ DOMAIN f = Origins /\ DOMAIN in = Origins /\ DOMAIN hand = Origins
        /\ \A k \in Origins : in[k] \in Int /\ hand[k] \in Int
        /\ \A k \in Origins : k # "po_receipt" => in[k] = 0
        /\ \A k \in Origins : k # "hand" => hand[k] = 0
        /\ in["po_receipt"] = Total(received[l]) /\ hand["hand"] = Total(moved[l]["hand"])
    BY <1>1, <2>1 DEF GoodsInv, Origins
  <2>3. \A k \in Origins : f[k] = in[k] + hand[k]
    <3>1. f["transfer"] = 0 /\ f["hand"] \in Int /\ f["po_receipt"] \in Int
      BY <1>1, <2>1 DEF GoodsInv, Origins
    <3> QED
      BY <3>1 DEF Origins
  <2>4. IsFiniteSet(Origins) /\ "hand" \in Origins /\ "po_receipt" \in Origins
    <3>1. IsFiniteSet({"po_receipt"}) /\ IsFiniteSet({"transfer"}) /\ IsFiniteSet({"hand"})
      BY FS_Singleton, Zenon
    <3>2. Origins = {"po_receipt"} \cup ({"transfer"} \cup {"hand"})
      BY DEF Origins
    <3> QED
      BY <3>1, <3>2, FS_Union
  <2>5. OnHand(l) = Total(f)
    BY DEF OnHand
  <2> HIDE DEF f, in, hand
  <2>6. Total(in) = in["po_receipt"] /\ Total(hand) = hand["hand"]
    BY <2>2, <2>4, TotalSpike
  <2>7. Total(f) = Total(in) + Total(hand)
    BY <2>2, <2>3, <2>4, TotalPlus
  <2> QED
    BY <2>2, <2>4, <2>5, <2>6, <2>7
<1>2. ReceiptInv /\ GoodsInv => InventoryMeetsGoods
  <2> SUFFICES ASSUME ReceiptInv, GoodsInv, NEW l \in PoLines
               PROVE  LET byReceipt == OnHand(l) - Total(moved[l]["hand"]) IN
                      /\ byReceipt = ReceivedQty(l)
                      /\ poLines[l] # None /\ ~repriced[l] =>
                          inventory[l] = poLines[l].price * (byReceipt - unposted[l])
    BY DEF InventoryMeetsGoods
  <2>1. OnHand(l) - Total(moved[l]["hand"]) = Total(received[l])
    BY <1>1
  <2>2. PaidFor(l)
    BY DEF GoodsInv
  <2> QED
    BY <2>1, <2>2 DEF ReceivedQty, PaidFor
<1> QED
  BY <1>2, GoodsHold, PTL

LineRows == [qty : Quantities, price : Prices, total : Nat]

\* The inductive invariant of the columns, with the orders that calls hold to write back.
OrdersTyped ==
    /\ purchases \in [Purchases -> PurchaseRow]
    /\ poLines \in [PoLines -> LineRows \cup {None}]
    /\ \A l \in PoLines : receipts[l] <= MaxReceipts[l]
    /\ byHand \in 0..MaxByHand
    /\ \A c \in Conns : seen[c] # None /\ seen[c].job = "order" => seen[c].row \in PurchaseRow

LEMMA PurchasingTyped ==
    /\ OrderOf \in [PoLines -> Purchases] /\ MaxReceipts \in [PoLines -> Nat]
    /\ MaxByHand \in Nat /\ 0 \in 0..MaxByHand
    /\ Quantities \subseteq Nat /\ Prices \subseteq Nat /\ Taxes \subseteq Nat
    /\ IsFiniteSet(PoLines)
<1>1. /\ OrderOf \in [PoLines -> Purchases] /\ MaxReceipts \in [PoLines -> Nat]
      /\ MaxByHand \in Nat
      /\ Quantities \subseteq Nat /\ Prices \subseteq Nat /\ Taxes \subseteq Nat
      /\ IsFiniteSet(PoLines)
  BY PurchasingAssumption
<1> QED
  BY <1>1

LEMMA LineRowTyped ==
    ASSUME NEW n \in Quantities, NEW p \in Prices
    PROVE  LineRow(n, p) \in LineRows
<1>1. n \in Nat /\ p \in Nat
  BY PurchasingTyped
<1>2. n * p \in Nat
  BY <1>1
<1> QED
  BY <1>2 DEF LineRow, LineRows

LEMMA PurchaseRowWith ==
    ASSUME NEW r \in PurchaseRow
    PROVE  /\ \A v \in {"ordered", "cancelled", "deleted"} : [r EXCEPT !.status = v] \in PurchaseRow
           /\ \A tax \in Nat : [r EXCEPT !.tax = tax, !.total = r.subtotal + tax] \in PurchaseRow
           /\ \A n, m \in Nat : [r EXCEPT !.subtotal = n, !.total = m] \in PurchaseRow
           /\ r.subtotal \in Nat /\ r.tax \in Nat
<1>1. r.subtotal \in Nat /\ r.tax \in Nat
  BY DEF PurchaseRow
<1>2. ASSUME NEW tax \in Nat
      PROVE  [r EXCEPT !.tax = tax, !.total = r.subtotal + tax] \in PurchaseRow
  <2>1. r.subtotal + tax \in Nat
    BY <1>1
  <2> QED
    BY <2>1 DEF PurchaseRow
<1>3. \A v \in {"ordered", "cancelled", "deleted"} : [r EXCEPT !.status = v] \in PurchaseRow
  BY DEF PurchaseRow
<1>4. \A n, m \in Nat : [r EXCEPT !.subtotal = n, !.total = m] \in PurchaseRow
  BY DEF PurchaseRow
<1> QED
  BY <1>1, <1>2, <1>3, <1>4

\* The totals of an order are sums of natural numbers.
LEMMA SubtotalTyped ==
    ASSUME NEW o \in Purchases, NEW rows \in [PoLines -> LineRows \cup {None}]
    PROVE  Subtotal(o, rows) \in Nat
<1> DEFINE S == {l \in LinesOf(o) : rows[l] # None}
           f == [l \in S |-> rows[l].total]
           zero == [l \in S |-> 0]
<1>1. IsFiniteSet(S)
  BY PurchasingTyped, FS_Subset DEF LinesOf
<1>2. \A l \in S : f[l] \in Nat
  BY DEF LinesOf, LineRows
<1>3. DOMAIN f = S /\ DOMAIN zero = S /\ \A l \in S : zero[l] = 0
  OBVIOUS
<1>4. Subtotal(o, rows) = Total(f)
  BY DEF Subtotal
<1> HIDE DEF S, f, zero
<1>5. Total(f) \in Int
  BY <1>1, <1>2, <1>3, TotalInt
<1>6. Total(zero) = 0
  BY <1>1, <1>3, TotalZero
<1>7. Total(zero) <= Total(f)
  <2>1. \A l \in S : zero[l] \in Int /\ f[l] \in Int /\ zero[l] <= f[l]
    BY <1>2, <1>3
  <2> QED
    BY <1>1, <1>3, <2>1, TotalMono
<1> QED
  BY <1>4, <1>5, <1>6, <1>7

LEMMA RecalculatedTyped ==
    ASSUME OrdersTyped, NEW o \in Purchases, NEW rows \in [PoLines -> LineRows \cup {None}],
           PutLines(o, rows)
    PROVE  purchases' \in [Purchases -> PurchaseRow] /\ poLines' \in [PoLines -> LineRows \cup {None}]
<1> DEFINE sum == Subtotal(o, rows)
           row == purchases[o]
           new == [row EXCEPT !.subtotal = sum, !.total = sum + row.tax]
<1>1. sum \in Nat /\ row \in PurchaseRow
  BY SubtotalTyped DEF OrdersTyped
<1>2. sum + row.tax \in Nat
  <2>1. row.tax \in Nat
    BY <1>1, PurchaseRowWith
  <2> HIDE DEF sum
  <2> QED
    BY <1>1, <2>1
<1>3. purchases' = [purchases EXCEPT ![o] = new]
  BY <1>1 DEF PutLines, Recalculated, OrdersTyped
<1>4. new \in PurchaseRow
  <2> HIDE DEF sum, row
  <2> QED
    BY <1>1, <1>2, PurchaseRowWith
<1> HIDE DEF new
<1> QED
  BY <1>3, <1>4 DEF PutLines, OrdersTyped

\* A call that ends holds no order.
LEMMA OrdersDone ==
    ASSUME OrdersTyped, ReceiptInv, NEW c \in Conns, Done(c),
           purchases' \in [Purchases -> PurchaseRow],
           poLines' \in [PoLines -> LineRows \cup {None}],
           \A l \in PoLines : receipts'[l] <= MaxReceipts[l], byHand' = byHand
    PROVE  OrdersTyped'
BY DEF Done, Keep, OrdersTyped, ReceiptInv

LEMMA OrderTyped ==
    ASSUME OrdersTyped, ReceiptInv, NEW c \in Conns, PoUpdate(c) \/ PoSetStatus(c) \/ PoDelete(c)
    PROVE  OrdersTyped'
<1> DEFINE o == seen[c].id
           row == seen[c].row
<1>1. o \in Purchases /\ row \in PurchaseRow /\ Done(c)
  BY DEF PoUpdate, PoSetStatus, PoDelete, Doing, Idle, ReceiptInv, PurchaseHeld, OrdersTyped
<1>2. UNCHANGED <<receipts, byHand>>
  BY DEF PoUpdate, PoSetStatus, PoDelete, PoPut
<1>3. CASE PoUpdate(c) \/ PoSetStatus(c)
  <2>1. PICK new \in PurchaseRow : PoPut(o, new)
    BY <1>1, <1>3, PurchaseRowWith, PurchasingTyped DEF PoUpdate, PoSetStatus
  <2>2. purchases' \in [Purchases -> PurchaseRow] /\ poLines' = poLines
    BY <1>1, <2>1 DEF PoPut, OrdersTyped
  <2> QED
    BY <1>1, <1>2, <2>2, OrdersDone DEF OrdersTyped
<1>4. CASE PoDelete(c)
  <2>1. [purchases[o] EXCEPT !.status = "deleted"] \in PurchaseRow
    BY <1>1, PurchaseRowWith DEF OrdersTyped
  <2>2. purchases' \in [Purchases -> PurchaseRow]
    BY <1>4, <2>1 DEF PoDelete, OrdersTyped
  <2>3. poLines' \in [PoLines -> LineRows \cup {None}]
    BY <1>4 DEF PoDelete, OrdersTyped
  <2> QED
    BY <1>1, <1>2, <2>2, <2>3, OrdersDone DEF OrdersTyped
<1> QED
  BY <1>3, <1>4

LEMMA LineTyped ==
    ASSUME OrdersTyped, ReceiptInv, NEW c \in Conns,
           PoItemAdd(c) \/ PoItemUpdate(c) \/ PoItemDelete(c)
    PROVE  OrdersTyped'
<1>1. Done(c) /\ UNCHANGED <<receipts, byHand>>
  BY DEF PoItemAdd, PoItemUpdate, PoItemDelete
<1>2. PICK o \in Purchases, rows \in [PoLines -> LineRows \cup {None}] : PutLines(o, rows)
  <2>1. CASE PoItemAdd(c)
    <3>1. PICK l \in LinesOf(seen[c].id), n \in Quantities, p \in Prices :
            PutLines(seen[c].id, [poLines EXCEPT ![l] = LineRow(n, p)])
      BY <2>1 DEF PoItemAdd
    <3>2. seen[c].id \in Purchases
      BY <2>1 DEF PoItemAdd, Doing, Idle, ReceiptInv, PurchaseHeld
    <3>3. [poLines EXCEPT ![l] = LineRow(n, p)] \in [PoLines -> LineRows \cup {None}]
      BY LineRowTyped DEF OrdersTyped
    <3> QED
      BY <3>1, <3>2, <3>3
  <2>2. CASE PoItemUpdate(c)
    <3> DEFINE l == seen[c].id
    <3>1. l \in PoLines /\ OrderOf[l] \in Purchases
      BY <2>2, PurchasingTyped DEF PoItemUpdate, Doing, Idle, ReceiptInv, PurchaseHeld
    <3>2. PICK n \in Quantities, p \in Prices :
            PutLines(OrderOf[l], IF poLines[l] = None THEN poLines
                                 ELSE [poLines EXCEPT ![l] = LineRow(n, p)])
      BY <2>2 DEF PoItemUpdate
    <3>3. poLines \in [PoLines -> LineRows \cup {None}]
      BY DEF OrdersTyped
    <3>4. [poLines EXCEPT ![l] = LineRow(n, p)] \in [PoLines -> LineRows \cup {None}]
      BY <3>3, LineRowTyped
    <3> QED
      BY <3>1, <3>2, <3>3, <3>4
  <2>3. CASE PoItemDelete(c)
    <3> DEFINE l == seen[c].id
    <3>1. l \in PoLines /\ OrderOf[l] \in Purchases
      BY <2>3, PurchasingTyped DEF PoItemDelete, Doing, Idle, ReceiptInv, PurchaseHeld
    <3>2. PutLines(OrderOf[l], [poLines EXCEPT ![l] = None])
      BY <2>3 DEF PoItemDelete
    <3>3. [poLines EXCEPT ![l] = None] \in [PoLines -> LineRows \cup {None}]
      BY DEF OrdersTyped
    <3> QED
      BY <3>1, <3>2, <3>3
  <2> QED
    BY <2>1, <2>2, <2>3
<1>3. /\ purchases' \in [Purchases -> PurchaseRow]
      /\ poLines' \in [PoLines -> LineRows \cup {None}]
  BY <1>2, RecalculatedTyped
<1> QED
  BY <1>1, <1>3, OrdersDone DEF OrdersTyped

LEMMA ReceiveTyped ==
    ASSUME OrdersTyped, ReceiptInv, NEW c \in Conns, PoReceive(c)
    PROVE  OrdersTyped'
<1> DEFINE l == seen[c].id
<1>1. /\ l \in PoLines /\ receipts[l] < MaxReceipts[l]
      /\ receipts' = [receipts EXCEPT ![l] = @ + 1]
      /\ Done(c) /\ UNCHANGED <<purchases, poLines, byHand>>
  BY DEF PoReceive, Doing, Idle, ReceiptInv, PurchaseHeld
<1>2. receipts \in [PoLines -> Nat] /\ MaxReceipts[l] \in Nat
  BY <1>1, PurchasingTyped DEF ReceiptInv
<1>3. \A k \in PoLines : receipts'[k] <= MaxReceipts[k]
  BY <1>1, <1>2 DEF OrdersTyped
<1> QED
  BY <1>1, <1>3, OrdersDone DEF OrdersTyped

LEMMA OrdersInitially == ConnInit /\ PurchasingInit => OrdersTyped
<1> SUFFICES ASSUME ConnInit, PurchasingInit PROVE OrdersTyped
  OBVIOUS
<1>1. [EmptyOrder(0) EXCEPT !.status = "none"] \in PurchaseRow
  BY DEF EmptyOrder, PurchaseRow
<1>2. \A l \in PoLines : receipts[l] <= MaxReceipts[l]
  BY PurchasingTyped DEF PurchasingInit
<1> QED
  BY <1>1, <1>2, PurchasingTyped DEF ConnInit, PurchasingInit, OrdersTyped

LEMMA OrdersStep ==
    ReceiptInv /\ OrdersTyped /\ [PurchasingNext]_<<connVars, purchasingVars>> => OrdersTyped'
<1> SUFFICES ASSUME ReceiptInv, OrdersTyped, [PurchasingNext]_<<connVars, purchasingVars>>
             PROVE  OrdersTyped'
  OBVIOUS
<1>1. CASE UNCHANGED <<connVars, purchasingVars>>
  BY <1>1 DEF connVars, purchasingVars, OrdersTyped
<1>2. ASSUME NEW o \in Purchases, PoCreate(o) PROVE OrdersTyped'
  <2>1. PICK tax \in Taxes : purchases' = [purchases EXCEPT ![o] = EmptyOrder(tax)]
    BY <1>2 DEF PoCreate
  <2>2. EmptyOrder(tax) \in PurchaseRow
    BY PurchasingTyped DEF EmptyOrder, PurchaseRow
  <2> QED
    BY <1>2, <2>1, <2>2 DEF PoCreate, connVars, OrdersTyped
<1>3. ASSUME NEW c \in Conns, NEW what, seen' = [seen EXCEPT ![c] = what],
             UNCHANGED purchasingVars, what.job = "order" => what.row \in PurchaseRow
      PROVE  OrdersTyped'
  <2>1. seen'[c] = what /\ \A d \in Conns : d # c => seen'[d] = seen[d]
    BY <1>3 DEF ReceiptInv
  <2> QED
    BY <1>3, <2>1 DEF purchasingVars, OrdersTyped
<1>4. ASSUME NEW c \in Conns, NEW o \in Purchases, PoGet(c, o) PROVE OrdersTyped'
  <2> DEFINE what == [job |-> "order", id |-> o, row |-> purchases[o]]
  <2>1. seen' = [seen EXCEPT ![c] = what] /\ UNCHANGED purchasingVars /\ what.row = purchases[o]
    BY <1>4 DEF PoGet, Read
  <2>2. purchases[o] \in PurchaseRow
    BY DEF OrdersTyped
  <2> HIDE DEF what
  <2> QED
    BY <1>3, <2>1, <2>2
<1>5. ASSUME NEW c \in Conns, NEW l \in PoLines, PoItemGet(c, l) PROVE OrdersTyped'
  <2> DEFINE what == [job |-> "line", id |-> l, row |-> poLines[l],
                      order |-> purchases[OrderOf[l]].status, received |-> ReceivedQty(l)]
  <2>1. seen' = [seen EXCEPT ![c] = what] /\ UNCHANGED purchasingVars /\ what.job = "line"
    BY <1>5 DEF PoItemGet, Read
  <2> HIDE DEF what
  <2> QED
    BY <1>3, <2>1
<1>6. ASSUME NEW c \in Conns, Abandon(c), UNCHANGED purchasingVars PROVE OrdersTyped'
  BY <1>6, OrdersDone DEF Abandon, purchasingVars, OrdersTyped
<1>7. ASSUME NEW l \in PoLines, NEW n \in Deliveries,
             \/ \E p \in Places : StockMovementRecord(l, p, n)
             \/ \E from, to \in Places : StockTransfer(l, from, to, n)
      PROVE  OrdersTyped'
  <2>1. /\ byHand < MaxByHand /\ byHand' = byHand + 1
        /\ UNCHANGED <<connVars, purchases, poLines, receipts>>
    BY <1>7 DEF StockMovementRecord, StockTransfer
  <2>2. byHand' \in 0..MaxByHand
    BY <2>1, PurchasingTyped DEF OrdersTyped
  <2> QED
    BY <2>1, <2>2 DEF connVars, OrdersTyped
<1>8. ASSUME CoaSeed \/ \E a \in StockAccounts : CoaCreate(a)
      PROVE  OrdersTyped'
  BY <1>8 DEF CoaSeed, CoaCreate, connVars, OrdersTyped
<1> QED
  BY <1>1, <1>2, <1>4, <1>5, <1>6, <1>7, <1>8, OrderTyped, LineTyped, ReceiveTyped
  DEF PurchasingNext

LEMMA PurchasingTypes == ReceiptInv /\ GoodsInv /\ OrdersTyped => PurchasingTypeOK
BY DEF ReceiptInv, GoodsInv, OrdersTyped, PurchasingTypeOK, LineRows

-----------------------------------------------------------------------------
(***************************************************************************)
(* What holds of reconciliation for any statement lines and counterparts,  *)
(* proved: a suggestion inserts each of its pairs once, and a line keeps   *)
(* one active match however many processes suggest and decide.             *)
(***************************************************************************)
MatchRow == [line : Statement, part : Counterparts,
             state : {"open", "confirmed", "rejected"}]

\* What a suggestion inserts is one open row for each pair it chose.
LEMMA InsertedOnce ==
    ASSUME NEW s \in SUBSET Fits, NEW rows \in Inserted(s)
    PROVE  /\ rows \in Seq(MatchRow)
           /\ \A i \in 1..Len(rows) : Pair(rows[i]) \in s /\ rows[i].state = "open"
           /\ \A i, j \in 1..Len(rows) : Pair(rows[i]) = Pair(rows[j]) => i = j
<1> DEFINE n == Cardinality(s)
           f == [i \in 1..n |-> Pair(rows[i])]
<1>1. IsFiniteSet(s) /\ n \in Nat
  BY FS_Subset, FS_CardinalityType, ReconAssumption
<1>2. /\ rows \in [1..n -> [line : {p[1] : p \in s}, part : {p[2] : p \in s}, state : {"open"}]]
      /\ {Pair(rows[i]) : i \in 1..n} = s
  BY DEF Inserted
<1>3. \A p \in s : p[1] \in Statement /\ p[2] \in Counterparts
  <2>1. Fits \subseteq Statement \X Counterparts
    BY ReconAssumption
  <2>2. \A p \in Statement \X Counterparts : p[1] \in Statement /\ p[2] \in Counterparts
    OBVIOUS
  <2> QED
    BY <2>1, <2>2
<1>4. rows \in [1..n -> MatchRow]
  <2> DEFINE L == {p[1] : p \in s}
             P == {p[2] : p \in s}
             R == [line : L, part : P, state : {"open"}]
  <2>1. L \subseteq Statement /\ P \subseteq Counterparts
    BY <1>3
  <2>2. rows \in [1..n -> R]
    BY <1>2
  <2> HIDE DEF n, L, P
  <2>3. R \subseteq MatchRow
    BY <2>1 DEF MatchRow
  <2> HIDE DEF R
  <2>4. DOMAIN rows = 1..n /\ rows = [i \in 1..n |-> rows[i]]
    BY <2>2
  <2>5. \A i \in 1..n : rows[i] \in R
    BY <2>2
  <2>6. \A i \in 1..n : rows[i] \in MatchRow
    BY <2>3, <2>5
  <2> QED
    BY <2>4, <2>6
<1>5. rows \in Seq(MatchRow) /\ Len(rows) = n
  BY <1>1, <1>4
<1>6. f \in [1..n -> s] /\ \A i \in 1..n : f[i] = Pair(rows[i])
  BY <1>2
<1>7. f \in Surjection(1..n, s)
  BY <1>2, <1>6 DEF Surjection
<1>8. IsFiniteSet(1..n) /\ Cardinality(1..n) = n
  BY <1>1, FS_Interval
<1>9. f \in Injection(1..n, s)
  BY <1>7, <1>8, FS_Surjection
<1>10. \A i, j \in 1..n : f[i] = f[j] => i = j
  BY <1>9 DEF Injection, IsInjective
<1> QED
  BY <1>2, <1>5, <1>6, <1>10

\* What a call holds was true when it was read; with one process it still is.
Unmatched(pairs) ==
    \A p \in pairs, i \in MatchIds :
        /\ Pair(matches[i]) # p
        /\ i \in Active(matches) => matches[i].line # p[1] /\ matches[i].part # p[2]

ReconHeld(c) ==
    /\ c \in team
    /\ seen[c].job = "suggest" =>
        /\ seen[c].pairs \subseteq Fits
        /\ Alone => Unmatched(seen[c].pairs)
    /\ seen[c].job = "match" =>
        /\ seen[c].id \in MatchIds
        /\ Alone => seen[c].state = matches[seen[c].id].state

\* The inductive invariant: types, what the calls under way hold, and the property.
ReconInv ==
    /\ matches \in Seq(MatchRow)
    /\ seen = [c \in Conns |-> seen[c]]
    /\ \A c \in Conns : seen[c] # None => ReconHeld(c)
    /\ MatchedOnce

\* A line's match is not doubled by a suggestion that still finds it free, nor by one
\* of the same process, whose reads nobody could outdate.
LEMMA SuggestStep ==
    ASSUME ReconInv, NEW c \in Conns, ReconSuggest(c)
    PROVE  ReconInv'
<1> DEFINE pairs == seen[c].pairs
<1>1. seen[c] # None /\ seen[c].job = "suggest" /\ ReconHeld(c)
  BY DEF ReconSuggest, Doing, Idle, ReconInv
<1>2. PICK s \in Chosen(pairs) : LinesFree(s) /\ \E rows \in Inserted(s) : matches' = matches \o rows
  BY DEF ReconSuggest
<1>3. PICK rows \in Inserted(s) : matches' = matches \o rows
  BY <1>2
<1>4. /\ s \in SUBSET Fits /\ s \subseteq pairs
      /\ \A p, q \in s : p # q => p[1] # q[1] /\ p[2] # q[2]
  BY <1>1, <1>2 DEF Chosen, ReconHeld
<1>5. /\ rows \in Seq(MatchRow)
      /\ \A i \in 1..Len(rows) : Pair(rows[i]) \in s /\ rows[i].state = "open"
      /\ \A i, j \in 1..Len(rows) : Pair(rows[i]) = Pair(rows[j]) => i = j
  BY <1>4, InsertedOnce
<1> DEFINE old == Len(matches)
           new == Len(rows)
<1>6. /\ matches \in Seq(MatchRow) /\ old \in Nat /\ new \in Nat
      /\ DOMAIN matches = 1..old /\ DOMAIN rows = 1..new
  BY <1>5 DEF ReconInv
<1>7. /\ matches' \in Seq(MatchRow)
      /\ DOMAIN matches' = 1..(old + new)
      /\ \A i \in 1..old : matches'[i] = matches[i]
      /\ \A i \in (old + 1)..(old + new) : matches'[i] = rows[i - old] /\ i - old \in 1..new
  BY <1>3, <1>5, <1>6
<1>8. team' = team /\ seen' = [seen EXCEPT ![c] = None]
  BY DEF ReconSuggest, Done, Keep
<1>9. \A i \in 1..old : i \in Active(matches)' <=> i \in Active(matches)
  BY <1>6, <1>7 DEF Active
<1>10. ASSUME NEW i \in (old + 1)..(old + new), NEW j \in 1..old
       PROVE  /\ j \in Active(matches) => matches'[i].line # matches'[j].line
              /\ Alone => /\ j \in Active(matches) => matches'[i].part # matches'[j].part
                          /\ Pair(matches'[i]) # Pair(matches'[j])
  <2>1. Pair(matches'[i]) \in s /\ matches'[j] = matches[j] /\ j \in MatchIds
    BY <1>5, <1>6, <1>7 DEF MatchIds
  <2>2. matches'[i].line = Pair(matches'[i])[1] /\ matches'[i].part = Pair(matches'[i])[2]
    BY DEF Pair
  <2>3. j \in Active(matches) => matches[j].line # Pair(matches'[i])[1]
    BY <1>2, <2>1 DEF LinesFree
  <2>4. Alone => Unmatched(pairs)
    BY <1>1 DEF ReconHeld
  <2> QED
    BY <1>4, <2>1, <2>2, <2>3, <2>4 DEF Unmatched
<1>11. ASSUME NEW i \in (old + 1)..(old + new), NEW j \in (old + 1)..(old + new), i # j
       PROVE  /\ matches'[i].line # matches'[j].line /\ matches'[i].part # matches'[j].part
              /\ Pair(matches'[i]) # Pair(matches'[j])
  <2>1. i - old # j - old /\ i - old \in 1..new /\ j - old \in 1..new
    BY <1>6, <1>7, <1>11
  <2>2. /\ Pair(matches'[i]) \in s /\ Pair(matches'[j]) \in s
        /\ Pair(matches'[i]) # Pair(matches'[j])
    BY <1>5, <1>7, <2>1
  <2> QED
    BY <1>4, <2>2 DEF Pair
<1>12. Alone' = Alone
  BY <1>8 DEF Alone
<1>13. MatchedOnce'
  <2> SUFFICES ASSUME NEW i \in 1..(old + new), NEW j \in 1..(old + new), i # j
               PROVE  /\ {i, j} \subseteq Active(matches)' =>
                          /\ matches'[i].line # matches'[j].line
                          /\ Alone => matches'[i].part # matches'[j].part
                      /\ Alone => Pair(matches'[i]) # Pair(matches'[j])
    BY <1>7, <1>12 DEF MatchedOnce, MatchIds
  <2>1. CASE i \in 1..old /\ j \in 1..old
    BY <1>6, <1>7, <1>9, <2>1 DEF ReconInv, MatchedOnce, MatchIds
  <2>2. CASE i > old /\ j > old
    BY <1>6, <1>11, <2>2
  <2>3. CASE i > old /\ j \in 1..old
    BY <1>6, <1>9, <1>10, <2>3
  <2>4. CASE i \in 1..old /\ j > old
    BY <1>6, <1>9, <1>10, <2>4
  <2> QED
    BY <1>6, <2>1, <2>2, <2>3, <2>4
<1>14. ASSUME NEW d \in Conns, seen'[d] # None
       PROVE  ReconHeld(d)'
  <2>1. d # c /\ seen'[d] = seen[d] /\ ReconHeld(d)
    BY <1>8, <1>14 DEF ReconInv
  <2>2. ~Alone
    BY <1>1, <2>1 DEF Alone, ReconHeld
  <2> QED
    BY <1>6, <1>7, <1>8, <1>12, <2>1, <2>2 DEF ReconHeld, MatchIds
<1> QED
  BY <1>7, <1>8, <1>13, <1>14 DEF ReconInv

\* Deciding changes one state, and one process decides on the state there is.
LEMMA DecideStep ==
    ASSUME ReconInv, NEW c \in Conns, ReconSetState(c)
    PROVE  ReconInv'
<1> DEFINE i == seen[c].id
<1>1. /\ seen[c] # None /\ i \in MatchIds /\ c \in team
      /\ Alone => seen[c].state = matches[i].state
  BY DEF ReconSetState, Doing, Idle, ReconInv, ReconHeld
<1>2. PICK to \in {"confirmed", "rejected"} :
        /\ Decidable(seen[c].state, to)
        /\ to # "rejected" => \A j \in Active(matches) \ {i} : matches[j].line # matches[i].line
        /\ matches' = [matches EXCEPT ![i].state = to]
  BY DEF ReconSetState
<1>3. /\ matches \in [1..Len(matches) -> MatchRow] /\ Len(matches) \in Nat
      /\ MatchIds = 1..Len(matches)
  BY DEF ReconInv, MatchIds
<1>4. /\ matches' \in [1..Len(matches) -> MatchRow]
      /\ \A j \in MatchIds : /\ Pair(matches'[j]) = Pair(matches[j])
                             /\ matches'[j].line = matches[j].line
                             /\ matches'[j].part = matches[j].part
                             /\ matches'[j].state = IF j = i THEN to ELSE matches[j].state
  BY <1>1, <1>2, <1>3 DEF MatchRow, Pair
<1>5. matches' \in Seq(MatchRow) /\ MatchIds' = MatchIds
  BY <1>3, <1>4 DEF MatchIds
<1>6. team' = team /\ seen' = [seen EXCEPT ![c] = None] /\ Alone' = Alone
  BY DEF ReconSetState, Done, Keep, Alone
<1>7. /\ Active(matches)' \subseteq Active(matches) \cup {i}
      /\ i \in Active(matches)' => to # "rejected"
      /\ Alone => Active(matches)' \subseteq Active(matches)
  <2>1. Active(matches)' = {j \in MatchIds : matches'[j].state # "rejected"}
    BY <1>5 DEF Active, MatchIds
  <2>2. Alone /\ to # "rejected" => matches[i].state # "rejected"
    BY <1>1, <1>2 DEF Decidable
  <2> QED
    BY <1>1, <1>4, <2>1, <2>2 DEF Active, MatchIds
<1>8. MatchedOnce'
  <2> SUFFICES ASSUME NEW k \in MatchIds, NEW j \in MatchIds, k # j
               PROVE  /\ {k, j} \subseteq Active(matches)' =>
                          /\ matches[k].line # matches[j].line
                          /\ Alone => matches[k].part # matches[j].part
                      /\ Alone => Pair(matches[k]) # Pair(matches[j])
    BY <1>4, <1>5, <1>6 DEF MatchedOnce
  <2>1. /\ {k, j} \subseteq Active(matches) =>
            /\ matches[k].line # matches[j].line
            /\ Alone => matches[k].part # matches[j].part
        /\ Alone => Pair(matches[k]) # Pair(matches[j])
    BY DEF ReconInv, MatchedOnce
  <2>2. {k, j} \subseteq Active(matches)' => matches[k].line # matches[j].line
    BY <1>2, <1>7, <2>1
  <2> QED
    BY <1>7, <2>1, <2>2
<1>9. ASSUME NEW d \in Conns, seen'[d] # None
      PROVE  ReconHeld(d)'
  <2>1. d # c /\ seen'[d] = seen[d] /\ ReconHeld(d)
    BY <1>6, <1>9 DEF ReconInv
  <2>2. ~Alone
    BY <1>1, <2>1 DEF Alone, ReconHeld
  <2> QED
    BY <1>5, <1>6, <2>1, <2>2 DEF ReconHeld
<1> QED
  BY <1>5, <1>6, <1>8, <1>9 DEF ReconInv

\* A suggestion begins with pairs nothing active touches; a decision with a row.
LEMMA ReconReadStep ==
    ASSUME ReconInv, NEW c \in Conns,
           ReconRead(c) \/ \E i \in MatchIds : ReconGet(c, i)
    PROVE  ReconInv'
<1>1. /\ c \in team /\ team' = team /\ matches' = matches
      /\ \E what : seen' = [seen EXCEPT ![c] = what]
  BY DEF ReconRead, ReconGet, Read, reconVars
<1>2. Alone' = Alone /\ MatchIds' = MatchIds /\ Active(matches)' = Active(matches)
  BY <1>1 DEF Alone, MatchIds, Active
<1>3. ReconHeld(c)'
  <2>1. CASE ReconRead(c)
    <3>1. seen'[c].job = "suggest" /\ seen'[c].pairs = Considered(matches)
      BY <2>1 DEF ReconRead, Read, ReconInv
    <3>2. Considered(matches) \subseteq Fits /\ Unmatched(Considered(matches))
      BY DEF Considered, Unmatched, MatchIds, Pair, Active
    <3> QED
      BY <1>1, <1>2, <3>1, <3>2 DEF ReconHeld, Unmatched
  <2>2. CASE \E i \in MatchIds : ReconGet(c, i)
    <3>1. PICK i \in MatchIds : ReconGet(c, i)
      BY <2>2
    <3>2. seen'[c].job = "match" /\ seen'[c].id = i /\ seen'[c].state = matches[i].state
      BY <3>1 DEF ReconGet, Read, ReconInv
    <3> QED
      BY <1>1, <1>2, <3>2 DEF ReconHeld
  <2> QED
    BY <2>1, <2>2
<1>4. ASSUME NEW d \in Conns, d # c, seen'[d] # None
      PROVE  ReconHeld(d)'
  BY <1>1, <1>2, <1>4 DEF ReconInv, ReconHeld, Unmatched
<1> QED
  BY <1>1, <1>2, <1>3, <1>4 DEF ReconInv, MatchedOnce

\* Every step keeps the invariant.
LEMMA ReconStep ==
    ReconInv /\ [ReconNext]_<<connVars, reconVars>> => ReconInv'
<1> SUFFICES ASSUME ReconInv, [ReconNext]_<<connVars, reconVars>>
             PROVE  ReconInv'
  OBVIOUS
<1>1. ASSUME UNCHANGED <<connVars, matches>>
      PROVE  ReconInv'
  BY <1>1 DEF connVars, ReconInv, ReconHeld, Unmatched, MatchIds, Active, Alone, MatchedOnce
<1>2. ASSUME NEW c \in Conns, Abandon(c), UNCHANGED reconVars
      PROVE  ReconInv'
  <2>1. team' = team /\ seen' = [seen EXCEPT ![c] = None] /\ matches' = matches
    BY <1>2 DEF Abandon, Done, Keep, reconVars
  <2>2. ASSUME NEW d \in Conns, seen'[d] # None
        PROVE  ReconHeld(d)'
    BY <2>1, <2>2 DEF ReconInv, ReconHeld, Unmatched, MatchIds, Active, Alone
  <2> QED
    BY <2>1, <2>2 DEF ReconInv, MatchedOnce, MatchIds, Active, Alone
<1> QED
  BY <1>1, <1>2, SuggestStep, DecideStep, ReconReadStep
  DEF ReconNext, CandidateComes, CandidateGoes, reconVars

LEMMA ReconInitially == ConnInit /\ ReconInit => ReconInv
BY EmptySeq DEF ConnInit, ReconInit, ReconInv, MatchedOnce, MatchIds

\* However many processes suggest and decide at once, a statement line has one match
\* that is not rejected; with one process so has its counterpart, and a pair that was
\* rejected is not suggested again.
THEOREM ActiveMatchesAreUnique == ReconSpec => []MatchedOnce
<1>1. ReconInv => MatchedOnce
  BY DEF ReconInv
<1> QED
  BY <1>1, ReconInitially, ReconStep, PTL DEF ReconSpec

LEMMA ReconInitiallyTyped == ConnInit /\ ReconInit => ReconTypeOK
BY DEF ReconInit, ReconTypeOK, MatchIds

\* What is inserted was chosen from what the call considered.
LEMMA MatchesStep ==
    ReconInv /\ ReconTypeOK /\ [ReconNext]_<<connVars, reconVars>> => ReconTypeOK'
<1> SUFFICES ASSUME ReconInv, ReconTypeOK, [ReconNext]_<<connVars, reconVars>>
             PROVE  ReconTypeOK'
  OBVIOUS
<1>1. ASSUME matches' = matches, candidates' \subseteq Counterparts PROVE ReconTypeOK'
  BY <1>1 DEF ReconTypeOK, MatchIds
<1>2. CASE UNCHANGED reconVars
  BY <1>1, <1>2 DEF reconVars, ReconTypeOK
<1>3. ASSUME NEW k \in Counterparts, CandidateComes(k) \/ CandidateGoes(k) PROVE ReconTypeOK'
  BY <1>1, <1>3 DEF CandidateComes, CandidateGoes, ReconTypeOK
<1>4. ASSUME NEW c \in Conns, ReconSuggest(c) PROVE ReconTypeOK'
  <2>1. seen[c] # None /\ seen[c].job = "suggest" /\ ReconHeld(c)
    BY <1>4 DEF ReconSuggest, Doing, Idle, ReconInv
  <2>2. PICK s \in Chosen(seen[c].pairs) : \E rows \in Inserted(s) : matches' = matches \o rows
    BY <1>4 DEF ReconSuggest
  <2>3. PICK rows \in Inserted(s) : matches' = matches \o rows
    BY <2>2
  <2>4. s \in SUBSET Fits
    BY <2>1, <2>2 DEF Chosen, ReconHeld
  <2>5. /\ rows \in Seq(MatchRow)
        /\ \A i \in 1..Len(rows) : Pair(rows[i]) \in s /\ rows[i].state = "open"
    BY <2>4, <2>3, InsertedOnce
  <2> DEFINE old == Len(matches)
             new == Len(rows)
  <2>6. /\ matches \in Seq(MatchRow) /\ old \in Nat /\ new \in Nat
        /\ DOMAIN matches = 1..old /\ DOMAIN rows = 1..new
    BY <2>5 DEF ReconInv
  <2>7. /\ DOMAIN matches' = 1..(old + new)
        /\ \A i \in 1..old : matches'[i] = matches[i]
        /\ \A i \in (old + 1)..(old + new) : matches'[i] = rows[i - old] /\ i - old \in 1..new
    BY <2>5, <2>6, <2>3
  <2>8. ASSUME NEW i \in 1..(old + new)
        PROVE  /\ Pair(matches'[i]) \in Fits
               /\ matches'[i].state \in {"open", "confirmed", "rejected"}
    <3>1. CASE i \in 1..old
      BY <2>6, <2>7, <3>1 DEF ReconTypeOK, MatchIds
    <3>2. CASE i \in (old + 1)..(old + new)
      BY <2>4, <2>5, <2>7, <3>2
    <3> QED
      BY <2>6, <3>1, <3>2
  <2>9. candidates' = candidates
    BY <1>4 DEF ReconSuggest
  <2> QED
    BY <2>7, <2>8, <2>9 DEF ReconTypeOK, MatchIds, Pair
<1>5. ASSUME NEW c \in Conns, ReconSetState(c) PROVE ReconTypeOK'
  <2> DEFINE i == seen[c].id
  <2>1. PICK to \in {"confirmed", "rejected"} : matches' = [matches EXCEPT ![i].state = to]
    BY <1>5 DEF ReconSetState
  <2>2. candidates' = candidates /\ i \in MatchIds
    BY <1>5 DEF ReconSetState, Doing, Idle, ReconInv, ReconHeld
  <2>3. /\ matches \in [1..Len(matches) -> MatchRow] /\ MatchIds = 1..Len(matches)
    BY DEF ReconInv, MatchIds
  <2>4. /\ matches' \in [1..Len(matches) -> MatchRow]
        /\ \A j \in MatchIds : /\ Pair(matches'[j]) = Pair(matches[j])
                               /\ matches'[j].state = IF j = i THEN to ELSE matches[j].state
    BY <2>1, <2>2, <2>3 DEF MatchRow, Pair
  <2>5. MatchIds' = MatchIds
    BY <2>3, <2>4 DEF MatchIds
  <2>6. ASSUME NEW j \in MatchIds'
        PROVE  Pair(matches'[j]) \in Fits /\ matches'[j].state \in {"open", "confirmed", "rejected"}
    BY <2>4, <2>5, <2>6 DEF ReconTypeOK
  <2>7. candidates' \subseteq Counterparts
    BY <2>2 DEF ReconTypeOK
  <2> QED
    BY <2>6, <2>7 DEF ReconTypeOK, Pair
<1> QED
  BY <1>2, <1>3, <1>4, <1>5 DEF ReconNext, ReconRead, ReconGet, reconVars

(***************************************************************************)
(* Proved of depreciation, for any terms, months and assets: where one     *)
(* process has the book and nobody reverses a run by hand, assets are      *)
(* written down period by period, to their residual value and no further.  *)
(***************************************************************************)
RunRow == [period : Months, index : Nat, live : BOOLEAN, amount : Nat]

\* What the first k runs wrote off.
Spent(rows, k) == Total([i \in 1 .. k |-> rows[i].amount])

\* The first k runs wrote off no more than there is, and the last one the rest.
Written(t, rows, k) ==
    /\ t.rate = None => Spent(rows, k) = Target(t, k)
    /\ Spent(rows, k) \in Int
    /\ Spent(rows, k) <= t.cost - t.residual
    /\ k = t.life => Spent(rows, k) = t.cost - t.residual

\* The runs are one a period, in order; those past a disposal, and no others, are dead.
Ordered(row, rows, n) ==
    /\ row \in AssetRows
    /\ rows \in Seq(RunRow)
    /\ n \in Nat /\ n <= Len(rows)
    /\ \A i \in 1 .. Len(rows) : rows[i].index = i /\ (rows[i].live <=> i <= n)
    /\ Len(rows) <= row.terms.life
    /\ row.disposed # None => n <= PeriodIndex(row.terms, row.disposed)
    /\ n < Len(rows) => row.disposed # None /\ PeriodIndex(row.terms, row.disposed) <= n
    /\ \A k \in 0 .. Len(rows) : Written(row.terms, rows, k)

LEMMA MonthsTyped == Months \subseteq Nat /\ None \notin Months /\ None \notin AssetRows
BY AssetsAssumption, Zenon

LEMMA TermsTyped ==
    ASSUME NEW t \in Terms
    PROVE  /\ t.from \in Nat /\ t.cost \in Nat /\ t.residual \in Nat /\ t.residual <= t.cost
           /\ t.life \in Nat /\ t.life > 0
           /\ t.rate # None => t.rate \in Nat
<1>1. Months \subseteq Nat /\ t.from \in Months
  BY AssetsAssumption, Zenon
<1>2. t.cost \in Nat \ {0} /\ t.life \in Nat \ {0}
  BY AssetsAssumption, Zenon
<1>3. t.residual \in 0 .. t.cost
  BY AssetsAssumption, Zenon
<1>4. t.rate # None => t.rate \in 1 .. BasisPoints
  BY AssetsAssumption, Zenon
<1>5. t.residual \in Nat /\ t.residual <= t.cost
  BY <1>2, <1>3
<1>6. t.rate # None => t.rate \in Nat
  <2>1. BasisPoints \in Nat
    BY DEF BasisPoints
  <2>2. \A x \in 1 .. BasisPoints : x \in Nat
    BY <2>1
  <2> QED
    BY <1>4, <2>2
<1>7. t.life > 0
  BY <1>2
<1> QED
  BY <1>1, <1>2, <1>5, <1>6, <1>7

LEMMA ExactDivision ==
    ASSUME NEW x \in Nat, NEW d \in Nat, d > 0, NEW n \in Nat, n <= d
    PROVE  /\ (x * 0) \div d = 0
           /\ (x * d) \div d = x
           /\ (x * n) \div d \in Nat
           /\ (x * n) \div d <= x
<1>1. x * 0 = 0 /\ 0 \div d = 0
  OBVIOUS
<1>2. x * n \in Nat /\ x * n <= x * d
  OBVIOUS
<1>3. (x * d) \div d = x
  OBVIOUS
<1>4. (x * n) \div d \in Nat
  BY <1>2
<1>5. (x * n) \div d <= x
  BY <1>2
<1> QED
  BY <1>1, <1>3, <1>4, <1>5

\* A straight line begins at nothing, ends at the depreciable amount and never passes it.
LEMMA LineBounded ==
    ASSUME NEW t \in Terms, NEW n \in Nat
    PROVE  /\ Target(t, n) \in Nat /\ Target(t, n) <= t.cost - t.residual
           /\ n = 0 => Target(t, n) = 0
           /\ n = t.life => Target(t, n) = t.cost - t.residual
<1> DEFINE x == t.cost - t.residual
           m == IF n < t.life THEN n ELSE t.life
<1>1. x \in Nat /\ t.life \in Nat /\ t.life > 0 /\ m \in Nat /\ m <= t.life
  BY TermsTyped
<1>2. Target(t, n) = (x * m) \div t.life
  BY DEF Target
<1>3. n = 0 => m = 0
  BY <1>1
<1>4. n = t.life => m = t.life
  BY <1>1
<1> HIDE DEF x, m
<1>5. /\ (x * 0) \div t.life = 0 /\ (x * t.life) \div t.life = x
      /\ (x * m) \div t.life \in Nat /\ (x * m) \div t.life <= x
  BY <1>1, ExactDivision
<1> QED
  BY <1>2, <1>3, <1>4, <1>5 DEF x

LEMMA NothingSpent == ASSUME NEW rows PROVE Spent(rows, 0) = 0
<1> DEFINE f == [i \in 1 .. 0 |-> rows[i].amount]
<1>1. DOMAIN f = {}
  OBVIOUS
<1> HIDE DEF f
<1>2. Total(f) = 0
  BY <1>1, TotalEmpty
<1> QED
  BY <1>2 DEF Spent, f

LEMMA FreshIsOrdered ==
    ASSUME NEW t \in Terms
    PROVE  Ordered(AssetRow(t), <<>>, 0)
<1>1. AssetRow(t) \in AssetRows /\ AssetRow(t).terms = t /\ AssetRow(t).disposed = None
  BY DEF AssetRow, AssetRows
<1>2. Written(t, <<>>, 0)
  BY NothingSpent, LineBounded, TermsTyped DEF Written
<1> QED
  BY <1>1, <1>2, TermsTyped DEF Ordered

\* What is live of ordered runs.
LEMMA LiveIsPrefix ==
    ASSUME NEW row, NEW rows, NEW n, Ordered(row, rows, n)
    PROVE  /\ LiveRuns(rows) = 1 .. n
           /\ {rows[i].index : i \in LiveRuns(rows)} = 1 .. n
           /\ LastLive(rows) = n
           /\ Accumulated(rows) = Spent(rows, n)
<1>1. DOMAIN rows = 1 .. Len(rows) /\ Len(rows) \in Nat /\ n \in Nat /\ n <= Len(rows)
  BY DEF Ordered
<1>2. LiveRuns(rows) = 1 .. n
  BY <1>1 DEF LiveRuns, Ordered
<1>3. {rows[i].index : i \in LiveRuns(rows)} = 1 .. n
  BY <1>1, <1>2 DEF Ordered
<1>4. LastLive(rows) = n
  <2> DEFINE S == {0} \cup (1 .. n)
  <2>1. n \in S /\ \A y \in S : n >= y
    BY <1>1
  <2>2. \A x \in S : (\A y \in S : x >= y) => x = n
    BY <1>1
  <2>3. LastLive(rows) = Max(S)
    BY <1>3 DEF LastLive
  <2> HIDE DEF S
  <2> QED
    BY <2>1, <2>2, <2>3 DEF Max
<1> QED
  BY <1>2, <1>3, <1>4 DEF Accumulated, Spent

\* The amounts of the runs there are do not change what they add up to.
LEMMA SameSpent ==
    ASSUME NEW rows, NEW others, NEW k \in Nat, \A i \in 1 .. k : others[i].amount = rows[i].amount
    PROVE  Spent(others, k) = Spent(rows, k)
<1> DEFINE f == [i \in 1 .. k |-> rows[i].amount]
           e == [i \in 1 .. k |-> others[i].amount]
<1>1. f = e
  OBVIOUS
<1> QED
  BY <1>1 DEF Spent

LEMMA SpentOneMore ==
    ASSUME NEW rows \in Seq(RunRow), NEW run \in RunRow
    PROVE  /\ \A k \in 0 .. Len(rows) : Spent(Append(rows, run), k) = Spent(rows, k)
           /\ Spent(Append(rows, run), Len(rows) + 1) = run.amount + Spent(rows, Len(rows))
<1> DEFINE n == Len(rows)
           more == Append(rows, run)
           f == [i \in 1 .. n + 1 |-> more[i].amount]
           e == [i \in 1 .. n |-> rows[i].amount]
<1>1. /\ n \in Nat /\ \A i \in 1 .. n : more[i] = rows[i] /\ rows[i].amount \in Int
      /\ more[n + 1] = run /\ run.amount \in Int
  <2>1. \A r \in RunRow : r.amount \in Int
    BY DEF RunRow
  <2>2. n \in Nat /\ \A i \in 1 .. n : more[i] = rows[i] /\ rows[i] \in RunRow
    OBVIOUS
  <2>3. more[n + 1] = run
    OBVIOUS
  <2> QED
    BY <2>1, <2>2, <2>3
<1>2. \A k \in 0 .. n : Spent(more, k) = Spent(rows, k)
  <2> SUFFICES ASSUME NEW k \in 0 .. n PROVE Spent(more, k) = Spent(rows, k)
    OBVIOUS
  <2>1. k \in Nat /\ \A i \in 1 .. k : more[i].amount = rows[i].amount
    BY <1>1
  <2> HIDE DEF more
  <2> QED
    BY <2>1, SameSpent
<1>3. 1 .. n + 1 = (1 .. n) \cup {n + 1} /\ n + 1 \notin 1 .. n
  BY <1>1
<1>4. IsFiniteSet(1 .. n)
  BY <1>1, FS_Interval
<1>5. /\ DOMAIN f = (1 .. n) \cup {n + 1} /\ DOMAIN e = 1 .. n
      /\ f[n + 1] = run.amount /\ \A i \in 1 .. n : f[i] = e[i] /\ f[i] \in Int
  BY <1>1, <1>3
<1>6. Total(f) = Spent(more, n + 1) /\ Total(e) = Spent(rows, n)
  BY DEF Spent
<1> HIDE DEF f, e, more
<1>7. Total(f) = f[n + 1] + Total(e)
  <2> DEFINE S == 1 .. n
             x == n + 1
  <2>1. /\ IsFiniteSet(S) /\ x \notin S /\ DOMAIN f = S \cup {x}
        /\ \A y \in S \cup {x} : f[y] \in Int
        /\ DOMAIN e = S /\ \A y \in S : e[y] = f[y]
    BY <1>1, <1>3, <1>4, <1>5
  <2> HIDE DEF S, x
  <2>2. Total(f) = f[x] + Total(e)
    BY <2>1, TotalAdd
  <2> QED
    BY <2>2 DEF x
<1> QED
  BY <1>2, <1>5, <1>6, <1>7 DEF more

\* The next period's amount keeps within what is left, and the last one takes all of it.
LEMMA NextIsWritten ==
    ASSUME NEW t \in Terms, NEW rows, NEW n \in Nat, n < t.life, Written(t, rows, n),
           NEW amount, amount = DepreciationAmount(t, n + 1, Spent(rows, n)), amount > 0
    PROVE  /\ amount \in Nat
           /\ t.rate = None => amount + Spent(rows, n) = Target(t, n + 1)
           /\ amount + Spent(rows, n) <= t.cost - t.residual
           /\ n + 1 = t.life => amount + Spent(rows, n) = t.cost - t.residual
<1> DEFINE s == Spent(rows, n)
<1>1. /\ s \in Int /\ s <= t.cost - t.residual /\ (t.rate = None => s = Target(t, n))
      /\ t.cost \in Nat /\ t.residual \in Nat /\ t.life \in Nat /\ n + 1 \in Nat
      /\ (t.rate # None => t.rate \in Nat)
  BY TermsTyped DEF Written
<1>2. /\ Target(t, n) \in Nat /\ Target(t, n + 1) \in Nat
      /\ Target(t, n + 1) <= t.cost - t.residual
      /\ n + 1 = t.life => Target(t, n + 1) = t.cost - t.residual
  BY <1>1, LineBounded
<1>3. CASE t.rate = None
  <2>1. amount = Target(t, n + 1) - Target(t, (n + 1) - 1)
    BY <1>3 DEF DepreciationAmount
  <2>2. (n + 1) - 1 = n
    OBVIOUS
  <2> HIDE DEF s
  <2>3. amount = Target(t, n + 1) - Target(t, n)
    BY <2>1, <2>2
  <2> QED
    BY <1>1, <1>2, <1>3, <2>3 DEF s
<1>4. CASE t.rate # None
  <2> DEFINE opening == t.cost - s
             headroom == opening - t.residual
             raw == (opening * t.rate) \div BasisPoints
  <2>1. opening \in Int /\ headroom \in Int /\ raw \in Int
    BY <1>1, <1>4 DEF BasisPoints
  <2>2. amount = CASE headroom <= 0 -> 0
                   [] headroom > 0 /\ n + 1 >= t.life -> headroom
                   [] OTHER -> IF raw < headroom THEN raw ELSE headroom
    BY <1>4 DEF DepreciationAmount
  <2> HIDE DEF raw
  <2>3. amount \in Int /\ amount <= headroom /\ (n + 1 >= t.life => amount = headroom)
    BY <1>1, <2>1, <2>2
  <2> QED
    BY <1>1, <1>4, <2>3
<1> QED
  BY <1>3, <1>4

LEMMA RunIsOrdered ==
    ASSUME NEW row, NEW rows, NEW n, Ordered(row, rows, n), NEW month \in Months,
           MayRun(row, rows, month),
           NEW run, run = [period |-> month, index |-> PeriodIndex(row.terms, month), live |-> TRUE,
                           amount |-> DepreciationAmount(row.terms, PeriodIndex(row.terms, month),
                                                         Accumulated(rows))],
           run.amount > 0
    PROVE  Ordered(row, Append(rows, run), n + 1)
<1> DEFINE t == row.terms
           more == Append(rows, run)
           s == Spent(rows, n)
<1>1. /\ row \in AssetRows /\ t \in Terms /\ rows \in Seq(RunRow) /\ n \in Nat /\ n <= Len(rows)
      /\ Len(rows) \in Nat /\ t.life \in Nat /\ t.from \in Nat /\ month \in Nat
  <2>1. /\ row \in AssetRows /\ rows \in Seq(RunRow) /\ n \in Nat /\ n <= Len(rows)
        /\ Len(rows) \in Nat
    BY DEF Ordered
  <2>2. t \in Terms
    BY <2>1 DEF AssetRows
  <2>3. t.life \in Nat /\ t.from \in Nat
    BY <2>2, TermsTyped
  <2>4. month \in Nat
    BY MonthsTyped
  <2> QED
    BY <2>1, <2>2, <2>3, <2>4
<1>2. /\ PeriodIndex(t, month) = n + 1 /\ n + 1 <= t.life
      /\ row.disposed # None => n + 1 <= PeriodIndex(t, row.disposed)
      /\ Accumulated(rows) = s
  BY LiveIsPrefix DEF MayRun
<1>3. n = Len(rows)
  <2>1. PICK last : last = row.disposed
    OBVIOUS
  <2>2. last # None => last \in Nat
    <3>1. row.disposed \in Months \cup {None}
      BY <1>1 DEF AssetRows
    <3>2. Months \subseteq Nat
      BY MonthsTyped
    <3> QED
      BY <2>1, <3>1, <3>2
  <2>3. last # None => (last - t.from) + 1 \in Int
    BY <1>1, <2>2
  <2>4. row.disposed # None => PeriodIndex(t, row.disposed) \in Int
    BY <2>1, <2>3 DEF PeriodIndex
  <2> QED
    BY <1>1, <1>2, <2>4 DEF Ordered
<1>4. Written(t, rows, n)
  BY <1>1, <1>3 DEF Ordered
<1>5. /\ run.period = month /\ run.index = n + 1 /\ run.live = TRUE
      /\ run.amount = DepreciationAmount(t, n + 1, s)
  BY <1>2
<1>6. /\ run.amount \in Nat
      /\ t.rate = None => run.amount + s = Target(t, n + 1)
      /\ run.amount + s <= t.cost - t.residual
      /\ n + 1 = t.life => run.amount + s = t.cost - t.residual
  <2>1. PICK amount : amount = run.amount
    OBVIOUS
  <2>2. amount = DepreciationAmount(t, n + 1, Spent(rows, n)) /\ amount > 0
    BY <1>5, <2>1
  <2>3. n < t.life
    BY <1>1, <1>2
  <2> HIDE DEF s
  <2>4. /\ amount \in Nat
        /\ t.rate = None => amount + Spent(rows, n) = Target(t, n + 1)
        /\ amount + Spent(rows, n) <= t.cost - t.residual
        /\ n + 1 = t.life => amount + Spent(rows, n) = t.cost - t.residual
    BY <1>1, <1>4, <2>2, <2>3, NextIsWritten
  <2> QED
    BY <2>1, <2>4 DEF s
<1>7. run \in RunRow
  <2>1. run = [period |-> run.period, index |-> run.index, live |-> run.live, amount |-> run.amount]
    BY <1>5
  <2> QED
    BY <1>1, <1>5, <1>6, <2>1 DEF RunRow
<1>8. /\ more \in Seq(RunRow) /\ Len(more) = n + 1 /\ more[n + 1] = run
      /\ \A i \in 1 .. n : more[i] = rows[i]
  BY <1>1, <1>3, <1>7
<1>9. \A k \in 0 .. n : Spent(more, k) = Spent(rows, k)
  BY <1>1, <1>3, <1>7, SpentOneMore
<1>10. Spent(more, n + 1) = run.amount + s
  BY <1>1, <1>3, <1>7, SpentOneMore
<1>11. ASSUME NEW k \in 0 .. n + 1
       PROVE  Written(t, more, k)
  <2>1. CASE k \in 0 .. n
    <3>1. Spent(more, k) = Spent(rows, k) /\ Written(t, rows, k)
      BY <1>3, <1>9, <2>1 DEF Ordered
    <3> QED
      BY <3>1 DEF Written
  <2>2. CASE k = n + 1
    <3>1. s \in Int
      BY <1>4 DEF Written
    <3> HIDE DEF s
    <3> QED
      BY <1>6, <1>10, <2>2, <3>1 DEF Written
  <2> QED
    BY <1>1, <2>1, <2>2
<1>12. ASSUME NEW i \in 1 .. n + 1
       PROVE  more[i].index = i /\ (more[i].live <=> i <= n + 1)
  <2>1. CASE i = n + 1
    BY <1>1, <1>5, <1>8, <2>1
  <2>2. CASE i \in 1 .. n
    BY <1>1, <1>3, <1>8, <2>2 DEF Ordered
  <2> QED
    BY <1>1, <2>1, <2>2
<1> HIDE DEF more
<1>13. Ordered(row, more, n + 1)
  <2>1. \A i \in 1 .. Len(more) : more[i].index = i /\ (more[i].live <=> i <= n + 1)
    BY <1>8, <1>12
  <2>2. \A k \in 0 .. Len(more) : Written(t, more, k)
    BY <1>8, <1>11
  <2>3. n + 1 \in Nat /\ n + 1 <= Len(more) /\ ~(n + 1 < Len(more)) /\ Len(more) <= t.life
    BY <1>1, <1>2, <1>8
  <2> QED
    BY <1>1, <1>2, <1>8, <2>1, <2>2, <2>3 DEF Ordered
<1> QED
  BY <1>13 DEF more

LEMMA DisposalIsOrdered ==
    ASSUME NEW row, NEW rows, NEW n, Ordered(row, rows, n), row.disposed = None,
           NEW month \in Months, NEW index, index = PeriodIndex(row.terms, month), index >= 1,
           NEW gone, gone \in AssetRows, gone.terms = row.terms, gone.disposed = month
    PROVE  \E m \in Nat : Ordered(gone, Disposed(rows, index), m)
<1> DEFINE t == row.terms
           less == Disposed(rows, index)
           m == IF index < n THEN index ELSE n
<1>1. /\ t \in Terms /\ rows \in Seq(RunRow) /\ n \in Nat /\ n <= Len(rows) /\ Len(rows) \in Nat
      /\ index \in Nat /\ month # None
  BY TermsTyped, MonthsTyped DEF Ordered, AssetRows, PeriodIndex
<1>2. n = Len(rows)
  BY <1>1 DEF Ordered
<1>3. m \in Nat /\ m <= n /\ m <= index /\ (m < n => m = index)
  BY <1>1
<1>4. ASSUME NEW i \in 1 .. n
      PROVE  /\ less[i] \in RunRow /\ less[i].index = i /\ less[i].amount = rows[i].amount
             /\ less[i].live <=> i <= m
  <2>1. /\ rows[i] \in RunRow /\ rows[i].index = i /\ (rows[i].live <=> i <= n)
    BY <1>2 DEF Ordered
  <2>2. PICK still \in BOOLEAN : still = (rows[i].live /\ rows[i].index <= index)
    OBVIOUS
  <2>3. less[i] = [rows[i] EXCEPT !.live = still]
    BY <1>1, <1>2, <2>2 DEF Disposed
  <2>4. /\ less[i] \in RunRow /\ less[i].index = rows[i].index
        /\ less[i].amount = rows[i].amount /\ less[i].live = still
    BY <2>1, <2>3 DEF RunRow
  <2>5. still <=> i <= m
    <3>1. still <=> rows[i].live /\ i <= index
      BY <2>1, <2>2
    <3>2. rows[i].live
      BY <2>1
    <3>3. i <= index <=> i <= m
      BY <1>1
    <3> QED
      BY <3>1, <3>2, <3>3, Zenon
  <2> QED
    BY <2>1, <2>4, <2>5
<1>5. less \in Seq(RunRow) /\ Len(less) = n
  <2>1. DOMAIN less = 1 .. n /\ less = [i \in DOMAIN less |-> less[i]]
    <3>1. DOMAIN rows = 1 .. n
      BY <1>1, <1>2
    <3> QED
      BY <3>1 DEF Disposed
  <2> HIDE DEF less
  <2>2. less \in [1 .. n -> RunRow]
    BY <1>4, <2>1
  <2> QED
    BY <1>1, <2>2
<1>6. ASSUME NEW k \in 0 .. n
      PROVE  Written(t, less, k)
  <2>1. Written(t, rows, k)
    BY <1>2 DEF Ordered
  <2>2. k \in Nat /\ \A i \in 1 .. k : less[i].amount = rows[i].amount
    BY <1>1, <1>4
  <2> HIDE DEF less
  <2>3. Spent(less, k) = Spent(rows, k)
    BY <2>2, SameSpent
  <2> QED
    BY <2>1, <2>3 DEF Written
<1>7. n <= t.life
  BY <1>2 DEF Ordered
<1> HIDE DEF less, m
<1>8. Ordered(gone, less, m)
  BY <1>1, <1>3, <1>4, <1>5, <1>6, <1>7 DEF Ordered
<1> QED
  BY <1>3, <1>8 DEF less

\* An edit of an asset with no run may change its terms; any other leaves them.
LEMMA EditIsOrdered ==
    ASSUME NEW row, NEW rows, NEW n, Ordered(row, rows, n), row.disposed = None,
           NEW t \in IF rows = <<>> THEN Terms ELSE {row.terms}
    PROVE  \E m \in Nat : Ordered(AssetRow(t), rows, m)
<1>1. CASE rows = <<>>
  BY <1>1, FreshIsOrdered
<1>2. CASE rows # <<>>
  <2>1. t = row.terms /\ row \in AssetRows
    BY <1>2 DEF Ordered
  <2>2. row = [terms |-> row.terms, disposed |-> row.disposed]
    BY <2>1 DEF AssetRows
  <2>3. AssetRow(t) = row
    BY <2>1, <2>2 DEF AssetRow
  <2> QED
    BY <2>3 DEF Ordered
<1> QED
  BY <1>1, <1>2

\* What the rows of one process's book keep; what a call under way read is still so.
AssetCallsSound ==
    \A c \in Conns : seen[c] # None =>
        /\ c \in team /\ seen[c].job = "asset" /\ seen[c].id \in FixedAssets
        /\ seen[c].row = register[seen[c].id] /\ seen[c].row \in AssetRows
        /\ seen[c].runs = runs[seen[c].id]

InOrder(a) ==
    /\ register[a] = None => runs[a] = <<>>
    /\ register[a] # None =>
           register[a] \in AssetRows /\ (~reversed[a] => \E n \in Nat : Ordered(register[a], runs[a], n))

\* The inductive invariant.
AssetInv ==
    /\ team \in SUBSET Conns
    /\ seen = [c \in Conns |-> seen[c]]
    /\ register = [a \in FixedAssets |-> register[a]]
    /\ runs = [a \in FixedAssets |-> runs[a]]
    /\ reversed \in [FixedAssets -> BOOLEAN]
    /\ Alone => AssetCallsSound /\ \A a \in FixedAssets : InOrder(a)

\* A step that writes the rows of one asset, where no call of the process is left under way.
LEMMA AssetWritten ==
    ASSUME AssetInv, NEW a \in FixedAssets, UNCHANGED team,
           seen' = [c \in Conns |-> seen'[c]],
           register' = [b \in FixedAssets |-> register'[b]],
           runs' = [b \in FixedAssets |-> runs'[b]],
           reversed' \in [FixedAssets -> BOOLEAN],
           \A b \in FixedAssets \ {a} : /\ register'[b] = register[b] /\ runs'[b] = runs[b]
                                        /\ reversed'[b] = reversed[b],
           Alone => InOrder(a)' /\ \A c \in Conns : seen'[c] = None
    PROVE  AssetInv'
<1>1. Alone' = Alone
  BY DEF Alone
<1>2. ASSUME Alone, NEW b \in FixedAssets
      PROVE  InOrder(b)'
  <2>1. CASE b = a
    BY <1>2, <2>1
  <2>2. CASE b # a
    <3>1. InOrder(b) /\ register'[b] = register[b] /\ runs'[b] = runs[b] /\ reversed'[b] = reversed[b]
      BY <1>2, <2>2 DEF AssetInv
    <3> QED
      BY <3>1 DEF InOrder, Ordered, Written
  <2> QED
    BY <2>1, <2>2
<1>3. Alone => AssetCallsSound'
  BY DEF AssetCallsSound
<1> QED
  BY <1>1, <1>2, <1>3 DEF AssetInv

\* A call that ends, of one process, leaves none under way.
LEMMA LastOneEnds ==
    ASSUME AssetInv, NEW c \in Conns, seen[c] # None, Done(c)
    PROVE  /\ team' = team /\ seen' = [d \in Conns |-> seen'[d]]
           /\ Alone => \A d \in Conns : seen'[d] = None
<1>1. seen' = [seen EXCEPT ![c] = None] /\ team' = team
  BY DEF Done, Keep
<1>2. seen'[c] = None /\ \A d \in Conns : d # c => seen'[d] = seen[d]
  BY <1>1 DEF AssetInv
<1>3. ASSUME Alone, NEW d \in Conns, d # c
      PROVE  seen[d] = None
  BY <1>3 DEF AssetInv, AssetCallsSound, Alone
<1> QED
  BY <1>1, <1>2, <1>3 DEF AssetInv

LEMMA AssetStep == AssetInv /\ [AssetsNext]_<<connVars, assetVars>> => AssetInv'
<1> SUFFICES ASSUME AssetInv, [AssetsNext]_<<connVars, assetVars>> PROVE AssetInv'
  OBVIOUS
<1>1. CASE UNCHANGED <<connVars, assetVars>>
  <2>1. /\ team' = team /\ seen' = seen /\ register' = register /\ runs' = runs
        /\ reversed' = reversed
    BY <1>1 DEF connVars, assetVars
  <2>2. Alone' = Alone /\ AssetCallsSound' = AssetCallsSound
    BY <2>1 DEF Alone, AssetCallsSound
  <2>3. \A a \in FixedAssets : InOrder(a)' = InOrder(a)
    BY <2>1 DEF InOrder
  <2> QED
    BY <2>1, <2>2, <2>3 DEF AssetInv
<1>2. ASSUME NEW a \in FixedAssets, AssetCreate(a)
      PROVE  AssetInv'
  <2>1. PICK t \in Terms : register' = [register EXCEPT ![a] = AssetRow(t)]
    BY <1>2 DEF AssetCreate
  <2>2. /\ Free /\ register[a] = None /\ team' = team /\ seen' = seen /\ runs' = runs
        /\ reversed' = reversed
    BY <1>2 DEF AssetCreate, connVars
  <2>3. /\ register'[a] = AssetRow(t) /\ register' = [b \in FixedAssets |-> register'[b]]
        /\ \A b \in FixedAssets \ {a} : register'[b] = register[b]
    BY <2>1 DEF AssetInv
  <2>4. Ordered(AssetRow(t), <<>>, 0) /\ AssetRow(t) \in AssetRows
    BY FreshIsOrdered DEF Ordered
  <2>5. Alone => InOrder(a)'
    <3> SUFFICES ASSUME Alone PROVE InOrder(a)'
      OBVIOUS
    <3>1. runs'[a] = <<>>
      BY <2>2 DEF AssetInv, InOrder
    <3>2. AssetRow(t) # None
      BY <2>4, MonthsTyped
    <3> QED
      BY <2>3, <2>4, <3>1, <3>2 DEF InOrder
  <2>6. Alone => \A c \in Conns : seen'[c] = None
    BY <2>2 DEF Free, Idle
  <2> QED
    BY <2>2, <2>3, <2>5, <2>6, AssetWritten DEF AssetInv
<1>3. ASSUME NEW a \in FixedAssets, NEW i \in DOMAIN runs[a], JournalReversed(a, i)
      PROVE  AssetInv'
  <2>1. /\ Free /\ team' = team /\ seen' = seen /\ register' = register
        /\ runs' = [runs EXCEPT ![a][i].live = ~@]
        /\ reversed' = [reversed EXCEPT ![a] = TRUE]
    BY <1>3 DEF JournalReversed, connVars
  <2>2. /\ runs' = [b \in FixedAssets |-> runs'[b]]
        /\ \A b \in FixedAssets \ {a} : runs'[b] = runs[b] /\ reversed'[b] = reversed[b]
        /\ reversed' \in [FixedAssets -> BOOLEAN] /\ reversed'[a] = TRUE
    BY <2>1 DEF AssetInv
  <2>3. Alone => InOrder(a)'
    <3> SUFFICES ASSUME Alone PROVE InOrder(a)'
      OBVIOUS
    <3>1. InOrder(a) /\ runs[a] # <<>>
      BY DEF AssetInv
    <3> QED
      BY <2>1, <2>2, <3>1 DEF InOrder
  <2>4. Alone => \A c \in Conns : seen'[c] = None
    BY <2>1 DEF Free, Idle
  <2>5. /\ team' = team
        /\ seen' = [c \in Conns |-> seen'[c]]
        /\ register' = [b \in FixedAssets |-> register'[b]]
        /\ \A b \in FixedAssets \ {a} : register'[b] = register[b]
    BY <2>1 DEF AssetInv
  <2> QED
    BY <2>2, <2>3, <2>4, <2>5, AssetWritten
<1>4. ASSUME NEW c \in Conns, NEW a \in FixedAssets, AssetGet(c, a)
      PROVE  AssetInv'
  <2>1. PICK call : call = [job |-> "asset", id |-> a, row |-> register[a], runs |-> runs[a]]
    OBVIOUS
  <2>2. /\ call.job = "asset" /\ call.id = a /\ call.row = register[a] /\ call.runs = runs[a]
    BY <2>1
  <2>3. /\ seen' = [seen EXCEPT ![c] = call] /\ c \in team /\ team' = team
        /\ register' = register /\ runs' = runs /\ reversed' = reversed /\ register[a] # None
    BY <1>4, <2>1 DEF AssetGet, Read, assetVars
  <2>4. seen'[c] = call /\ \A d \in Conns : d # c => seen'[d] = seen[d]
    BY <2>3 DEF AssetInv
  <2>5. Alone' = Alone /\ \A b \in FixedAssets : InOrder(b)' = InOrder(b)
    BY <2>3 DEF Alone, InOrder
  <2>6. Alone => AssetCallsSound'
    BY <2>2, <2>3, <2>4 DEF AssetInv, AssetCallsSound, InOrder
  <2> QED
    BY <2>3, <2>5, <2>6 DEF AssetInv
<1>5. ASSUME NEW c \in Conns, AssetUpdate(c)
      PROVE  AssetInv'
  <2>1. PICK a, row, rows : a = seen[c].id /\ row = seen[c].row /\ rows = seen[c].runs
    OBVIOUS
  <2>2. PICK t \in IF rows = <<>> THEN Terms ELSE {row.terms} : register' = [register EXCEPT ![a] = AssetRow(t)]
    BY <1>5, <2>1 DEF AssetUpdate, PutAsset
  <2>3. /\ seen[c] # None /\ row.disposed = None /\ Done(c) /\ runs' = runs /\ reversed' = reversed
    BY <1>5, <2>1 DEF AssetUpdate, Doing, Idle
  <2>4. CASE a \in FixedAssets
    <3>1. /\ register'[a] = AssetRow(t) /\ register' = [b \in FixedAssets |-> register'[b]]
          /\ \A b \in FixedAssets \ {a} : register'[b] = register[b]
      BY <2>2, <2>4 DEF AssetInv
    <3>2. Alone => InOrder(a)'
      <4> SUFFICES ASSUME Alone PROVE InOrder(a)'
        OBVIOUS
      <4>1. row = register[a] /\ row \in AssetRows /\ rows = runs[a] /\ InOrder(a)
        BY <2>1, <2>3, <2>4 DEF AssetInv, AssetCallsSound
      <4>2. row # None
        BY <4>1, MonthsTyped
      <4>3. AssetRow(t) \in AssetRows
        BY <2>2, <4>1 DEF AssetRows, AssetRow
      <4>4. AssetRow(t) # None
        BY <4>3, MonthsTyped
      <4>5. ~reversed[a] => \E m \in Nat : Ordered(AssetRow(t), rows, m)
        <5> SUFFICES ASSUME ~reversed[a] PROVE \E m \in Nat : Ordered(AssetRow(t), rows, m)
          OBVIOUS
        <5>1. PICK n \in Nat : Ordered(row, rows, n)
          BY <4>1, <4>2 DEF InOrder
        <5>2. PICK m : Ordered(AssetRow(t), rows, m)
          BY <2>2, <2>3, <5>1, EditIsOrdered
        <5> QED
          BY <5>2 DEF Ordered
      <4> QED
        BY <2>3, <3>1, <4>1, <4>3, <4>4, <4>5 DEF InOrder
    <3> QED
      BY <2>3, <2>4, <3>1, <3>2, AssetWritten, LastOneEnds DEF AssetInv
  <2>5. CASE a \notin FixedAssets
    <3>1. ~Alone
      BY <2>1, <2>3, <2>5 DEF AssetInv, AssetCallsSound
    <3>2. team' = team /\ seen' = [d \in Conns |-> seen'[d]]
      BY <2>3, LastOneEnds
    <3>3. ~Alone'
      BY <3>1, <3>2 DEF Alone
    <3>4. register' = [b \in FixedAssets |-> register'[b]] /\ runs' = [b \in FixedAssets |-> runs'[b]]
      BY <2>2, <2>3, <2>5 DEF AssetInv
    <3> QED
      BY <2>3, <3>2, <3>3, <3>4 DEF AssetInv
  <2> QED
    BY <2>4, <2>5

<1>6. ASSUME NEW c \in Conns, AssetDispose(c)
      PROVE  AssetInv'
  <2>1. PICK a, row, rows : a = seen[c].id /\ row = seen[c].row /\ rows = seen[c].runs
    OBVIOUS
  <2>2. PICK month \in Months :
            /\ PeriodIndex(row.terms, month) >= 1
            /\ runs' = [runs EXCEPT ![a] = Disposed(@, PeriodIndex(row.terms, month))]
            /\ register' = [register EXCEPT ![a] = [row EXCEPT !.disposed = month]]
    BY <1>6, <2>1 DEF AssetDispose, PutAsset
  <2>3. PICK gone : gone = [row EXCEPT !.disposed = month]
    OBVIOUS
  <2>4. /\ seen[c] # None /\ row.disposed = None /\ Done(c) /\ reversed' = reversed
    BY <1>6, <2>1 DEF AssetDispose, Doing, Idle
  <2>5. CASE a \in FixedAssets
    <3>1. /\ register'[a] = gone /\ register' = [b \in FixedAssets |-> register'[b]]
          /\ runs'[a] = Disposed(runs[a], PeriodIndex(row.terms, month))
          /\ runs' = [b \in FixedAssets |-> runs'[b]]
          /\ \A b \in FixedAssets \ {a} : register'[b] = register[b] /\ runs'[b] = runs[b]
      BY <2>2, <2>3, <2>5 DEF AssetInv
    <3>2. Alone => InOrder(a)'
      <4> SUFFICES ASSUME Alone PROVE InOrder(a)'
        OBVIOUS
      <4>1. row = register[a] /\ row \in AssetRows /\ rows = runs[a] /\ InOrder(a)
        BY <2>1, <2>4, <2>5 DEF AssetInv, AssetCallsSound
      <4>2. row # None
        BY <4>1, MonthsTyped
      <4>3. gone \in AssetRows /\ gone.terms = row.terms /\ gone.disposed = month
        BY <2>3, <4>1 DEF AssetRows
      <4>4. gone # None
        BY <4>3, MonthsTyped
      <4>5. ~reversed[a] => \E m \in Nat : Ordered(gone, Disposed(rows, PeriodIndex(row.terms, month)), m)
        <5> SUFFICES ASSUME ~reversed[a]
                     PROVE  \E m \in Nat : Ordered(gone, Disposed(rows, PeriodIndex(row.terms, month)), m)
          OBVIOUS
        <5>1. PICK n \in Nat : Ordered(row, rows, n)
          BY <4>1, <4>2 DEF InOrder
        <5>2. PICK index : index = PeriodIndex(row.terms, month)
          OBVIOUS
        <5>3. index >= 1
          BY <2>2, <5>2
        <5>4. \E m \in Nat : Ordered(gone, Disposed(rows, index), m)
          BY <2>4, <4>3, <5>1, <5>2, <5>3, DisposalIsOrdered
        <5> QED
          BY <5>2, <5>4
      <4> QED
        BY <2>4, <3>1, <4>1, <4>3, <4>4, <4>5 DEF InOrder
    <3> QED
      BY <2>4, <2>5, <3>1, <3>2, AssetWritten, LastOneEnds DEF AssetInv
  <2>6. CASE a \notin FixedAssets
    <3>1. ~Alone
      BY <2>1, <2>4, <2>6 DEF AssetInv, AssetCallsSound
    <3>2. team' = team /\ seen' = [d \in Conns |-> seen'[d]]
      BY <2>4, LastOneEnds
    <3>3. ~Alone'
      BY <3>1, <3>2 DEF Alone
    <3>4. register' = [b \in FixedAssets |-> register'[b]] /\ runs' = [b \in FixedAssets |-> runs'[b]]
      BY <2>2, <2>4, <2>6 DEF AssetInv
    <3> QED
      BY <2>4, <3>2, <3>3, <3>4 DEF AssetInv
  <2> QED
    BY <2>5, <2>6
<1>7. ASSUME NEW c \in Conns, DepreciationRun(c)
      PROVE  AssetInv'
  <2>1. PICK a, row, rows : a = seen[c].id /\ row = seen[c].row /\ rows = seen[c].runs
    OBVIOUS
  <2>2. PICK month \in Months : \E run :
            /\ run = [period |-> month, index |-> PeriodIndex(row.terms, month), live |-> TRUE,
                      amount |-> DepreciationAmount(row.terms, PeriodIndex(row.terms, month),
                                                    Accumulated(rows))]
            /\ MayRun(row, rows, month) /\ run.amount > 0
            /\ runs' = [runs EXCEPT ![a] = Append(@, run)]
    BY <1>7, <2>1 DEF DepreciationRun
  <2>6. PICK run :
            /\ run = [period |-> month, index |-> PeriodIndex(row.terms, month), live |-> TRUE,
                      amount |-> DepreciationAmount(row.terms, PeriodIndex(row.terms, month),
                                                    Accumulated(rows))]
            /\ MayRun(row, rows, month) /\ run.amount > 0
            /\ runs' = [runs EXCEPT ![a] = Append(@, run)]
    BY <2>2
  <2>3. /\ seen[c] # None /\ Done(c) /\ reversed' = reversed /\ register' = register
    BY <1>7 DEF DepreciationRun, Doing, Idle
  <2>4. CASE a \in FixedAssets
    <3>1. /\ runs'[a] = Append(runs[a], run)
          /\ runs' = [b \in FixedAssets |-> runs'[b]]
          /\ \A b \in FixedAssets \ {a} : runs'[b] = runs[b]
      BY <2>6, <2>4 DEF AssetInv
    <3>2. Alone => InOrder(a)'
      <4> SUFFICES ASSUME Alone PROVE InOrder(a)'
        OBVIOUS
      <4>1. row = register[a] /\ row \in AssetRows /\ rows = runs[a] /\ InOrder(a)
        BY <2>1, <2>3, <2>4 DEF AssetInv, AssetCallsSound
      <4>2. row # None
        BY <4>1, MonthsTyped
      <4>3. ~reversed[a] => \E m \in Nat : Ordered(row, Append(rows, run), m)
        <5> SUFFICES ASSUME ~reversed[a] PROVE \E m \in Nat : Ordered(row, Append(rows, run), m)
          OBVIOUS
        <5>1. PICK n \in Nat : Ordered(row, rows, n)
          BY <4>1, <4>2 DEF InOrder
        <5>2. Ordered(row, Append(rows, run), n + 1)
          BY <2>6, <5>1, RunIsOrdered
        <5> QED
          BY <5>1, <5>2
      <4> QED
        BY <2>3, <3>1, <4>1, <4>2, <4>3 DEF InOrder
    <3> QED
      BY <2>3, <2>4, <3>1, <3>2, AssetWritten, LastOneEnds DEF AssetInv
  <2>5. CASE a \notin FixedAssets
    <3>1. ~Alone
      BY <2>1, <2>3, <2>5 DEF AssetInv, AssetCallsSound
    <3>2. team' = team /\ seen' = [d \in Conns |-> seen'[d]]
      BY <2>3, LastOneEnds
    <3>3. ~Alone'
      BY <3>1, <3>2 DEF Alone
    <3>4. register' = [b \in FixedAssets |-> register'[b]] /\ runs' = [b \in FixedAssets |-> runs'[b]]
      BY <2>6, <2>3, <2>5 DEF AssetInv
    <3> QED
      BY <2>3, <3>2, <3>3, <3>4 DEF AssetInv
  <2> QED
    BY <2>4, <2>5
<1>8. ASSUME NEW c \in Conns, Abandon(c), UNCHANGED assetVars
      PROVE  AssetInv'
  <2>1. /\ register' = register /\ runs' = runs /\ reversed' = reversed /\ seen[c] # None /\ Done(c)
    BY <1>8 DEF assetVars, Abandon, Idle
  <2>2. /\ team' = team /\ seen' = [d \in Conns |-> seen'[d]] /\ Alone' = Alone
        /\ Alone => \A d \in Conns : seen'[d] = None
    BY <2>1, LastOneEnds DEF Alone
  <2>3. \A b \in FixedAssets : InOrder(b)' = InOrder(b)
    BY <2>1 DEF InOrder
  <2> QED
    BY <2>1, <2>2, <2>3 DEF AssetInv, AssetCallsSound
<1>9. CASE AssetsNext
  BY <1>2, <1>3, <1>4, <1>5, <1>6, <1>7, <1>8, <1>9 DEF AssetsNext
<1> QED
  BY <1>1, <1>9

LEMMA AssetsInitially == ConnInit /\ AssetsInit => AssetInv
<1> SUFFICES ASSUME ConnInit, AssetsInit PROVE AssetInv
  OBVIOUS
<1>1. /\ team \in SUBSET Conns /\ seen = [c \in Conns |-> None]
      /\ register = [a \in FixedAssets |-> None] /\ runs = [a \in FixedAssets |-> <<>>]
      /\ reversed = [a \in FixedAssets |-> FALSE]
  BY TeamsAssumption DEF ConnInit, AssetsInit
<1>2. AssetCallsSound /\ \A a \in FixedAssets : InOrder(a)
  BY <1>1 DEF AssetCallsSound, InOrder
<1> QED
  BY <1>1, <1>2 DEF AssetInv

\* With one process and no run reversed by hand, an asset's live runs are its first n
\* periods, none past its disposal, and write it down to its residual value and no further
\* (service.rs: depreciation_run and asset_dispose).
THEOREM AssetsAreWrittenDown == AssetsSpec => []WrittenDownInOrder
<1>1. AssetInv => WrittenDownInOrder
  <2> SUFFICES ASSUME AssetInv, Alone, NEW a \in FixedAssets, register[a] # None, ~reversed[a],
                      NEW t, t = register[a].terms, NEW n, n = LastLive(runs[a]),
                      NEW left, left = t.cost - Accumulated(runs[a])
               PROVE  /\ {runs[a][i].index : i \in LiveRuns(runs[a])} = 1 .. n
                      /\ register[a].disposed # None => n <= PeriodIndex(t, register[a].disposed)
                      /\ t.rate = None => left = t.cost - Target(t, n)
                      /\ left >= t.residual
                      /\ n = t.life => left = t.residual
    BY DEF WrittenDownInOrder
  <2>1. PICK row, rows : row = register[a] /\ rows = runs[a]
    OBVIOUS
  <2>2. PICK m \in Nat : Ordered(row, rows, m)
    BY <2>1 DEF AssetInv, InOrder
  <2>3. /\ {rows[i].index : i \in LiveRuns(rows)} = 1 .. m /\ LastLive(rows) = m
        /\ Accumulated(rows) = Spent(rows, m)
    BY <2>2, LiveIsPrefix
  <2>4. n = m /\ left = t.cost - Spent(rows, m) /\ t = row.terms
    BY <2>1, <2>3
  <2>5. Written(t, rows, m)
    BY <2>2, <2>4 DEF Ordered
  <2>6. t.cost \in Nat /\ t.residual \in Nat
    BY <2>2, <2>4, TermsTyped DEF Ordered, AssetRows
  <2>7. row.disposed # None => m <= PeriodIndex(t, row.disposed)
    BY <2>2, <2>4 DEF Ordered
  <2>8. /\ t.rate = None => left = t.cost - Target(t, n)
        /\ left >= t.residual
        /\ n = t.life => left = t.residual
    BY <2>4, <2>5, <2>6 DEF Written
  <2> QED
    BY <2>1, <2>3, <2>4, <2>7, <2>8
<1> QED
  BY <1>1, AssetsInitially, AssetStep, PTL DEF AssetsSpec

\* A row of asset_depreciation_runs, whoever wrote it and whatever it was computed from.
DepreciationRow ==
    [period : Months, index : Nat \ {0}, live : BOOLEAN, amount : Nat \ {0}]

\* The inductive invariant of the columns: calls hold rows of assets and of runs.
RegisterTyped ==
    /\ \A a \in FixedAssets : /\ register[a] # None => register[a] \in AssetRows
                              /\ runs[a] \in Seq(DepreciationRow)
    /\ \A c \in Conns : seen[c] # None /\ seen[c].job = "asset" =>
        /\ seen[c].id \in FixedAssets
        /\ seen[c].row \in AssetRows
        /\ seen[c].runs \in Seq(DepreciationRow)

\* A finite set of numbers has a largest.
LEMMA LargestIsThere ==
    ASSUME NEW S, IsFiniteSet(S), S \subseteq Int, S # {}
    PROVE  Max(S) \in S /\ \A y \in S : Max(S) >= y
<1> DEFINE Good == {T \in SUBSET S : T # {} => \E x \in T : \A y \in T : x >= y}
<1>1. {} \in Good
  OBVIOUS
<1>2. ASSUME NEW T \in SUBSET S, NEW x \in S, T \in Good, x \notin T
      PROVE  T \cup {x} \in Good
  <2>1. CASE T = {}
    BY <2>1
  <2>2. CASE T # {}
    <3>1. PICK m \in T : \A y \in T : m >= y
      BY <1>2, <2>2
    <3>2. m \in Int /\ x \in Int /\ \A y \in T : y \in Int
      OBVIOUS
    <3>3. CASE m >= x
      BY <3>1, <3>3
    <3>4. CASE ~(m >= x)
      <4>1. x >= m /\ \A y \in T : x >= y
        BY <3>1, <3>2, <3>4
      <4>2. x >= x
        BY <3>2
      <4> QED
        BY <4>1, <4>2
    <3> QED
      BY <3>3, <3>4
  <2> QED
    BY <2>1, <2>2
<1> HIDE DEF Good
<1>3. S \in Good
  BY <1>1, <1>2, FiniteInduction
<1>4. \E x \in S : \A y \in S : x >= y
  BY <1>3 DEF Good
<1> QED
  BY <1>4 DEF Max

LEMMA LiveRunsFinite ==
    ASSUME NEW rows \in Seq(DepreciationRow)
    PROVE  IsFiniteSet(LiveRuns(rows)) /\ LiveRuns(rows) \subseteq 1..Len(rows)
<1>1. Len(rows) \in Nat /\ LiveRuns(rows) \subseteq 1..Len(rows)
  BY DEF LiveRuns
<1>2. IsFiniteSet(1..Len(rows))
  BY <1>1, FS_Interval
<1> QED
  BY <1>1, <1>2, FS_Subset

LEMMA LastLiveTyped ==
    ASSUME NEW rows \in Seq(DepreciationRow)
    PROVE  LastLive(rows) \in Nat
<1> DEFINE L == LiveRuns(rows)
           I == {rows[i].index : i \in L}
           S == {0} \cup I
<1>1. IsFiniteSet(L) /\ L \subseteq 1..Len(rows)
  BY LiveRunsFinite
<1>2. \A i \in 1..Len(rows) : rows[i] \in DepreciationRow
  OBVIOUS
<1>3. I \subseteq Nat
  BY <1>1, <1>2 DEF DepreciationRow
<1>4. IsFiniteSet(I)
  <2> DEFINE g == [i \in L |-> rows[i].index]
  <2>1. g \in Surjection(L, I)
    BY DEF Surjection
  <2> HIDE DEF g, L, I
  <2> QED
    BY <1>1, <2>1, FS_Surjection
<1>5. IsFiniteSet(S)
  <2> HIDE DEF I
  <2>1. IsFiniteSet({0})
    BY FS_Singleton, Zenon
  <2> QED
    BY <1>4, <2>1, FS_Union
<1>6. S \subseteq Int /\ S \subseteq Nat /\ S # {}
  BY <1>3
<1>7. LastLive(rows) = Max(S)
  BY DEF LastLive
<1> HIDE DEF S
<1> QED
  BY <1>5, <1>6, <1>7, LargestIsThere

LEMMA AccumulatedTyped ==
    ASSUME NEW rows \in Seq(DepreciationRow)
    PROVE  Accumulated(rows) \in Int
<1> DEFINE f == [i \in LiveRuns(rows) |-> rows[i].amount]
<1>1. IsFiniteSet(DOMAIN f)
  BY LiveRunsFinite
<1>2. \A i \in DOMAIN f : f[i] \in Int
  <2> SUFFICES ASSUME NEW i \in LiveRuns(rows) PROVE rows[i].amount \in Int
    OBVIOUS
  <2>1. i \in 1..Len(rows)
    BY LiveRunsFinite
  <2>2. rows[i] \in DepreciationRow
    BY <2>1
  <2> QED
    BY <2>2 DEF DepreciationRow
<1>3. Accumulated(rows) = Total(f)
  BY DEF Accumulated
<1> HIDE DEF f
<1> QED
  BY <1>1, <1>2, <1>3, TotalInt

\* What a period writes off is a number, whatever was written off before it.
LEMMA AmountTyped ==
    ASSUME NEW t \in Terms, NEW n \in Nat, n > 0, NEW done \in Int
    PROVE  DepreciationAmount(t, n, done) \in Int
<1>1. /\ t.cost \in Nat /\ t.residual \in Nat
      /\ t.rate # None => t.rate \in Nat
  BY TermsTyped
<1>2. n - 1 \in Nat /\ Target(t, n) \in Int /\ Target(t, n - 1) \in Int
  <2>1. n - 1 \in Nat
    OBVIOUS
  <2> QED
    BY <2>1, LineBounded
<1> DEFINE opening == t.cost - done
           headroom == opening - t.residual
           raw == (opening * t.rate) \div BasisPoints
<1>3. opening \in Int /\ headroom \in Int
  <2>1. \A a, b, r \in Int : a - b \in Int /\ a - b - r \in Int
    OBVIOUS
  <2>2. t.cost \in Int /\ t.residual \in Int
    BY <1>1
  <2> QED
    BY <2>1, <2>2
<1>4. t.rate # None => raw \in Int
  <2> SUFFICES ASSUME t.rate # None PROVE raw \in Int
    OBVIOUS
  <2>1. opening * t.rate \in Int
    <3>1. \A a, b \in Int : a * b \in Int
      OBVIOUS
    <3>2. t.rate \in Int
      BY <1>1
    <3> HIDE DEF opening
    <3> QED
      BY <1>3, <3>1, <3>2
  <2> HIDE DEF opening
  <2> QED
    BY <2>1 DEF BasisPoints
<1>5. DepreciationAmount(t, n, done) =
        CASE t.rate = None -> Target(t, n) - Target(t, n - 1)
          [] t.rate # None /\ headroom <= 0 -> 0
          [] t.rate # None /\ headroom > 0 /\ n >= t.life -> headroom
          [] OTHER -> IF raw < headroom THEN raw ELSE headroom
  BY DEF DepreciationAmount
<1> HIDE DEF opening, headroom, raw
<1> QED
  BY <1>2, <1>3, <1>4, <1>5

LEMMA DisposedTyped ==
    ASSUME NEW rows \in Seq(DepreciationRow), NEW n
    PROVE  Disposed(rows, n) \in Seq(DepreciationRow)
<1>1. Len(rows) \in Nat /\ DOMAIN rows = 1..Len(rows)
  OBVIOUS
<1>2. ASSUME NEW i \in 1..Len(rows)
      PROVE  [rows[i] EXCEPT !.live = @ /\ rows[i].index <= n] \in DepreciationRow
  <2>1. rows[i] \in DepreciationRow
    OBVIOUS
  <2>2. \A v \in BOOLEAN : [rows[i] EXCEPT !.live = v] \in DepreciationRow
    BY <2>1 DEF DepreciationRow
  <2>3. (rows[i].live /\ rows[i].index <= n) \in BOOLEAN
    OBVIOUS
  <2> QED
    BY <2>2, <2>3
<1>3. Disposed(rows, n) \in [1..Len(rows) -> DepreciationRow]
  BY <1>1, <1>2 DEF Disposed
<1> QED
  BY <1>1, <1>3

\* Adding a run computed from rows that were read to those there are now.
LEMMA RunTypedOnce ==
    ASSUME NEW row \in AssetRows, NEW rows \in Seq(DepreciationRow), NEW month \in Months,
           MayRun(row, rows, month),
           NEW run, run = [period |-> month, index |-> PeriodIndex(row.terms, month), live |-> TRUE,
                           amount |-> DepreciationAmount(row.terms, PeriodIndex(row.terms, month),
                                                         Accumulated(rows))],
           run.amount > 0
    PROVE  run \in DepreciationRow
<1> DEFINE n == PeriodIndex(row.terms, month)
           amount == DepreciationAmount(row.terms, n, Accumulated(rows))
<1>1. LastLive(rows) \in Nat /\ n = LastLive(rows) + 1
  BY LastLiveTyped DEF MayRun
<1>2. n \in Nat /\ n > 0
  BY <1>1
<1>3. row.terms \in Terms /\ Accumulated(rows) \in Int
  BY AccumulatedTyped DEF AssetRows
<1>4. amount \in Int
  <2> HIDE DEF n
  <2> QED
    BY <1>2, <1>3, AmountTyped
<1>5. run = [period |-> month, index |-> n, live |-> TRUE, amount |-> amount]
  OBVIOUS
<1> HIDE DEF n, amount
<1>6. amount > 0
  BY <1>5
<1>7. amount \in Nat \ {0} /\ n \in Nat \ {0}
  BY <1>2, <1>4, <1>6
<1> QED
  BY <1>5, <1>7 DEF DepreciationRow

\* A step that writes one asset's row and runs, and ends the call it is of, or is of none.
LEMMA RegisterWritten ==
    ASSUME AssetInv, RegisterTyped, NEW a \in FixedAssets,
           \A b \in FixedAssets \ {a} : register'[b] = register[b] /\ runs'[b] = runs[b],
           register'[a] # None => register'[a] \in AssetRows,
           runs'[a] \in Seq(DepreciationRow),
           seen' = seen \/ \E c \in Conns : Done(c)
    PROVE  RegisterTyped'
<1>1. ASSUME NEW b \in FixedAssets
      PROVE  /\ register'[b] # None => register'[b] \in AssetRows
             /\ runs'[b] \in Seq(DepreciationRow)
  BY DEF RegisterTyped
<1>2. ASSUME NEW d \in Conns, seen'[d] # None
      PROVE  seen'[d] = seen[d]
  BY <1>2 DEF Done, Keep, AssetInv
<1> QED
  BY <1>1, <1>2 DEF RegisterTyped

LEMMA RegisterInitially == ConnInit /\ AssetsInit => RegisterTyped
<1>1. <<>> \in Seq(DepreciationRow)
  BY EmptySeq
<1> QED
  BY <1>1 DEF ConnInit, AssetsInit, RegisterTyped

LEMMA RegisterStep ==
    AssetInv /\ RegisterTyped /\ [AssetsNext]_<<connVars, assetVars>> => RegisterTyped'
<1> SUFFICES ASSUME AssetInv, RegisterTyped, [AssetsNext]_<<connVars, assetVars>>
             PROVE  RegisterTyped'
  OBVIOUS
<1>1. CASE UNCHANGED <<connVars, assetVars>>
  BY <1>1 DEF connVars, assetVars, RegisterTyped
<1>2. ASSUME NEW a \in FixedAssets, AssetCreate(a) PROVE RegisterTyped'
  <2>1. PICK t \in Terms : register' = [register EXCEPT ![a] = AssetRow(t)]
    BY <1>2 DEF AssetCreate
  <2>2. AssetRow(t) \in AssetRows
    BY DEF AssetRow, AssetRows
  <2>3. UNCHANGED <<seen, runs>>
    BY <1>2 DEF AssetCreate, connVars
  <2>4. register'[a] = AssetRow(t) /\ \A b \in FixedAssets \ {a} : register'[b] = register[b]
    BY <2>1 DEF AssetInv
  <2> QED
    BY <2>2, <2>3, <2>4, RegisterWritten DEF RegisterTyped
<1>3. ASSUME NEW a \in FixedAssets, NEW i \in DOMAIN runs[a], JournalReversed(a, i)
      PROVE  RegisterTyped'
  <2>1. /\ runs' = [runs EXCEPT ![a][i].live = ~@] /\ UNCHANGED <<seen, register>>
    BY <1>3 DEF JournalReversed, connVars
  <2>2. runs[a] \in Seq(DepreciationRow)
    BY DEF RegisterTyped
  <2>3. PICK rows : rows = runs[a]
    OBVIOUS
  <2>4. /\ rows \in Seq(DepreciationRow) /\ i \in 1..Len(rows) /\ rows[i] \in DepreciationRow
    BY <2>2, <2>3
  <2>5. [rows[i] EXCEPT !.live = ~rows[i].live] \in DepreciationRow
    BY <2>4 DEF DepreciationRow
  <2>6. [rows EXCEPT ![i] = [rows[i] EXCEPT !.live = ~rows[i].live]] \in Seq(DepreciationRow)
    BY <2>4, <2>5
  <2>7. /\ runs'[a] = [rows EXCEPT ![i] = [rows[i] EXCEPT !.live = ~rows[i].live]]
        /\ \A b \in FixedAssets \ {a} : runs'[b] = runs[b]
    BY <2>1, <2>3 DEF AssetInv
  <2> QED
    BY <2>1, <2>6, <2>7, RegisterWritten DEF RegisterTyped
<1>4. ASSUME NEW c \in Conns, NEW a \in FixedAssets, AssetGet(c, a) PROVE RegisterTyped'
  <2>1. PICK call : call = [job |-> "asset", id |-> a, row |-> register[a], runs |-> runs[a]]
    OBVIOUS
  <2>2. call.id = a /\ call.row = register[a] /\ call.runs = runs[a]
    BY <2>1
  <2>3. /\ seen' = [seen EXCEPT ![c] = call] /\ UNCHANGED <<register, runs>> /\ register[a] # None
    BY <1>4, <2>1 DEF AssetGet, Read, assetVars
  <2>4. seen'[c] = call /\ \A d \in Conns : d # c => seen'[d] = seen[d]
    BY <2>3 DEF AssetInv
  <2>5. register[a] \in AssetRows /\ runs[a] \in Seq(DepreciationRow)
    BY <2>3 DEF RegisterTyped
  <2>6. ASSUME NEW d \in Conns, seen'[d] # None, seen'[d].job = "asset"
        PROVE  /\ seen'[d].id \in FixedAssets /\ seen'[d].row \in AssetRows
               /\ seen'[d].runs \in Seq(DepreciationRow)
    <3>1. CASE d = c
      BY <2>2, <2>4, <2>5, <3>1
    <3>2. CASE d # c
      BY <2>4, <2>6, <3>2 DEF RegisterTyped
    <3> QED
      BY <3>1, <3>2
  <2> QED
    BY <2>3, <2>6 DEF RegisterTyped
<1>5. ASSUME NEW c \in Conns, AssetUpdate(c) \/ AssetDispose(c) \/ DepreciationRun(c)
      PROVE  RegisterTyped'
  <2>1. PICK a, row, rows : a = seen[c].id /\ row = seen[c].row /\ rows = seen[c].runs
    OBVIOUS
  <2>2. a \in FixedAssets /\ row \in AssetRows /\ rows \in Seq(DepreciationRow) /\ Done(c)
    BY <1>5, <2>1 DEF AssetUpdate, AssetDispose, DepreciationRun, Doing, Idle, RegisterTyped
  <2>3. CASE AssetUpdate(c)
    <3>1. PICK t \in IF rows = <<>> THEN Terms ELSE {row.terms} :
            register' = [register EXCEPT ![a] = AssetRow(t)]
      BY <2>1, <2>3 DEF AssetUpdate, PutAsset
    <3>2. AssetRow(t) \in AssetRows
      BY <2>2, <3>1 DEF AssetRow, AssetRows
    <3>3. /\ runs' = runs /\ register'[a] = AssetRow(t)
          /\ \A b \in FixedAssets \ {a} : register'[b] = register[b]
      BY <2>2, <2>3, <3>1 DEF AssetUpdate, AssetInv
    <3> QED
      BY <2>2, <3>2, <3>3, RegisterWritten DEF RegisterTyped
  <2>4. CASE AssetDispose(c)
    <3>1. PICK month \in Months :
            /\ runs' = [runs EXCEPT ![a] = Disposed(@, PeriodIndex(row.terms, month))]
            /\ register' = [register EXCEPT ![a] = [row EXCEPT !.disposed = month]]
      BY <2>1, <2>4 DEF AssetDispose, PutAsset
    <3>2. [row EXCEPT !.disposed = month] \in AssetRows
      BY <2>2 DEF AssetRows
    <3>3. Disposed(runs[a], PeriodIndex(row.terms, month)) \in Seq(DepreciationRow)
      BY <2>2, DisposedTyped DEF RegisterTyped
    <3>4. /\ register'[a] = [row EXCEPT !.disposed = month]
          /\ runs'[a] = Disposed(runs[a], PeriodIndex(row.terms, month))
          /\ \A b \in FixedAssets \ {a} : register'[b] = register[b] /\ runs'[b] = runs[b]
      BY <2>2, <3>1 DEF AssetInv
    <3> QED
      BY <2>2, <3>2, <3>3, <3>4, RegisterWritten
  <2>5. CASE DepreciationRun(c)
    <3>1. PICK month \in Months : \E run :
            /\ run = [period |-> month, index |-> PeriodIndex(row.terms, month), live |-> TRUE,
                      amount |-> DepreciationAmount(row.terms, PeriodIndex(row.terms, month),
                                                    Accumulated(rows))]
            /\ MayRun(row, rows, month) /\ run.amount > 0
            /\ runs' = [runs EXCEPT ![a] = Append(@, run)]
      BY <2>1, <2>5 DEF DepreciationRun
    <3>2. PICK run :
            /\ run = [period |-> month, index |-> PeriodIndex(row.terms, month), live |-> TRUE,
                      amount |-> DepreciationAmount(row.terms, PeriodIndex(row.terms, month),
                                                    Accumulated(rows))]
            /\ MayRun(row, rows, month) /\ run.amount > 0
            /\ runs' = [runs EXCEPT ![a] = Append(@, run)]
      BY <3>1
    <3>3. run \in DepreciationRow
      BY <2>2, <3>2, RunTypedOnce
    <3>4. Append(runs[a], run) \in Seq(DepreciationRow)
      BY <2>2, <3>3 DEF RegisterTyped
    <3>5. /\ register' = register /\ runs'[a] = Append(runs[a], run)
          /\ \A b \in FixedAssets \ {a} : runs'[b] = runs[b]
      BY <2>2, <2>5, <3>2 DEF DepreciationRun, AssetInv
    <3> QED
      BY <2>2, <3>4, <3>5, RegisterWritten DEF RegisterTyped
  <2> QED
    BY <1>5, <2>3, <2>4, <2>5
<1>6. ASSUME NEW c \in Conns, Abandon(c), UNCHANGED assetVars PROVE RegisterTyped'
  BY <1>6 DEF Abandon, Done, Keep, assetVars, AssetInv, RegisterTyped
<1> QED
  BY <1>1, <1>2, <1>3, <1>4, <1>5, <1>6 DEF AssetsNext

LEMMA AssetsTypes == AssetInv /\ RegisterTyped => AssetsTypeOK
<1> SUFFICES ASSUME AssetInv, RegisterTyped PROVE AssetsTypeOK
  OBVIOUS
<1>1. ASSUME NEW a \in FixedAssets, register[a] # None
      PROVE  register[a].terms \in Terms /\ register[a].disposed \in Months \cup {None}
  BY <1>1 DEF RegisterTyped, AssetRows
<1>2. ASSUME NEW a \in FixedAssets, NEW i \in DOMAIN runs[a]
      PROVE  /\ runs[a][i].period \in Months /\ runs[a][i].index \in Nat \ {0}
             /\ runs[a][i].amount \in Nat \ {0} /\ runs[a][i].live \in BOOLEAN
  <2>1. runs[a] \in Seq(DepreciationRow)
    BY DEF RegisterTyped
  <2>2. runs[a][i] \in DepreciationRow
    BY <2>1
  <2> QED
    BY <2>2 DEF DepreciationRow
<1> QED
  BY <1>1, <1>2 DEF AssetsTypeOK, AssetInv

(***************************************************************************)
(* The parts of the office together: a behaviour is about one of them,     *)
(* whose calls `seen` then holds, and the others stand still.              *)
(***************************************************************************)
\* The inductive invariant: what a part's own invariant says while the calls are its own.
OfficeInv ==
    /\ focus = "schedules" => OnceInv /\ RowsTyped
    /\ focus = "purchases" => ReceiptInv /\ GoodsInv /\ OrdersTyped
    /\ focus = "matches" => ReconInv
    /\ focus = "assets" => AssetInv /\ RegisterTyped
    /\ OfficeTypeOK

LEMMA OfficeInitially == OfficeInit => OfficeInv
<1> SUFFICES ASSUME OfficeInit PROVE OfficeInv
  OBVIOUS
<1>1. ConnInit /\ RecurringInit /\ PurchasingInit /\ ReconInit /\ AssetsInit
  BY DEF OfficeInit
<1>2. OnceInv /\ RowsTyped
  BY <1>1, OnceInitially, RowsInitially
<1>3. ReceiptInv /\ GoodsInv /\ OrdersTyped
  BY <1>1, ReceiptsInitially, GoodsInitially, OrdersInitially
<1>4. ReconInv /\ ReconTypeOK
  BY <1>1, ReconInitially, ReconInitiallyTyped
<1>5. AssetInv /\ RegisterTyped
  BY <1>1, AssetsInitially, RegisterInitially
<1> QED
  BY <1>2, <1>3, <1>4, <1>5, RecurringTypes, PurchasingTypes, AssetsTypes
  DEF OfficeInv, OfficeTypeOK

\* A part that stands still keeps what its tables hold.
LEMMA StandsStill ==
    /\ RecurringTypeOK /\ UNCHANGED recurringVars => RecurringTypeOK'
    /\ PurchasingTypeOK /\ UNCHANGED purchasingVars => PurchasingTypeOK'
    /\ ReconTypeOK /\ UNCHANGED reconVars => ReconTypeOK'
    /\ AssetsTypeOK /\ UNCHANGED assetVars => AssetsTypeOK'
<1>1. RecurringTypeOK /\ UNCHANGED recurringVars => RecurringTypeOK'
  BY DEF RecurringTypeOK, recurringVars
<1>2. PurchasingTypeOK /\ UNCHANGED purchasingVars => PurchasingTypeOK'
  BY DEF PurchasingTypeOK, purchasingVars
<1>3. ReconTypeOK /\ UNCHANGED reconVars => ReconTypeOK'
  BY DEF ReconTypeOK, reconVars, MatchIds
<1>4. AssetsTypeOK /\ UNCHANGED assetVars => AssetsTypeOK'
  BY DEF AssetsTypeOK, assetVars
<1> QED
  BY <1>1, <1>2, <1>3, <1>4

LEMMA OfficeStep == OfficeInv /\ [OfficeNext]_officeVars => OfficeInv'
<1> SUFFICES ASSUME OfficeInv, [OfficeNext]_officeVars PROVE OfficeInv'
  OBVIOUS
<1>1. focus' = focus
  BY DEF OfficeNext, officeVars
<1>2. /\ focus = "schedules" => [RecurringNext]_<<connVars, recurringVars>>
      /\ focus = "purchases" => [PurchasingNext]_<<connVars, purchasingVars>>
      /\ focus = "matches" => [ReconNext]_<<connVars, reconVars>>
      /\ focus = "assets" => [AssetsNext]_<<connVars, assetVars>>
  BY DEF OfficeNext, officeVars, SchedulesNext, PurchasesNext, MatchesNext, FixedAssetsNext,
         HouseholdNext, CommunityNext, SnapshotsNext, DeskNext
<1>3. /\ focus # "schedules" => UNCHANGED recurringVars
      /\ focus # "purchases" => UNCHANGED purchasingVars
      /\ focus # "matches" => UNCHANGED reconVars
      /\ focus # "assets" => UNCHANGED assetVars
  BY DEF OfficeNext, officeVars
<1>4. focus = "schedules" => (OnceInv /\ RowsTyped)'
  BY <1>2, OnceStep, RowsStep DEF OfficeInv
<1>5. focus = "purchases" => (ReceiptInv /\ GoodsInv /\ OrdersTyped)'
  BY <1>2, ReceiptStep, GoodsStep, OrdersStep DEF OfficeInv
<1>6. focus = "matches" => ReconInv' /\ ReconTypeOK'
  BY <1>2, ReconStep, MatchesStep DEF OfficeInv, OfficeTypeOK
<1>7. focus = "assets" => (AssetInv /\ RegisterTyped)'
  BY <1>2, AssetStep, RegisterStep DEF OfficeInv
<1>8. RecurringTypeOK'
  <2>1. OnceInv' /\ RowsTyped' => RecurringTypeOK'
    BY RecurringTypes, PTL
  <2> QED
    BY <1>3, <1>4, <2>1, StandsStill DEF OfficeInv, OfficeTypeOK
<1>9. PurchasingTypeOK'
  <2>1. ReceiptInv' /\ GoodsInv' /\ OrdersTyped' => PurchasingTypeOK'
    BY PurchasingTypes, PTL
  <2> QED
    BY <1>3, <1>5, <2>1, StandsStill DEF OfficeInv, OfficeTypeOK
<1>10. ReconTypeOK'
  BY <1>3, <1>6, StandsStill DEF OfficeInv, OfficeTypeOK
<1>11. AssetsTypeOK'
  <2>1. AssetInv' /\ RegisterTyped' => AssetsTypeOK'
    BY AssetsTypes, PTL
  <2> QED
    BY <1>3, <1>7, <2>1, StandsStill DEF OfficeInv, OfficeTypeOK
<1> QED
  BY <1>1, <1>4, <1>5, <1>6, <1>7, <1>8, <1>9, <1>10, <1>11 DEF OfficeInv, OfficeTypeOK

\* Whatever an office does with its schedules, orders, matches and assets, by however many
\* processes and from whatever rows they read before, its tables hold what their columns
\* allow: a schedule's next occurrence is a date of the calendar, an order's totals are no
\* less than nothing, a depreciation is of a period and of more than nothing (0001_init.sql
\* and its successors).
THEOREM OfficeTyped == OfficeSpec => []OfficeTypeOK
<1>1. OfficeInv => OfficeTypeOK
  BY DEF OfficeInv
<1> QED
  BY <1>1, OfficeInitially, OfficeStep, PTL DEF OfficeSpec
=============================================================================
