------------------------------ MODULE Recurrence ------------------------------
(***************************************************************************)
(* When a recurring schedule is due: dates as <<year, month, day>>.        *)
(***************************************************************************)
EXTENDS Integers

Leap(y) == y % 4 = 0 /\ (y % 100 # 0 \/ y % 400 = 0)

MonthLength(y, m) ==
    CASE m = 2 -> IF Leap(y) THEN 29 ELSE 28
      [] m \in {4, 6, 9, 11} -> 30
      [] OTHER -> 31

CalendarDates ==
    {d \in Nat \X (1..12) \X (1..31) : d[3] <= MonthLength(d[1], d[2])}

\* The order of ISO dates as strings.
Before(d, e) ==
    \/ d[1] < e[1]
    \/ d[1] = e[1] /\ d[2] < e[2]
    \/ d[1] = e[1] /\ d[2] = e[2] /\ d[3] < e[3]

NotAfter(d, e) == d = e \/ Before(d, e)

NextDay(d) ==
    IF d[3] < MonthLength(d[1], d[2]) THEN <<d[1], d[2], d[3] + 1>>
    ELSE IF d[2] < 12 THEN <<d[1], d[2] + 1, 1>>
    ELSE <<d[1] + 1, 1, 1>>

AddDays(d, n) ==
    LET after[i \in 0..n] == IF i = 0 THEN d ELSE NextDay(after[i - 1])
    IN  after[n]

\* Months are counted from the start, and the start's day is kept wherever the
\* month is long enough.
MonthIndex(d) == d[1] * 12 + (d[2] - 1)

\* Mutation of Clamped: a start on the 31st comes on the 31st of every month.
Unclamped(k, day) == <<k \div 12, (k % 12) + 1, day>>

Clamped(k, day) ==
    LET y == k \div 12
        m == (k % 12) + 1
        last == MonthLength(y, m)
    IN  <<y, m, IF day < last THEN day ELSE last>>

AddMonths(d, n) == Clamped(MonthIndex(d) + n, d[3])

\* rule: the unit a schedule recurs by and how many of them; index from 0.
OccurrenceDate(start, rule, index) ==
    LET n == rule.every * index IN
    CASE rule.unit = "daily"   -> AddDays(start, n)
      [] rule.unit = "weekly"  -> AddDays(start, n * 7)
      [] rule.unit = "monthly" -> AddMonths(start, n)
      [] rule.unit = "yearly"  -> AddMonths(start, n * 12)
=============================================================================
