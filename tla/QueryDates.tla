----------------------------- MODULE QueryDates -----------------------------
(***************************************************************************)
(* The dates of a query: a value that is a year, a month or a day, or that *)
(* counts back from today, as the half-open range of days it stands for,   *)
(* and the stored value it is compared with (internal/query/dates.go,      *)
(* internal/repo/resolved_values.go, query_compile.go).                    *)
(*                                                                         *)
(* A date is <<year>>, <<year, month>> or <<year, month, day>>, in one     *)
(* zone; an instant is its day.                                            *)
(***************************************************************************)
EXTENDS Integers, Sequences

CONSTANTS
    Condition,      \* conditions as they are parsed: [op, from, to] or [op, count, unit]
    Seen,       \* dates videos have, as the file or a provider wrote them
    FirstDay, LastDay  \* bound: the days that pass

DatesAssumption == Len(FirstDay) = 3 /\ Len(LastDay) = 3

VARIABLES cond, seen, today
vars == <<cond, seen, today>>

Open == <<>>    \* a bound that is not there

(* The order of the texts, which is that of the days.                      *)
Before(a, b) ==
    \E i \in 1 .. Len(a) : i <= Len(b) /\ a[i] < b[i] /\ \A j \in 1 .. i - 1 : a[j] = b[j]

daysIn(y, m) ==
    CASE m = 2 -> IF y % 4 = 0 /\ (y % 100 # 0 \/ y % 400 = 0) THEN 29 ELSE 28
      [] m \in {4, 6, 9, 11} -> 30
      [] OTHER -> 31
NextDay(d) ==
    IF d[3] < daysIn(d[1], d[2]) THEN [d EXCEPT ![3] = @ + 1]
    ELSE IF d[2] < 12 THEN <<d[1], d[2] + 1, 1>> ELSE <<d[1] + 1, 1, 1>>
LastOfMonthBefore(d) == IF d[2] > 1 THEN <<d[1], d[2] - 1, daysIn(d[1], d[2] - 1)>> ELSE <<d[1] - 1, 12, 31>>
RECURSIVE DaysBefore(_, _)
DaysBefore(d, n) ==
    IF n < d[3] THEN [d EXCEPT ![3] = @ - n] ELSE DaysBefore(LastOfMonthBefore(d), n - d[3])

(* Mutant: Go's AddDate, a day past the month's end going into the next.   *)
addNormalised(t, months) ==
    LET k == 12 * t[1] + t[2] - 1 + months
        y == k \div 12
        m == (k % 12) + 1
    IN  IF t[3] <= daysIn(y, m) THEN <<y, m, t[3]>> ELSE <<y, m + 1, t[3] - daysIn(y, m)>>
addClamped(t, months) ==
    LET k == 12 * t[1] + t[2] - 1 + months
        y == k \div 12
        m == (k % 12) + 1
    IN  <<y, m, IF t[3] <= daysIn(y, m) THEN t[3] ELSE daysIn(y, m)>>

start(d) == CASE Len(d) = 1 -> <<d[1], 1, 1>> [] Len(d) = 2 -> <<d[1], d[2], 1>> [] OTHER -> d
end(d) == CASE Len(d) = 1 -> <<d[1] + 1, 1, 1>> [] Len(d) = 2 -> addClamped(start(d), 1) [] OTHER -> NextDay(d)

Relative(c) == "unit" \in DOMAIN c
Cut(c, now) ==
    CASE c.unit = "d" -> DaysBefore(now, c.count)
      [] c.unit = "w" -> DaysBefore(now, 7 * c.count)
      [] c.unit = "mo" -> addClamped(now, -c.count)
      [] c.unit = "y" -> addClamped(now, -12 * c.count)

(* `<=` is read as `<`, and `>=` as `>`, when it counts from today.        *)
Bounds(c, now) ==
    IF Relative(c)
    THEN IF c.op \in {"<", "<="} THEN <<Cut(c, now), Open>> ELSE <<Open, Cut(c, now)>>
    ELSE CASE c.op = "<" -> <<Open, start(c.from)>>
           [] c.op = "<=" -> <<Open, end(c.from)>>
           [] c.op = ">" -> <<end(c.from), Open>>
           [] c.op = ">=" -> <<start(c.from), Open>>
           [] OTHER -> <<start(c.from), end(c.to)>>

(* What the index holds of a value: a day.                                 *)
NormValue(raw) == start(raw)

instantClause(c, now, raw) ==
    LET b == Bounds(c, now)
    IN  (b[1] # Open => ~Before(NormValue(raw), b[1])) /\ (b[2] # Open => Before(NormValue(raw), b[2]))

-----------------------------------------------------------------------------
Init == cond \in Condition /\ seen \in Seen /\ today = FirstDay

DayPasses == Before(today, LastDay) /\ today' = NextDay(today) /\ UNCHANGED <<cond, seen>>

Spec == Init /\ [][DayPasses]_vars

-----------------------------------------------------------------------------
(* An absolute condition holds of exactly the days its text says, a year   *)
(* or a month standing for all of it, whatever day the index has for the   *)
(* value; what a value was written as always finds it.                     *)
Cmp(op, d, text) ==
    LET part == SubSeq(d, 1, Len(text))
    IN  CASE op = "<" -> Before(part, text) [] op = "<=" -> ~Before(text, part)
          [] op = ">" -> Before(text, part) [] op = ">=" -> ~Before(part, text) [] OTHER -> part = text
PeriodsWhole ==
    ~Relative(cond) =>
        /\ instantClause(cond, today, today) =
              IF cond.op = ".." THEN Cmp(">=", today, cond.from) /\ Cmp("<=", today, cond.to) ELSE Cmp(cond.op, today, cond.from)
        /\ instantClause([op |-> "=", from |-> seen, to |-> seen], today, seen)

(* As days pass a video leaves "the last n" and never comes back to it, on *)
(* no day of any month (RD12).                                             *)
LeavesOnce ==
    [][Relative(cond) /\ cond.op \in {"<", "<="} =>
        (instantClause(cond, today', seen) => instantClause(cond, today, seen) \/ Before(today, NormValue(seen)))]_vars
==============================================================================
