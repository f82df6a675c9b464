--------------------------- MODULE TimerExpressions ---------------------------
(***************************************************************************)
(* The dates of timer start events: src/timers/expressions.ts, and the     *)
(* part of src/triggers/timer/timer-trigger.ts that asks it for dates.     *)
(*                                                                         *)
(* Expressions are parsed: what is modelled is which date follows from     *)
(* one.  An instant is a number of seconds since Monday, 1 January 2001,   *)
(* UTC.  The length of an hour and of a day are parameters, for nothing    *)
(* but the number of instants depends on them; months and years are those  *)
(* of the calendar.                                                        *)
(***************************************************************************)
EXTENDS FiniteSetsExt, SequencesExt, Integers

CONSTANTS
  HoursPerDay, MinutesPerHour, SecondsPerMinute,
  MaxPeriods,   (* How many periods of a rule are searched: 1500.          *)
  CronYears,    (* How many years a cron expression is searched: 2.        *)
  Absent,       (* `null', `undefined'.                                    *)
  Throws,       (* What a call gives that throws.                          *)
  Expressions,  (* The parsed timer expressions,                           *)
  FirstAsked,   (* when a definition with one of them may be deployed,     *)
  Delays,       (* how late the scheduler may be,                          *)
  MaxFires,     (* how often it fires,                                     *)
  MaxDeploys,   (* and how often the definition is deployed.               *)
  Horizon       (* How many days after DTSTART the dates are compared.     *)

ASSUME CalendarAssumption ==
  /\ {HoursPerDay, MinutesPerHour, SecondsPerMinute, MaxPeriods, CronYears} \subseteq Nat \ {0}
  /\ FirstAsked \cup Delays \subseteq Nat /\ Horizon \in Nat
  /\ Absent \notin Int /\ Throws \notin Int /\ Absent # Throws

Durations == [years : Nat, months : Nat, days : Nat, hours : Nat, minutes : Nat, seconds : Nat]

(* What parsing gives, from 2001 on; an interval of no periods is none.    *)
ASSUME ExpressionsAssumption ==
  \A e \in Expressions :
    /\ e.kind \in {"date", "duration", "cycle", "cron", "rrule"}
    /\ e.kind = "date" => e.date \in Nat
    /\ e.kind \in {"duration", "cycle"} => e.duration \in Durations
    /\ e.kind = "cycle" => e.repetitions \in Nat \cup {Absent}
    /\ e.kind = "rrule" =>
         LET Given(key, S) == key \in DOMAIN e.rrule => e.rrule[key] \in S
         IN  /\ e.dtstart \in Nat
             /\ e.rrule.FREQ \in {"DAILY", "WEEKLY", "MONTHLY", "YEARLY"}
             /\ Given("INTERVAL", Nat \ {0})
             /\ Given("BYMONTHDAY", SUBSET Int) /\ Given("BYMONTH", Seq(1..12))
             /\ Given("BYSETPOS", SUBSET Int)
             /\ Given("COUNT", Nat) /\ Given("UNTIL", Int)

------------------------------------------------------------------------------
(* The calendar, as Date has it.  A month is counted from January of the   *)
(* year 0, so that those that overflow a year carry; a day that overflows  *)
(* its month carries too.                                                  *)

Hour == MinutesPerHour * SecondsPerMinute
Day == HoursPerDay * Hour

IsLeap(y) == y % 4 = 0 /\ (y % 100 # 0 \/ y % 400 = 0)

MonthIndex(y, m) == 12 * y + m - 1

(* The day on which a month begins.                                        *)
FirstOfMonth(mi) ==
  LET y == mi \div 12
      before == <<0, 31, 59, 90, 120, 151, 181, 212, 243, 273, 304, 334>>
  IN  365 * (y - 2001) + (y - 2001) \div 4 - (y - 2001) \div 100 + (y - 2001) \div 400
      + before[(mi % 12) + 1] + (IF IsLeap(y) /\ (mi % 12) >= 2 THEN 1 ELSE 0)

DaysInMonth(mi) == FirstOfMonth(mi + 1) - FirstOfMonth(mi)

DayOf(mi, d) == FirstOfMonth(mi) + d - 1

MonthOf(day) ==
  CHOOSE mi \in (24012 + (day \div 31) - 1)..(24012 + (day \div 30) + 1) :
    FirstOfMonth(mi) <= day /\ day < FirstOfMonth(mi + 1)

DayOfMonth(day) == day - FirstOfMonth(MonthOf(day)) + 1
YearOf(day) == MonthOf(day) \div 12
Weekday(day) == (day + 1) % 7     (* 0 is Sunday.                          *)

DayNo(t) == t \div Day
TimeOf(t) == t % Day
At(day, time) == day * Day + time

------------------------------------------------------------------------------
(* Durations and cron.                                                     *)

(* Years and months first, each carrying what the month does not have:     *)
(* 31 January plus a month is 3 March.                                     *)
PlusMonths(day, n) == DayOf(MonthOf(day) + n, DayOfMonth(day))

AddDuration(base, dur) ==
  LET day == PlusMonths(PlusMonths(DayNo(base), 12 * dur.years), dur.months)
  IN  At(day + dur.days, TimeOf(base))
      + dur.hours * Hour + dur.minutes * SecondsPerMinute + dur.seconds

(* A field is Absent for a star, or a set of parts: [step] for a star with *)
(* a step, [lo, hi, step], or [value], whose step the code drops.          *)
PartValues(part, min, max) ==
  IF "value" \in DOMAIN part THEN {part.value}
  ELSE LET lo == IF "lo" \in DOMAIN part THEN part.lo ELSE min
           hi == IF "hi" \in DOMAIN part THEN part.hi ELSE max
       IN  { i \in lo..hi : (i - lo) % part.step = 0 }

ParseCronField(field, min, max) ==
  IF field = Absent THEN Absent ELSE UNION { PartValues(p, min, max) : p \in field }

ParseCron(c) ==
  [minute     |-> ParseCronField(c.minute, 0, MinutesPerHour - 1),
   hour       |-> ParseCronField(c.hour, 0, HoursPerDay - 1),
   dayOfMonth |-> ParseCronField(c.dayOfMonth, 1, 31),
   month      |-> ParseCronField(c.month, 1, 12),
   dayOfWeek  |-> ParseCronField(c.dayOfWeek, 0, 6)]

FieldMatches(values, v) == values = Absent \/ v \in values

DayMatches(cron, day) ==
  /\ FieldMatches(cron.month, (MonthOf(day) % 12) + 1)
  /\ FieldMatches(cron.dayOfMonth, DayOfMonth(day))
  /\ FieldMatches(cron.dayOfWeek, Weekday(day))

(* The times of a day on which it fires.                                   *)
CronTimes(cron) ==
  { h * Hour + m * SecondsPerMinute :
      h \in { i \in 0..(HoursPerDay - 1) : FieldMatches(cron.hour, i) },
      m \in { i \in 0..(MinutesPerHour - 1) : FieldMatches(cron.minute, i) } }

(* Mutant: the seconds are kept.                                           *)
Bug_NextMinute(after) == after + SecondsPerMinute

(* The next whole minute.                                                  *)
NextMinute(after) == (after \div SecondsPerMinute + 1) * SecondsPerMinute

(* The instants of a day, between the first and the limit of the search.   *)
FiringTimes(cron, day, first, limit) ==
  { t \in { At(day, time) : time \in CronTimes(cron) } :
      DayMatches(cron, day) /\ first <= t /\ t < limit }

(* The first day with one, or the last.                                    *)
CronDay(cron, first, limit) ==
  CHOOSE day \in DayNo(first)..DayNo(limit) :
    /\ day = DayNo(limit) \/ FiringTimes(cron, day, first, limit) # {}
    /\ \A d \in DayNo(first)..(day - 1) : FiringTimes(cron, d, first, limit) = {}

EarliestOr(none, dates) == IF dates = {} THEN none ELSE Min(dates)

(* The search begins there and ends after two years.                       *)
NextCronFire(cron, after) ==
  LET Search(first, limit) ==
        EarliestOr(Throws, FiringTimes(cron, CronDay(cron, first, limit), first, limit))
  IN  Search(NextMinute(after), At(PlusMonths(DayNo(after), 12 * CronYears), TimeOf(after)))

------------------------------------------------------------------------------
(* Recurrence rules.                                                       *)

RRuleDayMap == [SU |-> 0, MO |-> 1, TU |-> 2, WE |-> 3, TH |-> 4, FR |-> 5, SA |-> 6]

(* A rule is given by its DTSTART and the parameters that are there.       *)
ParseRRule(dtstart, params) ==
  LET Param(key, default) == IF key \in DOMAIN params THEN params[key] ELSE default
  IN  [dtstart    |-> dtstart,
       freq       |-> params.FREQ,
       interval   |-> Param("INTERVAL", 1),
       byDay      |-> Param("BYDAY", Absent),
       byMonthDay |-> Param("BYMONTHDAY", Absent),
       byMonth    |-> Param("BYMONTH", Absent),
       bySetPos   |-> Param("BYSETPOS", Absent),
       count      |-> Param("COUNT", Absent),
       until      |-> Param("UNTIL", Absent)]

(* Days the map does not know are dropped.                                 *)
ResolveDayNums(byDay) == { RRuleDayMap[d] : d \in byDay \cap DOMAIN RRuleDayMap }

WeekdayOccurrencesInMonth(mi, dayNums) ==
  { d \in 1..DaysInMonth(mi) : Weekday(DayOf(mi, d)) \in dayNums }

(* The days of a month that MONTHLY and YEARLY rules try.                  *)
CandidateDays(r, mi) ==
  IF r.byDay # Absent /\ r.bySetPos # Absent
  THEN LET all == WeekdayOccurrencesInMonth(mi, ResolveDayNums(r.byDay))
           Index(d) == Cardinality({ e \in all : e <= d })
       IN  { d \in all : Index(d) \in
               { IF pos > 0 THEN pos ELSE Cardinality(all) + pos + 1 : pos \in r.bySetPos } }
  ELSE (IF r.byMonthDay # Absent THEN r.byMonthDay ELSE {DayOfMonth(DayNo(r.dtstart))})
       \cap 1..DaysInMonth(mi)

InMonth(r, mi) == { At(DayOf(mi, d), TimeOf(r.dtstart)) : d \in CandidateDays(r, mi) }

(* The window of seven days that begins with `day'.                        *)
InWeek(r, day) ==
  LET dayNums == IF r.byDay = Absent THEN {Weekday(DayNo(r.dtstart))}
                 ELSE ResolveDayNums(r.byDay)
  IN  { At(d, TimeOf(r.dtstart)) : d \in { e \in day..(day + 6) : Weekday(e) \in dayNums } }

(* The candidates of the k-th period: sets, in the order in which they are *)
(* tried.                                                                  *)
Period(r, k) ==
  LET n == k * r.interval
      day == DayNo(r.dtstart)
  IN  CASE r.freq = "DAILY"   -> <<{r.dtstart + n * Day}>>
        [] r.freq = "WEEKLY"  -> <<InWeek(r, day + 7 * n)>>
        [] r.freq = "MONTHLY" -> <<InMonth(r, MonthOf(day) + n)>>
        [] r.freq = "YEARLY"  ->
             LET months == IF r.byMonth = Absent THEN <<(MonthOf(day) % 12) + 1>> ELSE r.byMonth
             IN  [i \in DOMAIN months |-> InMonth(r, MonthIndex(YearOf(day) + n, months[i]))]

(* Mutant: it lands anywhere, not on a period of the rule.                 *)
Bug_JumpAhead(r, after) ==
  IF r.freq \in {"DAILY", "WEEKLY"}
  THEN IF after < r.dtstart THEN 0 ELSE (after - r.dtstart) \div (Day * r.interval)
  ELSE Max({0, MonthOf(DayNo(after)) - MonthOf(DayNo(r.dtstart))})

(* `Jump ahead': the first period that is looked at.                       *)
JumpAhead(r, after) ==
  LET day == DayNo(r.dtstart)
      last == IF r.freq = "MONTHLY" THEN FirstOfMonth(MonthOf(day) + 1) - 1
                                    ELSE FirstOfMonth(MonthIndex(YearOf(day) + 1, 1)) - 1
      due == IF r.freq \in {"DAILY", "WEEKLY"} THEN r.dtstart ELSE At(last, TimeOf(r.dtstart))
  IN  IF after < due THEN 0
      ELSE CASE r.freq = "DAILY"   -> ((after - r.dtstart) \div Day) \div r.interval
             [] r.freq = "WEEKLY"  -> (after - r.dtstart) \div (7 * Day * r.interval)
             [] r.freq = "MONTHLY" -> (MonthOf(DayNo(after)) - MonthOf(day)) \div r.interval
             [] r.freq = "YEARLY"  -> (YearOf(DayNo(after)) - YearOf(day)) \div r.interval

(* COUNT is compared with the number of the occurrence in a DAILY rule; in *)
(* the others with the occurrences this call has come across, that is one. *)
Met(r, k) == IF r.freq = "DAILY" THEN k + 1 ELSE 1

(* Mutant: >= for >.                                                       *)
Bug_Later(set, after) == { c \in set : c >= after }

Later(set, after) == { c \in set : c > after }

(* The first list of candidates that has a later one is the one that       *)
(* counts, whatever comes after it.                                        *)
FirstLater(period, after) ==
  IF \A i \in DOMAIN period : Later(period[i], after) = {} THEN Absent
  ELSE Min(Later(period[Min({ i \in DOMAIN period : Later(period[i], after) # {} })], after))

(* The first period with a later date, or the last that is searched.       *)
HitPeriod(r, after, first) ==
  CHOOSE k \in first..(first + MaxPeriods - 1) :
    /\ k = first + MaxPeriods - 1 \/ FirstLater(Period(r, k), after) # Absent
    /\ \A j \in first..(k - 1) : FirstLater(Period(r, j), after) = Absent

(* What COUNT and UNTIL leave of a date in the k-th period.                *)
Bounded(r, k, date) ==
  IF \/ date = Absent
     \/ r.count # Absent /\ Met(r, k) > r.count
     \/ r.until # Absent /\ date > r.until
  THEN Absent ELSE date

NextRRuleFire(r, after) ==
  LET DateIn(k) == Bounded(r, k, FirstLater(Period(r, k), after))
  IN  DateIn(HitPeriod(r, after, JumpAhead(r, after)))

------------------------------------------------------------------------------
(* The two questions the timer plugin asks.                                *)

ComputeNextFire(e, reference) ==
  CASE e.kind = "date"     -> e.date
    [] e.kind = "duration" -> AddDuration(reference, e.duration)
    [] e.kind = "cycle"    -> AddDuration(reference, e.duration)
    [] e.kind = "cron"     -> NextCronFire(ParseCron(e.cron), reference)
    [] e.kind = "rrule"    ->
         EarliestOr(Throws, { NextRRuleFire(ParseRRule(e.dtstart, e.rrule), reference) }
                              \ {Absent})

ComputeNextFireAfter(e, firedAt, remainingReps) ==
  CASE e.kind \in {"date", "duration"} -> Absent
    [] e.kind = "cycle" ->
         IF remainingReps # Absent /\ remainingReps <= 0 THEN Absent
         ELSE AddDuration(firedAt, e.duration)
    [] e.kind = "cron"  -> NextCronFire(ParseCron(e.cron), firedAt)
    [] e.kind = "rrule" -> NextRRuleFire(ParseRRule(e.dtstart, e.rrule), firedAt)

(* TimerTrigger.nextSchedule: which persistFireResult calls after every    *)
(* fire, whatever it does with the answer, and a deployment before any.    *)
NextSchedule(e, lastFiredAt) ==
  LET next == ComputeNextFireAfter(e, lastFiredAt, Absent)
  IN  IF next = Absent THEN ComputeNextFire(e, lastFiredAt) ELSE next

------------------------------------------------------------------------------
VARIABLES
  expr,        (* The expression of a timer start event.                   *)
  asked,       (* The instant from which its next date was computed, 0     *)
               (* before there is one.                                     *)
  nextFireAt,  (* That date; Absent when it is exhausted.                  *)
  remaining,   (* remainingReps of the cursor, Absent for none.            *)
  fires,       (* History: the dates that have fired.                      *)
  deploys,     (* How often the definition has been deployed,              *)
  revived      (* and how often when the schedule was exhausted.           *)

vars == <<expr, asked, nextFireAt, remaining, fires, deploys, revived>>

Init ==
  /\ expr \in Expressions
  /\ asked = 0
  /\ nextFireAt = Absent
  /\ remaining = Absent
  /\ fires = <<>>
  /\ deploys = 0
  /\ revived = 0

(* syncTriggerSchedules of a deployment at `now', the first one or another *)
(* (overwrite), at any time: the row becomes ACTIVE with a new date,       *)
(* whatever it was, and its cursor stays.  When the expression has no date *)
(* left it throws.                                                         *)
Deploy(now) ==
  /\ deploys < MaxDeploys
  /\ asked <= now
  /\ \E next \in { ComputeNextFire(expr, now) } : next # Throws /\ nextFireAt' = next
  /\ asked' = now
  /\ deploys' = deploys + 1
  /\ revived' = revived + (IF deploys > 0 /\ nextFireAt = Absent THEN 1 ELSE 0)
  /\ UNCHANGED <<expr, remaining, fires>>

(* fire() at `now', and what persistFireResult writes; when nextSchedule   *)
(* throws it writes nothing.                                               *)
Fire(now) ==
  LET reps == IF remaining = Absent /\ expr.kind = "cycle" THEN expr.repetitions
              ELSE remaining
      after == IF reps = Absent THEN Absent ELSE reps - 1
  IN  /\ nextFireAt # Absent
      /\ nextFireAt <= now
      /\ Len(fires) < MaxFires
      /\ NextSchedule(expr, now) # Throws
      /\ \E next \in { ComputeNextFireAfter(expr, now, after) } :
           next # Throws /\ nextFireAt' = next
      /\ asked' = now
      /\ remaining' = after
      /\ fires' = Append(fires, nextFireAt)
      /\ UNCHANGED <<expr, deploys, revived>>

Next ==
  \/ \E now \in FirstAsked : Deploy(now)
  \/ deploys > 0 /\ \E late \in Delays : Deploy(asked + late)
  \/ nextFireAt # Absent /\ \E late \in Delays : Fire(Max({nextFireAt, asked}) + late)

Spec == Init /\ [][Next]_vars

------------------------------------------------------------------------------
(* What the expressions mean (docs/sdk/usage.md, RRULE reference): the set *)
(* of all dates of a rule, day by day, without a period to jump to.        *)

IsOccurrence(r, day) ==
  LET start == DayNo(r.dtstart)
      mi == MonthOf(day)
      Matches(d) == r.byDay = Absent \/ Weekday(d) \in ResolveDayNums(r.byDay)
      ofMonth == { d \in FirstOfMonth(mi)..(FirstOfMonth(mi + 1) - 1) : Matches(d) }
      rank == Cardinality({ d \in ofMonth : d <= day })
      OnMonthDay == DayOfMonth(day) \in
        (IF r.byMonthDay = Absent THEN {DayOfMonth(start)} ELSE r.byMonthDay)
      OnPosition == Matches(day) /\ (rank \in r.bySetPos
                                     \/ rank - Cardinality(ofMonth) - 1 \in r.bySetPos)
      OnDay == IF r.bySetPos = Absent THEN OnMonthDay ELSE OnPosition
  IN  CASE r.freq = "DAILY"   -> (day - start) % r.interval = 0
        [] r.freq = "WEEKLY"  ->
             /\ (day \div 7 - start \div 7) % r.interval = 0
             /\ IF r.byDay = Absent THEN Weekday(day) = Weekday(start) ELSE Matches(day)
        [] r.freq = "MONTHLY" -> (mi - MonthOf(start)) % r.interval = 0 /\ OnDay
        [] r.freq = "YEARLY"  ->
             /\ (YearOf(day) - YearOf(start)) % r.interval = 0
             /\ (mi % 12) + 1 \in (IF r.byMonth = Absent THEN {(MonthOf(start) % 12) + 1}
                                 ELSE ToSet(r.byMonth))
             /\ OnDay

(* All its dates up to the horizon.                                        *)
RuleDates(r) ==
  LET days == { d \in DayNo(r.dtstart)..(DayNo(r.dtstart) + Horizon) : IsOccurrence(r, d) }
      dates == { At(d, TimeOf(r.dtstart)) : d \in days }
  IN  { t \in dates :
          /\ r.until # Absent => t <= r.until
          /\ r.count # Absent => Cardinality({ u \in dates : u <= t }) <= r.count }

Rules == { e \in Expressions : e.kind = "rrule" }

DatesOf == [e \in Rules |-> RuleDates(ParseRRule(e.dtstart, e.rrule))]

(* Where the code gives other dates than the documents, on purpose or not: *)
(* COUNT of a rule that is not DAILY; every n-th week unless DTSTART is a  *)
(* Monday (its weeks begin on the day of DTSTART); what it tries in the    *)
(* first period before DTSTART.  See the README.                           *)
Agrees(e) ==
  LET r == ParseRRule(e.dtstart, e.rrule)
  IN  /\ r.count # Absent => r.freq = "DAILY"
      /\ r.freq = "WEEKLY" => r.interval = 1 \/ Weekday(DayNo(r.dtstart)) = 1
      /\ asked >= r.dtstart \/ r.freq \in {"DAILY", "WEEKLY"}

(* The next date of a rule is the first of its dates after the instant it  *)
(* was asked from, however late the last fire and however far the jump     *)
(* ahead; and it is exhausted when there is none.                          *)
NextIsTheNextDate ==
  expr \in Rules /\ deploys > 0 /\ Agrees(expr) =>
    LET later == { t \in DatesOf[expr] : t > asked }
    IN  IF later # {} THEN nextFireAt = Min(later)
        ELSE nextFireAt = Absent \/ DayNo(nextFireAt) > DayNo(expr.dtstart) + Horizon

(* Deploying again before the date has come leaves the date of a rule, a   *)
(* cron expression or a date as it is (that of a duration or a cycle is    *)
(* counted from the deployment; a rule or a cron expression deployed again *)
(* when its date has come and has not fired passes over it).               *)
RedeployKeepsTheDate ==
  [][ (/\ expr.kind \in {"date", "cron", "rrule"}
       /\ fires' = fires
       /\ nextFireAt # Absent
       /\ asked' < nextFireAt)
        => nextFireAt' = nextFireAt ]_vars

(* How often the expression says it fires.                                 *)
IsBounded ==
  expr.kind \in {"date", "duration"} \/ (expr.kind = "cycle" /\ expr.repetitions # Absent)

Shots == IF expr.kind = "cycle" THEN Max({expr.repetitions, 1}) ELSE 1

(* No instant is two dates of an expression: it does not fire again for a  *)
(* date it has fired for, and what comes next is still to come, unless it  *)
(* is the one date of a `date'.  A date, a duration or a bounded cycle     *)
(* fires no more often than it says, and once more for every deployment    *)
(* that finds it exhausted.                                                *)
NoDateTwice ==
  /\ expr.kind # "date" => \A i, j \in DOMAIN fires : i < j => fires[i] < fires[j]
  /\ nextFireAt # Absent => expr.kind = "date" \/ nextFireAt > asked
  /\ IsBounded => Len(fires) <= Shots + revived
------------------------------------------------------------------------------
(* What the theorems ask of the expressions and of the bounds.             *)

(* Parsing accepts PT0S, whose next date is the instant itself.            *)
TakesTime(dur) ==
  \E part \in {"years", "months", "days", "hours", "minutes", "seconds"} : dur[part] # 0

DurationsTakeTime ==
  \A e \in Expressions : e.kind \in {"duration", "cycle"} => TakesTime(e.duration)

(* A rule as the documents write it: BYSETPOS of the days that BYDAY names *)
(* (without, the code ignores it) and months in their order (in which the  *)
(* code tries them).                                                       *)
Regular(r) ==
  /\ r.bySetPos # Absent => r.byDay # Absent
  /\ r.byMonth # Absent => \A i, j \in DOMAIN r.byMonth : i < j => r.byMonth[i] <= r.byMonth[j]

RulesAreRegular == \A e \in Rules : Regular(ParseRRule(e.dtstart, e.rrule))

(* Dates are compared no further than the shortest periods are searched.   *)
SearchIsLongEnough == MaxPeriods > 1 /\ Horizon <= 7 * (MaxPeriods - 1)
=============================================================================
