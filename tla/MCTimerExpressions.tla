-------------------------- MODULE MCTimerExpressions --------------------------
(***************************************************************************)
(* Timer expressions of every kind, on days of two hours of two minutes of *)
(* two seconds.                                                            *)
(***************************************************************************)
EXTENDS TimerExpressions

DayOfDate(y, m, d) == DayOf(MonthIndex(y, m), d)

(* In the middle of a day, so that an instant may be before and after it.  *)
Noon(y, m, d) == At(DayOfDate(y, m, d), 3)

Rule(dtstart, params) == [kind |-> "rrule", dtstart |-> dtstart, rrule |-> params]

Cron(minute, hour, dayOfMonth, month, dayOfWeek) ==
  [kind |-> "cron",
   cron |-> [minute |-> minute, hour |-> hour, dayOfMonth |-> dayOfMonth,
             month |-> month, dayOfWeek |-> dayOfWeek]]

Duration(years, months, days, hours, minutes, seconds) ==
  [years |-> years, months |-> months, days |-> days, hours |-> hours,
   minutes |-> minutes, seconds |-> seconds]

(* Thursday 25 January 2024: the year has a 29 February.                   *)
Thursday == Noon(2024, 1, 25)
Monday == Noon(2024, 1, 29)

Daily == {
  Rule(Thursday, [FREQ |-> "DAILY"]),
  Rule(Thursday, [FREQ |-> "DAILY", INTERVAL |-> 3, COUNT |-> 2]),
  Rule(Thursday, [FREQ |-> "DAILY", INTERVAL |-> 10, UNTIL |-> Noon(2024, 2, 24)]) }

Weekly == {
  Rule(Thursday, [FREQ |-> "WEEKLY"]),
  Rule(Thursday, [FREQ |-> "WEEKLY", BYDAY |-> {"MO", "TU", "WE", "TH", "FR"}]),
  Rule(Thursday, [FREQ |-> "WEEKLY", BYDAY |-> {"TU", "SU"}, INTERVAL |-> 2]),
  Rule(Monday, [FREQ |-> "WEEKLY", BYDAY |-> {"MO", "WE", "SU"}, INTERVAL |-> 2]),
  Rule(Thursday, [FREQ |-> "WEEKLY", BYDAY |-> {"MO"}, UNTIL |-> Noon(2024, 2, 12) - 1]),
  Rule(Thursday, [FREQ |-> "WEEKLY", COUNT |-> 2]) }

Monthly == {
  Rule(Thursday, [FREQ |-> "MONTHLY"]),
  Rule(Noon(2024, 1, 31), [FREQ |-> "MONTHLY", INTERVAL |-> 2]),
  Rule(Noon(2023, 11, 30), [FREQ |-> "MONTHLY", INTERVAL |-> 3]),
  Rule(Thursday, [FREQ |-> "MONTHLY", BYMONTHDAY |-> {15, 29, 31}]),
  Rule(Thursday, [FREQ |-> "MONTHLY", BYDAY |-> {"FR"}, BYSETPOS |-> {-1}]),
  Rule(Thursday, [FREQ |-> "MONTHLY", BYDAY |-> {"MO", "TU"}, BYSETPOS |-> {1, 9}]),
  Rule(Thursday, [FREQ |-> "MONTHLY", BYMONTHDAY |-> {1}, INTERVAL |-> 5]) }

Yearly == {
  Rule(Noon(2024, 2, 29), [FREQ |-> "YEARLY"]),
  Rule(Noon(2023, 3, 15), [FREQ |-> "YEARLY", BYMONTH |-> <<3>>, BYMONTHDAY |-> {15}]),
  Rule(Thursday, [FREQ |-> "YEARLY", BYMONTH |-> <<1, 3, 12>>, BYMONTHDAY |-> {5, 31}]),
  Rule(Thursday, [FREQ |-> "YEARLY", INTERVAL |-> 2, BYMONTH |-> <<11>>,
                  BYDAY |-> {"TU"}, BYSETPOS |-> {2}]) }

Crons == {
  Cron({[value |-> 0]}, Absent, Absent, Absent, Absent),
  Cron({[step |-> 1]}, {[value |-> 1]}, {[value |-> 30], [lo |-> 1, hi |-> 9, step |-> 4]},
       Absent, Absent),
  Cron({[value |-> 1]}, {[value |-> 0]}, Absent, {[lo |-> 2, hi |-> 5, step |-> 2]},
       {[lo |-> 1, hi |-> 5, step |-> 1]}),
  Cron({[value |-> 0]}, {[value |-> 0]}, {[value |-> 29]}, {[value |-> 2]}, Absent) }

Others == {
  [kind |-> "date", date |-> Thursday],
  [kind |-> "duration", duration |-> Duration(0, 1, 0, 0, 1, 1)],
  [kind |-> "duration", duration |-> Duration(1, 0, 0, 0, 0, 0)],
  [kind |-> "cycle", repetitions |-> 2, duration |-> Duration(0, 0, 1, 1, 0, 0)],
  [kind |-> "cycle", repetitions |-> Absent, duration |-> Duration(0, 1, 0, 0, 0, 0)] }

AllExpressions == Daily \cup Weekly \cup Monthly \cup Yearly \cup Crons \cup Others

(* Long before, on the very instant, just after, and at the end of a month *)
(* when much of a rule has gone by.                                        *)
Deployments == { Noon(2024, 1, 3), Thursday - 1, Thursday, Thursday + 1,
                 Noon(2024, 2, 29), Noon(2024, 12, 31) - 2 }

(* At once, a second or two late, two days, ten weeks.                     *)
SomeDelays == { 0, 1, 2, 2 * Day, 70 * Day + 4 }

(* The theorems are about this run too.                                    *)
ASSUME HypothesesHold == DurationsTakeTime /\ RulesAreRegular /\ SearchIsLongEnough
=============================================================================
