------------------------ MODULE TimerExpressionsProofs ------------------------
(***************************************************************************)
(* The dates of timer start events, for every expression, every length of  *)
(* a day and every delay: which date a cron expression and a rule give     *)
(* next, that asking again gives the same, and that none fires twice.      *)
(***************************************************************************)
EXTENDS TimerExpressions, FiniteSetTheorems, NaturalsInduction, WellFoundedInduction, TLAPS

------------------------------------------------------------------------------
(* Numbers and the calendar.                                               *)

(* Division with a remainder.                                              *)
LEMMA Division ==
  ASSUME NEW a \in Int, NEW n \in Nat \ {0}
  PROVE  /\ a \div n \in Int /\ a % n \in 0..(n - 1)
         /\ a = (a \div n) * n + (a % n)
OBVIOUS

(* What divides and what remains are given by the product.                 *)
LEMMA Quotient ==
  ASSUME NEW n \in Nat \ {0}, NEW q \in Int, NEW r \in 0..(n - 1)
  PROVE  (q * n + r) \div n = q /\ (q * n + r) % n = r
OBVIOUS

(* A product keeps the order of its factor.                                *)
LEMMA MulMono ==
  ASSUME NEW n \in Nat \ {0}, NEW a \in Int, NEW b \in Int
  PROVE  /\ a * n \in Int /\ (a <= b <=> a * n <= b * n) /\ (a + 1) * n = a * n + n
         /\ (a < b <=> a * n + n <= b * n)
OBVIOUS

(* An hour and a day take time.                                            *)
LEMMA HourDay == Hour \in Nat \ {0} /\ Day \in Nat \ {0}
BY CalendarAssumption DEF Hour, Day

(* A month begins on a day.                                                *)
LEMMA YearStarts ==
  ASSUME NEW mi \in Int
  PROVE  FirstOfMonth(mi) \in Int
BY DEF FirstOfMonth, IsLeap

(* A month, whatever the year, has 28 to 31 days.                          *)
LEMMA MonthLength ==
  ASSUME NEW mi \in Int
  PROVE  FirstOfMonth(mi + 1) - FirstOfMonth(mi) \in 28..31
BY DEF FirstOfMonth, IsLeap
(* A set of natural numbers has a least one.                               *)
LEMMA Least ==
  ASSUME NEW S \in SUBSET Nat, S # {}
  PROVE  \E n \in S : \A m \in S : n <= m
<1> DEFINE R == OpToRel(<, Nat)
<1>1. IsWellFoundedOn(R, Nat)
  BY NatLessThanWellFounded
<1> HIDE DEF R
<1>2. PICK n \in S : \A m \in S : ~(<<m, n>> \in R)
  BY <1>1, WFMin
<1>3. \A m \in S : ~(m < n)
  BY <1>2 DEF R, OpToRel
<1> QED BY <1>3

(* Months follow one another, each of 28 days at least.                    *)
LEMMA MonthsApart ==
  ASSUME NEW mi \in Int, NEW k \in Nat
  PROVE  FirstOfMonth(mi + k) >= FirstOfMonth(mi) + 28 * k
<1> DEFINE S == { n \in Nat : ~(FirstOfMonth(mi + n) >= FirstOfMonth(mi) + 28 * n) }
<1>1. SUFFICES ASSUME S # {} PROVE FALSE
  OBVIOUS
<1>2. PICK n \in S : \A m \in S : n <= m
  BY <1>1, Least
<1>3. FirstOfMonth(mi) \in Int
  BY YearStarts
<1>4. n # 0
  BY <1>2, <1>3
<1>5. n - 1 \in Nat /\ n - 1 \notin S
  BY <1>2, <1>4
<1>6. FirstOfMonth(mi + (n - 1)) >= FirstOfMonth(mi) + 28 * (n - 1)
  BY <1>5
<1>7. FirstOfMonth((mi + (n - 1)) + 1) - FirstOfMonth(mi + (n - 1)) \in 28..31
  BY <1>5, MonthLength
<1>8. (mi + (n - 1)) + 1 = mi + n
  BY <1>2
<1>9. FirstOfMonth(mi + (n - 1)) \in Int /\ FirstOfMonth(mi + n) \in Int
  BY <1>2, <1>5, YearStarts
<1> QED BY <1>2, <1>3, <1>6, <1>7, <1>8, <1>9

(* Months begin in their order.                                            *)
LEMMA MonthsInOrder ==
  ASSUME NEW m \in Int, NEW n \in Int
  PROVE  /\ m < n <=> FirstOfMonth(m) < FirstOfMonth(n)
         /\ m <= n <=> FirstOfMonth(m) <= FirstOfMonth(n)
<1>1. ASSUME NEW a \in Int, NEW b \in Int, a < b PROVE FirstOfMonth(a) < FirstOfMonth(b)
  <2>1. b - a \in Nat /\ a + (b - a) = b /\ b - a >= 1
    BY <1>1
  <2>2. FirstOfMonth(b) >= FirstOfMonth(a) + 28 * (b - a)
    BY <2>1, MonthsApart
  <2> QED BY <2>1, <2>2, YearStarts
<1>2. FirstOfMonth(m) \in Int /\ FirstOfMonth(n) \in Int
  BY YearStarts
<1>3. m < n \/ m = n \/ n < m
  OBVIOUS
<1> QED BY <1>1, <1>2, <1>3

(* How far from the beginning of 2001 a month can be.                      *)
LEMMA MonthRange ==
  ASSUME NEW k \in Nat
  PROVE  30 * k - 1 <= FirstOfMonth(24012 + k) /\ FirstOfMonth(24012 + k) <= 31 * k
BY DEF FirstOfMonth, IsLeap

(* MonthOf finds the month of a day.                                       *)
LEMMA MonthOfIs ==
  ASSUME NEW day \in Nat
  PROVE  /\ MonthOf(day) \in Int /\ MonthOf(day) >= 24012
         /\ FirstOfMonth(MonthOf(day)) <= day /\ day < FirstOfMonth(MonthOf(day) + 1)
<1> DEFINE S == { n \in Nat : FirstOfMonth(24012 + n) > day }
           range == (24012 + (day \div 31) - 1)..(24012 + (day \div 30) + 1)
<1>1. day + 1 \in S
  <2>1. FirstOfMonth(24012 + (day + 1)) >= 30 * (day + 1) - 1
    BY MonthRange
  <2> QED BY <2>1, YearStarts
<1>2. PICK n \in S : \A m \in S : n <= m
  <2>1. S \in SUBSET Nat
    OBVIOUS
  <2> HIDE DEF S
  <2> QED BY <1>1, <2>1, Least
<1>3. n \in Nat /\ FirstOfMonth(24012 + n) > day
  BY <1>2
<1>4. n # 0
  BY <1>3 DEF FirstOfMonth, IsLeap
<1>5. n - 1 \in Nat /\ ~(FirstOfMonth(24012 + (n - 1)) > day)
  BY <1>2, <1>3, <1>4
<1>6. FirstOfMonth(24012 + (n - 1)) <= day
  BY <1>5, YearStarts
<1>7. 31 * n > day /\ 30 * (n - 1) - 1 <= day
  <2>1. FirstOfMonth(24012 + n) <= 31 * n /\ 30 * (n - 1) - 1 <= FirstOfMonth(24012 + (n - 1))
    BY <1>3, <1>5, MonthRange
  <2>2. 24012 + n \in Int /\ 24012 + (n - 1) \in Int
    BY <1>3
  <2>3. FirstOfMonth(24012 + n) \in Int /\ FirstOfMonth(24012 + (n - 1)) \in Int
    BY <2>2, YearStarts
  <2> QED BY <1>3, <1>6, <2>1, <2>3
<1> DEFINE mi == 24012 + (n - 1)
<1>8. mi \in range
  BY <1>3, <1>5, <1>7
<1>9. mi + 1 = 24012 + n
  BY <1>3
<1>10. \E i \in range : FirstOfMonth(i) <= day /\ day < FirstOfMonth(i + 1)
  BY <1>3, <1>6, <1>8, <1>9, YearStarts
<1> DEFINE Has(i) == FirstOfMonth(i) <= day /\ day < FirstOfMonth(i + 1)
<1>11. MonthOf(day) \in range /\ Has(MonthOf(day))
  <2>1. MonthOf(day) = CHOOSE i \in range : Has(i)
    BY DEF MonthOf
  <2>2. \E i \in range : Has(i)
    BY <1>10
  <2> HIDE DEF Has, range
  <2> QED BY <2>1, <2>2
<1>12. MonthOf(day) \in Int
  BY <1>11
<1>13. FirstOfMonth(24012) = 0
  BY DEF FirstOfMonth, IsLeap
<1>14. MonthOf(day) + 1 > 24012
  BY <1>11, <1>12, <1>13, MonthsInOrder, YearStarts
<1> QED BY <1>11, <1>12, <1>14

(* ... and it is the only one that has the day.                            *)
LEMMA MonthOfOnly ==
  ASSUME NEW day \in Nat, NEW mi \in Int, FirstOfMonth(mi) <= day, day < FirstOfMonth(mi + 1)
  PROVE  MonthOf(day) = mi
<1>1. /\ MonthOf(day) \in Int
      /\ FirstOfMonth(MonthOf(day)) <= day /\ day < FirstOfMonth(MonthOf(day) + 1)
  BY MonthOfIs
<1>2. mi < MonthOf(day) + 1 /\ MonthOf(day) < mi + 1
  BY <1>1, MonthsInOrder, YearStarts
<1> QED BY <1>1, <1>2

(* A later day is not in an earlier month.                                 *)
LEMMA MonthOfMono ==
  ASSUME NEW a \in Nat, NEW b \in Nat, a <= b
  PROVE  MonthOf(a) <= MonthOf(b)
<1>1. /\ MonthOf(a) \in Int /\ FirstOfMonth(MonthOf(a)) <= a
      /\ MonthOf(b) \in Int /\ b < FirstOfMonth(MonthOf(b) + 1)
  BY MonthOfIs
<1>2. MonthOf(a) < MonthOf(b) + 1
  BY <1>1, MonthsInOrder, YearStarts
<1> QED BY <1>1, <1>2

(* A day is a day of its month.                                            *)
LEMMA DaysOfMonths ==
  ASSUME NEW day \in Nat
  PROVE  /\ DayOfMonth(day) \in 1..DaysInMonth(MonthOf(day))
         /\ DayOf(MonthOf(day), DayOfMonth(day)) = day
<1>1. /\ MonthOf(day) \in Int
      /\ FirstOfMonth(MonthOf(day)) <= day /\ day < FirstOfMonth(MonthOf(day) + 1)
  BY MonthOfIs
<1>2. FirstOfMonth(MonthOf(day)) \in Int /\ FirstOfMonth(MonthOf(day) + 1) \in Int
  BY <1>1, YearStarts
<1> QED BY <1>1, <1>2 DEF DayOfMonth, DayOf, DaysInMonth

(* A day of a month from 2001 on is in it.                                 *)
LEMMA MonthsOfDays ==
  ASSUME NEW mi \in Int, mi >= 24012
  PROVE  /\ DaysInMonth(mi) \in 28..31 /\ FirstOfMonth(mi) \in Nat
         /\ \A d \in Nat \ {0} : DayOf(mi, d) \in Nat
         /\ \A d \in 1..DaysInMonth(mi) : MonthOf(DayOf(mi, d)) = mi /\ DayOfMonth(DayOf(mi, d)) = d
<1>1. DaysInMonth(mi) \in 28..31
  BY MonthLength DEF DaysInMonth
<1>2. FirstOfMonth(24012) = 0
  BY DEF FirstOfMonth, IsLeap
<1>3. FirstOfMonth(mi) \in Nat /\ FirstOfMonth(mi + 1) \in Int
  BY <1>2, MonthsInOrder, YearStarts
<1>4. ASSUME NEW d \in Nat \ {0} PROVE DayOf(mi, d) \in Nat
  BY <1>3 DEF DayOf
<1>5. ASSUME NEW d \in 1..DaysInMonth(mi)
      PROVE  MonthOf(DayOf(mi, d)) = mi /\ DayOfMonth(DayOf(mi, d)) = d
  <2>1. DayOf(mi, d) \in Nat /\ d \in Int
    BY <1>1, <1>4
  <2>2. FirstOfMonth(mi) <= DayOf(mi, d) /\ DayOf(mi, d) < FirstOfMonth(mi + 1)
    BY <1>1, <1>3 DEF DayOf, DaysInMonth
  <2>3. MonthOf(DayOf(mi, d)) = mi
    BY <2>1, <2>2, MonthOfOnly
  <2> QED BY <1>3, <2>1, <2>3 DEF DayOfMonth, DayOf
<1> QED BY <1>1, <1>3, <1>4, <1>5

(* Counting on by months never goes back, whatever the day carries.        *)
LEMMA PlusMonthsFacts ==
  ASSUME NEW day \in Nat, NEW n \in Nat
  PROVE  PlusMonths(day, n) \in Nat /\ PlusMonths(day, n) >= day + 28 * n
<1>1. MonthOf(day) \in Int /\ FirstOfMonth(MonthOf(day)) \in Int
  BY MonthOfIs, YearStarts
<1>2. FirstOfMonth(MonthOf(day) + n) >= FirstOfMonth(MonthOf(day)) + 28 * n
  BY <1>1, MonthsApart
<1>3. FirstOfMonth(MonthOf(day) + n) \in Int
  BY <1>1, YearStarts
<1> QED BY <1>1, <1>2, <1>3 DEF PlusMonths, DayOf, DayOfMonth

(* Instants: a day and a time of it.                                       *)
Times == 0..(Day - 1)

(* An instant is a time on a day,                                          *)
LEMMA Instants ==
  ASSUME NEW t \in Int
  PROVE  /\ DayNo(t) \in Int /\ TimeOf(t) \in Times /\ At(DayNo(t), TimeOf(t)) = t
         /\ t \in Nat => DayNo(t) \in Nat
<1>1. DayNo(t) \in Int /\ TimeOf(t) \in Times /\ At(DayNo(t), TimeOf(t)) = t
  BY HourDay, Division DEF DayNo, TimeOf, At, Times
<1>2. t \in Nat => t \div Day \in Nat
  BY HourDay
<1> QED BY <1>1, <1>2 DEF DayNo

(* and the time on a day an instant;                                       *)
LEMMA InstantsOf ==
  ASSUME NEW a \in Int, NEW s \in Times
  PROVE  /\ At(a, s) \in Int /\ DayNo(At(a, s)) = a /\ TimeOf(At(a, s)) = s
         /\ a \in Nat => At(a, s) \in Nat
<1>1. s \in Int /\ s >= 0 /\ a * Day \in Int /\ (a \in Nat => a * Day \in Nat)
  BY HourDay, MulMono DEF Times
<1>2. DayNo(At(a, s)) = a /\ TimeOf(At(a, s)) = s
  BY HourDay, Quotient DEF DayNo, TimeOf, At, Times
<1> QED BY <1>1, <1>2 DEF At

(* they are ordered by the day, then by the time,                          *)
LEMMA InstantsInOrder ==
  ASSUME NEW a \in Int, NEW s \in Times, NEW b \in Int, NEW u \in Times
  PROVE  /\ At(a, s) < At(b, u) <=> a < b \/ (a = b /\ s < u)
         /\ At(a, s) <= At(b, u) <=> a < b \/ (a = b /\ s <= u)
<1>1. /\ a * Day \in Int /\ b * Day \in Int /\ Day \in Nat \ {0}
      /\ (a < b => a * Day + Day <= b * Day) /\ (b < a => b * Day + Day <= a * Day)
  BY HourDay, MulMono
<1> QED BY <1>1 DEF At, Times

(* and keep their time when days are added.                                *)
LEMMA PlusDays ==
  ASSUME NEW a \in Int, NEW n \in Int, NEW s \in Times
  PROVE  At(a, s) + n * Day = At(a + n, s)
<1>1. \A d \in Int : (a + n) * d = a * d + n * d /\ a * d \in Int /\ n * d \in Int
  OBVIOUS
<1>2. Day \in Int /\ s \in Int
  BY HourDay DEF Times
<1> QED BY <1>1, <1>2 DEF At

(* addDuration never goes back, and goes forward by what takes time.       *)
LEMMA DurationsGoForward ==
  ASSUME NEW base \in Nat, NEW dur \in Durations
  PROVE  /\ AddDuration(base, dur) \in Nat /\ AddDuration(base, dur) >= base
         /\ TakesTime(dur) => AddDuration(base, dur) > base
<1> DEFINE day == DayNo(base)
           first == PlusMonths(day, 12 * dur.years)
           second == PlusMonths(first, dur.months)
           time == TimeOf(base)
           rest == dur.hours * Hour + dur.minutes * SecondsPerMinute + dur.seconds
<1>1. day \in Nat /\ time \in Times /\ At(day, time) = base
  BY Instants
<1>2. /\ dur.years \in Nat /\ dur.months \in Nat /\ dur.days \in Nat
      /\ dur.hours \in Nat /\ dur.minutes \in Nat /\ dur.seconds \in Nat
  BY DEF Durations
<1>3. first \in Nat /\ first >= day + 28 * (12 * dur.years)
  <2>1. 12 * dur.years \in Nat
    BY <1>2
  <2> HIDE DEF day
  <2> QED BY <1>1, <2>1, PlusMonthsFacts
<1>4. second \in Nat /\ second >= first + 28 * dur.months
  BY <1>2, <1>3, PlusMonthsFacts
<1>5. /\ dur.hours * Hour \in Nat /\ (dur.hours # 0 => dur.hours * Hour > 0)
      /\ dur.minutes * SecondsPerMinute \in Nat
      /\ (dur.minutes # 0 => dur.minutes * SecondsPerMinute > 0)
  BY <1>2, HourDay, CalendarAssumption
<1>6. rest \in Nat /\ (dur.hours # 0 \/ dur.minutes # 0 \/ dur.seconds # 0 => rest > 0)
  BY <1>2, <1>5
<1>7. /\ second + dur.days \in Nat /\ second + dur.days >= day
      /\ (dur.years # 0 \/ dur.months # 0 \/ dur.days # 0 => second + dur.days > day)
  <2> HIDE DEF day, first, second
  <2>1. ASSUME NEW a \in Nat, NEW k \in Nat, NEW b \in Nat, NEW c \in Nat \ {0}, b >= a + 28 * (c * k)
        PROVE  b >= a /\ (k # 0 => b > a)
    <3>1. c * k \in Nat /\ (k # 0 => c * k > 0)
      OBVIOUS
    <3> QED BY <2>1, <3>1
  <2>2. first >= day /\ (dur.years # 0 => first > day)
    BY <1>1, <1>2, <1>3, <2>1
  <2>3. second >= first /\ (dur.months # 0 => second > first)
    BY <1>2, <1>3, <1>4
  <2>4. /\ second + dur.days \in Nat /\ second + dur.days >= second
        /\ (dur.days # 0 => second + dur.days > second)
    BY <1>2, <1>4
  <2> QED BY <1>1, <1>3, <1>4, <2>2, <2>3, <2>4
<1> DEFINE to == At(second + dur.days, time)
<1>8. /\ to \in Nat /\ to >= base
      /\ (dur.years # 0 \/ dur.months # 0 \/ dur.days # 0 => to > base)
  <2> DEFINE last == second + dur.days
  <2>1. last \in Int /\ last >= day /\ last \in Nat /\ to = At(last, time)
    BY <1>7
  <2> HIDE DEF last, day, time, to
  <2>2. At(day, time) <= to /\ (day < last => At(day, time) < to)
    BY <1>1, <2>1, InstantsInOrder
  <2>3. to \in Nat
    BY <1>1, <2>1, InstantsOf
  <2>4. to >= base /\ (day < last => to > base)
    BY <1>1, <2>2, <2>3
  <2> USE DEF last
  <2> QED BY <1>7, <2>3, <2>4
<1>9. AddDuration(base, dur) = to + rest
  <2>1. AddDuration(base, dur) = to + dur.hours * Hour + dur.minutes * SecondsPerMinute + dur.seconds
    BY DEF AddDuration
  <2> HIDE DEF to
  <2> QED BY <1>2, <1>5, <1>8, <2>1
<1>10. TakesTime(dur) <=> \/ dur.years # 0 \/ dur.months # 0 \/ dur.days # 0
                          \/ dur.hours # 0 \/ dur.minutes # 0 \/ dur.seconds # 0
  BY DEF TakesTime
<1> HIDE DEF to, rest
<1> QED BY <1>6, <1>8, <1>9, <1>10

------------------------------------------------------------------------------
(* Cron: the instants at which an expression fires.                        *)
FiresAt(cron, t) == DayMatches(cron, DayNo(t)) /\ TimeOf(t) \in CronTimes(cron)

(* They are whole minutes of a day.                                        *)
LEMMA CronTimesAre ==
  ASSUME NEW cron, NEW time \in CronTimes(cron)
  PROVE  time \in Times /\ \E q \in Nat : time = q * SecondsPerMinute
<1>1. PICK h \in 0..(HoursPerDay - 1), m \in 0..(MinutesPerHour - 1) :
         time = h * Hour + m * SecondsPerMinute
  BY DEF CronTimes
<1>2. h \in Nat /\ m \in Nat /\ HoursPerDay \in Nat \ {0} /\ MinutesPerHour \in Nat \ {0}
      /\ SecondsPerMinute \in Nat \ {0} /\ h + 1 <= HoursPerDay /\ m + 1 <= MinutesPerHour
  BY CalendarAssumption
<1>3. m * SecondsPerMinute + SecondsPerMinute <= Hour
  BY <1>2, MulMono DEF Hour
<1>4. h * Hour + Hour <= Day
  BY <1>2, HourDay, MulMono DEF Day
<1>5. h * Hour \in Nat /\ m * SecondsPerMinute \in Nat
  BY <1>2, HourDay
<1>6. time \in Times
  BY <1>1, <1>2, <1>3, <1>4, <1>5, HourDay DEF Times
<1>7. h * Hour = (h * MinutesPerHour) * SecondsPerMinute
  BY <1>2 DEF Hour
<1>8. time = (h * MinutesPerHour + m) * SecondsPerMinute
  BY <1>1, <1>2, <1>7
<1>9. h * MinutesPerHour + m \in Nat
  BY <1>2
<1> QED BY <1>6, <1>8, <1>9

(* What the search looks at on a day: the instants that match, between the *)
(* two ends.                                                               *)
LEMMA FiringTimesAre ==
  ASSUME NEW cron, NEW day \in Int, NEW first, NEW limit
  PROVE  FiringTimes(cron, day, first, limit)
           = { t \in Int : DayNo(t) = day /\ FiresAt(cron, t) /\ first <= t /\ t < limit }
<1>1. ASSUME NEW t \in FiringTimes(cron, day, first, limit)
      PROVE  t \in Int /\ DayNo(t) = day /\ FiresAt(cron, t) /\ first <= t /\ t < limit
  <2>1. PICK time \in CronTimes(cron) : t = At(day, time)
    BY DEF FiringTimes
  <2>2. time \in Times
    BY CronTimesAre
  <2>3. t \in Int /\ DayNo(t) = day /\ TimeOf(t) = time
    BY <2>1, <2>2, InstantsOf
  <2> QED BY <2>3 DEF FiringTimes, FiresAt
<1>2. ASSUME NEW t \in Int, DayNo(t) = day, FiresAt(cron, t), first <= t, t < limit
      PROVE  t \in FiringTimes(cron, day, first, limit)
  <2>1. t = At(day, TimeOf(t)) /\ TimeOf(t) \in CronTimes(cron)
    BY <1>2, Instants DEF FiresAt
  <2>2. t \in { At(day, time) : time \in CronTimes(cron) }
    BY <2>1
  <2> QED BY <1>2, <2>2 DEF FiringTimes, FiresAt
<1> QED BY <1>1, <1>2

(* The least of a set of dates.                                            *)
LEMMA MinIs ==
  ASSUME NEW S \in SUBSET Nat, S # {}
  PROVE  Min(S) \in S /\ \A m \in S : Min(S) <= m
<1>1. \E n \in S : \A m \in S : n <= m
  BY Least
<1> QED BY <1>1 DEF Min

(* The search: the first instant from `first' on, before the limit.        *)
LEMMA CronSearch ==
  ASSUME NEW cron, NEW first \in Nat, NEW limit \in Nat, first <= limit,
         NEW next, next = EarliestOr(Throws,
                            FiringTimes(cron, CronDay(cron, first, limit), first, limit))
  PROVE  /\ next = Throws => \A t \in Nat : first <= t /\ t < limit => ~FiresAt(cron, t)
         /\ next # Throws =>
              /\ next \in Nat /\ first <= next /\ next < limit /\ FiresAt(cron, next)
              /\ \A t \in Nat : first <= t /\ t < next => ~FiresAt(cron, t)
<1> DEFINE a == DayNo(first)
           b == DayNo(limit)
           Found(d) == d = b \/ FiringTimes(cron, d, first, limit) # {}
           S == { d \in Nat : d >= a /\ Found(d) }
           Chosen(d) == Found(d) /\ \A e \in a..(d - 1) : FiringTimes(cron, e, first, limit) = {}
           day == CronDay(cron, first, limit)
           dates == FiringTimes(cron, day, first, limit)
<1>1. ASSUME NEW t \in Nat, NEW u \in Nat, t <= u
      PROVE  DayNo(t) \in Nat /\ DayNo(u) \in Nat /\ DayNo(t) <= DayNo(u)
  <2>1. /\ DayNo(t) \in Nat /\ TimeOf(t) \in Times /\ At(DayNo(t), TimeOf(t)) = t
        /\ DayNo(u) \in Nat /\ TimeOf(u) \in Times /\ At(DayNo(u), TimeOf(u)) = u
    BY Instants
  <2> QED BY <1>1, <2>1, InstantsInOrder
<1>2. a \in Nat /\ b \in Nat /\ a <= b
  BY <1>1
<1>3. /\ day \in a..b /\ Chosen(day)
  <2>1. b \in S /\ S \in SUBSET Nat
    BY <1>2
  <2>2. PICK d \in S : \A e \in S : d <= e
    <3> HIDE DEF S
    <3> QED BY <2>1, Least
  <2>3. d \in Nat /\ a <= d /\ d <= b /\ Found(d)
    BY <2>1, <2>2
  <2>4. ASSUME NEW e \in a..(d - 1) PROVE FiringTimes(cron, e, first, limit) = {}
    <3>1. e \in Nat /\ e >= a /\ e < d
      BY <1>2, <2>3
    <3>2. e \notin S
      BY <2>2, <2>3, <3>1
    <3> QED BY <3>1, <3>2
  <2>5. d \in a..b /\ Chosen(d)
    BY <1>2, <2>3, <2>4
  <2>6. day = CHOOSE e \in a..b : Chosen(e)
    BY DEF CronDay
  <2> HIDE DEF Chosen, a, b, day
  <2> QED BY <2>5, <2>6
<1>4. day \in Nat
  BY <1>2, <1>3
<1>5. dates = { t \in Int : DayNo(t) = day /\ FiresAt(cron, t) /\ first <= t /\ t < limit }
  <2> HIDE DEF day
  <2> QED BY <1>4, FiringTimesAre
<1>6. ASSUME NEW t \in Nat, first <= t, t < limit, FiresAt(cron, t)
      PROVE  day <= DayNo(t)
  <2>1. DayNo(t) \in Nat /\ a <= DayNo(t)
    BY <1>1, <1>6
  <2>2. t \in FiringTimes(cron, DayNo(t), first, limit)
    BY <1>6, <2>1, FiringTimesAre
  <2>3. DayNo(t) \notin a..(day - 1)
    BY <1>3, <2>2
  <2> HIDE DEF day, a
  <2> QED BY <1>2, <1>4, <2>1, <2>3
<1> HIDE DEF day, dates
<1>7. CASE dates = {}
  <2>1. next = Throws
    BY <1>7 DEF EarliestOr, day, dates
  <2>2. ASSUME NEW t \in Nat, first <= t, t < limit, FiresAt(cron, t) PROVE FALSE
    <3>1. day <= DayNo(t) /\ DayNo(t) \in Nat /\ DayNo(t) <= b
      BY <1>1, <1>6, <2>2
    <3>2. Found(day) /\ day = b
      BY <1>3, <1>7 DEF day, dates
    <3>3. DayNo(t) = day
      BY <1>2, <1>4, <3>1, <3>2
    <3> QED BY <1>5, <1>7, <2>2, <3>3
  <2> QED BY <2>1, <2>2
<1>8. CASE dates # {}
  <2>1. next = Min(dates)
    BY <1>8 DEF EarliestOr, day, dates
  <2>2. dates \in SUBSET Nat
    BY <1>5
  <2>3. next \in dates /\ \A m \in dates : next <= m
    BY <1>8, <2>1, <2>2, MinIs
  <2>4. next \in Nat /\ first <= next /\ next < limit /\ FiresAt(cron, next) /\ DayNo(next) = day
    BY <1>5, <2>2, <2>3
  <2>5. ASSUME NEW t \in Nat, first <= t, t < next, FiresAt(cron, t) PROVE FALSE
    <3>1. t < limit
      BY <2>4, <2>5
    <3>2. day <= DayNo(t) /\ DayNo(t) \in Nat /\ DayNo(t) <= day
      BY <1>1, <1>6, <2>4, <2>5, <3>1
    <3>3. t \in dates
      BY <1>4, <1>5, <2>5, <3>1, <3>2
    <3> QED BY <2>3, <2>4, <2>5, <3>3
  <2>6. next # Throws
    BY <2>4, CalendarAssumption
  <2> QED BY <2>4, <2>5, <2>6
<1> QED BY <1>7, <1>8

(* The search begins on the first whole minute after the instant,          *)
LEMMA NextMinuteIs ==
  ASSUME NEW after \in Nat
  PROVE  /\ NextMinute(after) \in Nat /\ NextMinute(after) > after
         /\ NextMinute(after) <= after + SecondsPerMinute
         /\ \A q \in Nat : q * SecondsPerMinute > after => q * SecondsPerMinute >= NextMinute(after)
<1> DEFINE n == SecondsPerMinute
           k == after \div n
<1>1. n \in Nat \ {0}
  BY CalendarAssumption
<1>2. k \in Int /\ after % n \in 0..(n - 1) /\ after = k * n + (after % n)
  BY <1>1, Division
<1>3. k * n \in Int /\ (k + 1) * n = k * n + n
  BY <1>1, <1>2, MulMono
<1>4. NextMinute(after) = (k + 1) * n
  BY DEF NextMinute
<1> HIDE DEF n, k
<1>5. /\ (k + 1) * n > after /\ (k + 1) * n <= after + n /\ (k + 1) * n \in Nat
  BY <1>1, <1>2, <1>3
<1>6. ASSUME NEW q \in Nat, q * n > after PROVE q * n >= (k + 1) * n
  <2>1. k * n <= after
    BY <1>1, <1>2, <1>3
  <2>2. k * n < q * n
    BY <1>1, <1>3, <1>6, <2>1
  <2>3. k < q
    BY <1>1, <1>2, <2>2, MulMono
  <2> QED BY <1>1, <1>2, <1>3, <2>3, MulMono
<1> QED BY <1>4, <1>5, <1>6 DEF n

CronLimit(after) == At(PlusMonths(DayNo(after), 12 * CronYears), TimeOf(after))

(* and misses none, for cron fires on whole minutes.                       *)
LEMMA FiresOnMinutes ==
  ASSUME NEW cron, NEW t \in Nat, FiresAt(cron, t)
  PROVE  \E q \in Nat : t = q * SecondsPerMinute
<1>1. PICK q \in Nat : TimeOf(t) = q * SecondsPerMinute
  BY CronTimesAre DEF FiresAt
<1>2. DayNo(t) \in Nat /\ t = DayNo(t) * Day + TimeOf(t)
  BY Instants DEF At
<1>3. /\ SecondsPerMinute \in Nat /\ MinutesPerHour \in Nat /\ HoursPerDay \in Nat
  BY CalendarAssumption
<1>4. DayNo(t) * Day = (DayNo(t) * (HoursPerDay * MinutesPerHour)) * SecondsPerMinute
  BY <1>2, <1>3 DEF Day, Hour
<1>5. t = (DayNo(t) * (HoursPerDay * MinutesPerHour) + q) * SecondsPerMinute
  BY <1>1, <1>2, <1>3, <1>4
<1>6. DayNo(t) * (HoursPerDay * MinutesPerHour) + q \in Nat
  BY <1>2, <1>3
<1> QED BY <1>5, <1>6

(* nextCronFire: the first match after the instant, and it throws only     *)
(* when there is none for two years.                                       *)
LEMMA CronNext ==
  ASSUME NEW cron, NEW after \in Nat, NEW next, next = NextCronFire(cron, after)
  PROVE  /\ next = Throws => \A t \in Nat : after < t /\ t < CronLimit(after) => ~FiresAt(cron, t)
         /\ next # Throws =>
              /\ next \in Nat /\ after < next /\ next < CronLimit(after) /\ FiresAt(cron, next)
              /\ \A t \in Nat : after < t /\ t < next => ~FiresAt(cron, t)
<1> DEFINE first == NextMinute(after)
           limit == CronLimit(after)
<1>1. /\ first \in Nat /\ first > after /\ first <= after + SecondsPerMinute
      /\ \A q \in Nat : q * SecondsPerMinute > after => q * SecondsPerMinute >= first
  BY NextMinuteIs
<1>2. limit \in Nat /\ first <= limit
  <2> DEFINE day == DayNo(after)
             last == PlusMonths(day, 12 * CronYears)
  <2>1. day \in Nat /\ TimeOf(after) \in Times /\ At(day, TimeOf(after)) = after
    BY Instants
  <2>2. 12 * CronYears \in Nat \ {0}
    BY CalendarAssumption
  <2>3. last \in Nat /\ last >= day + 28 * (12 * CronYears)
    BY <2>1, <2>2, PlusMonthsFacts
  <2>4. last >= day + 1
    <3> HIDE DEF last, day
    <3> QED BY <2>1, <2>2, <2>3
  <2>5. limit = At(last, TimeOf(after))
    BY DEF CronLimit
  <2> HIDE DEF last, day, limit, first
  <2>6. limit \in Nat
    BY <2>1, <2>3, <2>5, InstantsOf
  <2>7. day * Day + Day <= last * Day /\ day * Day \in Int /\ last * Day \in Int
    BY <2>1, <2>3, <2>4, HourDay, MulMono
  <2>8. after + Day <= limit
    BY <2>1, <2>5, <2>7, HourDay DEF At, Times
  <2>9. SecondsPerMinute <= Day
    BY CalendarAssumption, MulMono, HourDay DEF Hour, Day
  <2> QED BY <1>1, <2>6, <2>8, <2>9, HourDay, CalendarAssumption
<1>3. next = EarliestOr(Throws, FiringTimes(cron, CronDay(cron, first, limit), first, limit))
  BY DEF NextCronFire, CronLimit
<1>4. ASSUME NEW t \in Nat, after < t, FiresAt(cron, t) PROVE first <= t
  BY <1>1, <1>4, FiresOnMinutes
<1> HIDE DEF first, limit
<1>5. /\ next = Throws => \A t \in Nat : first <= t /\ t < limit => ~FiresAt(cron, t)
      /\ next # Throws =>
           /\ next \in Nat /\ first <= next /\ next < limit /\ FiresAt(cron, next)
           /\ \A t \in Nat : first <= t /\ t < next => ~FiresAt(cron, t)
  BY <1>1, <1>2, <1>3, CronSearch
<1>6. next # Throws => after < next
  BY <1>1, <1>5
<1> QED BY <1>4, <1>5, <1>6 DEF limit

(* Asked again before its date, it gives the same, or finds none.          *)
LEMMA CronAgain ==
  ASSUME NEW cron, NEW a \in Nat, NEW b \in Nat, NextCronFire(cron, a) # Throws,
         a <= b, b < NextCronFire(cron, a)
  PROVE  NextCronFire(cron, b) \in {NextCronFire(cron, a), Throws}
<1> DEFINE n == NextCronFire(cron, a)
           m == NextCronFire(cron, b)
<1>1. /\ n \in Nat /\ FiresAt(cron, n) /\ \A t \in Nat : a < t /\ t < n => ~FiresAt(cron, t)
  BY CronNext
<1>2. m # Throws => /\ m \in Nat /\ b < m /\ FiresAt(cron, m)
                    /\ \A t \in Nat : b < t /\ t < m => ~FiresAt(cron, t)
  BY CronNext
<1> HIDE DEF n, m
<1>3. SUFFICES ASSUME m # Throws PROVE m = n
  BY DEF n, m
<1>4. ~(m < n) /\ ~(n < m)
  <2>1. b < n
    BY DEF n
  <2> QED BY <1>1, <1>2, <1>3, <2>1
<1> QED BY <1>1, <1>2, <1>3, <1>4

------------------------------------------------------------------------------
(* Rules as parsing gives them.                                            *)
Freqs == {"DAILY", "WEEKLY", "MONTHLY", "YEARLY"}

IsRule(r) ==
  /\ r.dtstart \in Nat /\ r.freq \in Freqs /\ r.interval \in Nat \ {0}
  /\ r.byMonthDay # Absent => r.byMonthDay \subseteq Int
  /\ r.byMonth # Absent => r.byMonth \in Seq(1..12)
  /\ r.bySetPos # Absent => r.bySetPos \subseteq Int
  /\ r.count # Absent => r.count \in Nat
  /\ r.until # Absent => r.until \in Int

RuleOf(e) == ParseRRule(e.dtstart, e.rrule)

(* What parseRRule gives is a rule.                                        *)
LEMMA ParsedRules ==
  ASSUME NEW e \in Rules
  PROVE  IsRule(RuleOf(e)) /\ RuleOf(e).dtstart = e.dtstart
<1> DEFINE Given(key, S) == key \in DOMAIN e.rrule => e.rrule[key] \in S
<1>1. /\ e.dtstart \in Nat
      /\ e.rrule.FREQ \in {"DAILY", "WEEKLY", "MONTHLY", "YEARLY"}
      /\ Given("INTERVAL", Nat \ {0})
      /\ Given("BYMONTHDAY", SUBSET Int) /\ Given("BYMONTH", Seq(1..12))
      /\ Given("BYSETPOS", SUBSET Int)
      /\ Given("COUNT", Nat) /\ Given("UNTIL", Int)
  BY ExpressionsAssumption DEF Rules
<1> QED BY <1>1 DEF RuleOf, ParseRRule, IsRule, Freqs

Months(r) == IF r.byMonth = Absent THEN <<(MonthOf(DayNo(r.dtstart)) % 12) + 1>> ELSE r.byMonth

(* The months a YEARLY rule tries.                                         *)
LEMMA MonthsAre == ASSUME NEW r, IsRule(r) PROVE Months(r) \in Seq(1..12)
<1>1. DayNo(r.dtstart) \in Nat
  <2>1. r.dtstart \in Nat
    BY DEF IsRule
  <2> QED BY <2>1, Instants
<1>2. MonthOf(DayNo(r.dtstart)) \in Int
  BY <1>1, MonthOfIs
<1>3. (MonthOf(DayNo(r.dtstart)) % 12) + 1 \in 1..12
  BY <1>2
<1>4. \A m \in 1..12 : <<m>> \in Seq(1..12)
  OBVIOUS
<1>5. r.byMonth # Absent => r.byMonth \in Seq(1..12)
  BY DEF IsRule
<1> QED BY <1>3, <1>4, <1>5 DEF Months

(* What the calendar says of DTSTART.                                      *)
LEMMA StartFacts ==
  ASSUME NEW r, IsRule(r), NEW day, day = DayNo(r.dtstart)
  PROVE  /\ day \in Nat /\ TimeOf(r.dtstart) \in Times /\ At(day, TimeOf(r.dtstart)) = r.dtstart
         /\ MonthOf(day) \in Int /\ MonthOf(day) >= 24012
         /\ YearOf(day) \in Int /\ YearOf(day) >= 2001
<1>1. day \in Nat /\ TimeOf(r.dtstart) \in Times /\ At(day, TimeOf(r.dtstart)) = r.dtstart
  <2>1. r.dtstart \in Nat
    BY DEF IsRule
  <2> QED BY <2>1, Instants
<1>2. MonthOf(day) \in Int /\ MonthOf(day) >= 24012
  BY <1>1, MonthOfIs
<1> QED BY <1>1, <1>2 DEF YearOf

(* What there is of a rule in a period.                                    *)
LEMMA PeriodIs ==
  ASSUME NEW r, IsRule(r), NEW k \in Nat, NEW n, n = k * r.interval,
         NEW day, day = DayNo(r.dtstart)
  PROVE  /\ n \in Nat
         /\ r.freq = "DAILY" => /\ DOMAIN Period(r, k) = {1}
                                /\ Period(r, k)[1] = {At(day + n, TimeOf(r.dtstart))}
         /\ r.freq = "WEEKLY" => /\ DOMAIN Period(r, k) = {1}
                                 /\ Period(r, k)[1] = InWeek(r, day + 7 * n)
         /\ r.freq = "MONTHLY" => /\ DOMAIN Period(r, k) = {1}
                                  /\ Period(r, k)[1] = InMonth(r, MonthOf(day) + n)
         /\ r.freq = "YEARLY" =>
              /\ DOMAIN Period(r, k) = DOMAIN Months(r)
              /\ \A i \in DOMAIN Months(r) :
                   Period(r, k)[i] = InMonth(r, MonthIndex(YearOf(day) + n, Months(r)[i]))
<1>1. n \in Nat
  BY DEF IsRule
<1>2. r.dtstart + n * Day = At(day + n, TimeOf(r.dtstart))
  <2>1. day \in Int /\ TimeOf(r.dtstart) \in Times /\ At(day, TimeOf(r.dtstart)) = r.dtstart
    BY StartFacts
  <2>2. At(day, TimeOf(r.dtstart)) + n * Day = At(day + n, TimeOf(r.dtstart))
    <3>1. \A m \in Nat : At(day, TimeOf(r.dtstart)) + m * Day = At(day + m, TimeOf(r.dtstart))
      BY <2>1, PlusDays
    <3> QED BY <1>1, <3>1
  <2> QED BY <2>1, <2>2
<1>3. r.freq = "DAILY" => Period(r, k) = <<{At(day + n, TimeOf(r.dtstart))}>>
  BY <1>2 DEF Period
<1>4. r.freq = "WEEKLY" => Period(r, k) = <<InWeek(r, day + 7 * n)>>
  BY DEF Period
<1>5. r.freq = "MONTHLY" => Period(r, k) = <<InMonth(r, MonthOf(day) + n)>>
  BY DEF Period
<1>6. r.freq = "YEARLY" =>
        Period(r, k) = [i \in DOMAIN Months(r) |->
                          InMonth(r, MonthIndex(YearOf(day) + n, Months(r)[i]))]
  BY DEF Period, Months
<1>7. r.freq = "DAILY" => /\ DOMAIN Period(r, k) = {1}
                          /\ Period(r, k)[1] = {At(day + n, TimeOf(r.dtstart))}
  BY <1>3
<1>8. r.freq = "WEEKLY" => DOMAIN Period(r, k) = {1} /\ Period(r, k)[1] = InWeek(r, day + 7 * n)
  BY <1>4
<1>9. r.freq = "MONTHLY" =>
        DOMAIN Period(r, k) = {1} /\ Period(r, k)[1] = InMonth(r, MonthOf(day) + n)
  BY <1>5
<1>10. r.freq = "YEARLY" =>
         /\ DOMAIN Period(r, k) = DOMAIN Months(r)
         /\ \A i \in DOMAIN Months(r) :
              Period(r, k)[i] = InMonth(r, MonthIndex(YearOf(day) + n, Months(r)[i]))
  BY <1>6
<1> QED BY <1>1, <1>7, <1>8, <1>9, <1>10

(* The dates in a month and in a week.                                     *)
LEMMA CandidateDaysAre ==
  ASSUME NEW r, NEW mi \in Int
  PROVE  CandidateDays(r, mi) \subseteq 1..DaysInMonth(mi)
BY DEF CandidateDays, WeekdayOccurrencesInMonth

(* InMonth: the candidate days of the month, at the time of DTSTART.       *)
LEMMA DatesInMonth ==
  ASSUME NEW r, IsRule(r), NEW mi \in Int, mi >= 24012, NEW t
  PROVE  t \in InMonth(r, mi) <=>
           /\ t \in Nat /\ MonthOf(DayNo(t)) = mi /\ TimeOf(t) = TimeOf(r.dtstart)
           /\ DayOfMonth(DayNo(t)) \in CandidateDays(r, mi)
<1>1. TimeOf(r.dtstart) \in Times
  BY Instants DEF IsRule
<1>2. DaysInMonth(mi) \in 28..31
  BY MonthsOfDays
<1>3. ASSUME t \in InMonth(r, mi)
      PROVE  /\ t \in Nat /\ MonthOf(DayNo(t)) = mi /\ TimeOf(t) = TimeOf(r.dtstart)
             /\ DayOfMonth(DayNo(t)) \in CandidateDays(r, mi)
  <2>1. PICK d \in CandidateDays(r, mi) : t = At(DayOf(mi, d), TimeOf(r.dtstart))
    BY <1>3 DEF InMonth
  <2>2. d \in 1..DaysInMonth(mi)
    BY CandidateDaysAre
  <2>3. d \in Nat \ {0}
    BY <1>2, <2>2
  <2>4. DayOf(mi, d) \in Nat /\ MonthOf(DayOf(mi, d)) = mi /\ DayOfMonth(DayOf(mi, d)) = d
    BY <2>2, <2>3, MonthsOfDays
  <2>5. t \in Nat /\ DayNo(t) = DayOf(mi, d) /\ TimeOf(t) = TimeOf(r.dtstart)
    BY <1>1, <2>1, <2>4, InstantsOf
  <2> QED BY <2>4, <2>5
<1>4. ASSUME t \in Nat, MonthOf(DayNo(t)) = mi, TimeOf(t) = TimeOf(r.dtstart),
             DayOfMonth(DayNo(t)) \in CandidateDays(r, mi)
      PROVE  t \in InMonth(r, mi)
  <2>1. DayNo(t) \in Nat /\ t = At(DayNo(t), TimeOf(t))
    BY <1>4, Instants
  <2>2. DayOf(mi, DayOfMonth(DayNo(t))) = DayNo(t)
    BY <1>4, <2>1, DaysOfMonths
  <2>3. t = At(DayOf(mi, DayOfMonth(DayNo(t))), TimeOf(r.dtstart))
    BY <1>4, <2>1, <2>2
  <2> QED BY <1>4, <2>3 DEF InMonth
<1> QED BY <1>3, <1>4

WeekDays(r) == IF r.byDay = Absent THEN {Weekday(DayNo(r.dtstart))} ELSE ResolveDayNums(r.byDay)

(* InWeek: the days of the window that match, at the time of DTSTART.      *)
LEMMA DatesInWeek ==
  ASSUME NEW r, IsRule(r), NEW day \in Nat, NEW t
  PROVE  t \in InWeek(r, day) <=>
           /\ t \in Nat /\ DayNo(t) \in day..(day + 6) /\ TimeOf(t) = TimeOf(r.dtstart)
           /\ Weekday(DayNo(t)) \in WeekDays(r)
<1>1. TimeOf(r.dtstart) \in Times
  BY Instants DEF IsRule
<1>2. InWeek(r, day) = { At(d, TimeOf(r.dtstart)) :
                           d \in { e \in day..(day + 6) : Weekday(e) \in WeekDays(r) } }
  BY DEF InWeek, WeekDays
<1>3. ASSUME t \in InWeek(r, day)
      PROVE  /\ t \in Nat /\ DayNo(t) \in day..(day + 6) /\ TimeOf(t) = TimeOf(r.dtstart)
             /\ Weekday(DayNo(t)) \in WeekDays(r)
  <2>1. PICK d \in day..(day + 6) : Weekday(d) \in WeekDays(r) /\ t = At(d, TimeOf(r.dtstart))
    BY <1>2, <1>3
  <2>2. d \in Nat
    OBVIOUS
  <2>3. t \in Nat /\ DayNo(t) = d /\ TimeOf(t) = TimeOf(r.dtstart)
    BY <1>1, <2>1, <2>2, InstantsOf
  <2> QED BY <2>1, <2>3
<1>4. ASSUME t \in Nat, DayNo(t) \in day..(day + 6), TimeOf(t) = TimeOf(r.dtstart),
             Weekday(DayNo(t)) \in WeekDays(r)
      PROVE  t \in InWeek(r, day)
  <2>1. t = At(DayNo(t), TimeOf(r.dtstart))
    BY <1>4, Instants
  <2> QED BY <1>2, <1>4, <2>1
<1> QED BY <1>3, <1>4

(* The day on which a period begins; the next one begins after its dates.  *)
PeriodStart(r, k) ==
  LET n == k * r.interval
      day == DayNo(r.dtstart)
  IN  CASE r.freq = "DAILY"   -> day + n
        [] r.freq = "WEEKLY"  -> day + 7 * n
        [] r.freq = "MONTHLY" -> FirstOfMonth(MonthOf(day) + n)
        [] r.freq = "YEARLY"  -> FirstOfMonth(MonthIndex(YearOf(day) + n, 1))

(* Periods begin in their order,                                           *)
LEMMA PeriodStarts ==
  ASSUME NEW r, IsRule(r), NEW j \in Nat, NEW k \in Nat
  PROVE  /\ PeriodStart(r, k) \in Int
         /\ j <= k => PeriodStart(r, j) <= PeriodStart(r, k)
<1> DEFINE day == DayNo(r.dtstart)
           m == j * r.interval
           n == k * r.interval
<1>1. r.interval \in Nat \ {0} /\ r.freq \in Freqs
  BY DEF IsRule
<1>2. m \in Nat /\ n \in Nat /\ (j <= k => m <= n)
  BY <1>1, MulMono
<1>3. day \in Nat /\ MonthOf(day) \in Int /\ YearOf(day) \in Int
  BY StartFacts
<1> HIDE DEF day, m, n
<1>4. CASE r.freq \in {"DAILY", "WEEKLY"}
  <2>1. /\ PeriodStart(r, k) = day + (IF r.freq = "DAILY" THEN n ELSE 7 * n)
        /\ PeriodStart(r, j) = day + (IF r.freq = "DAILY" THEN m ELSE 7 * m)
    BY <1>4 DEF PeriodStart, day, m, n
  <2> QED BY <1>2, <1>3, <2>1
<1>5. CASE r.freq = "MONTHLY"
  <2>1. /\ PeriodStart(r, k) = FirstOfMonth(MonthOf(day) + n)
        /\ PeriodStart(r, j) = FirstOfMonth(MonthOf(day) + m)
    BY <1>5 DEF PeriodStart, day, m, n
  <2>2. MonthOf(day) + n \in Int /\ MonthOf(day) + m \in Int /\ (j <= k => MonthOf(day) + m <= MonthOf(day) + n)
    BY <1>2, <1>3
  <2> QED BY <2>1, <2>2, MonthsInOrder, YearStarts
<1>6. CASE r.freq = "YEARLY"
  <2>1. /\ PeriodStart(r, k) = FirstOfMonth(MonthIndex(YearOf(day) + n, 1))
        /\ PeriodStart(r, j) = FirstOfMonth(MonthIndex(YearOf(day) + m, 1))
    BY <1>6 DEF PeriodStart, day, m, n
  <2>2. /\ MonthIndex(YearOf(day) + n, 1) \in Int /\ MonthIndex(YearOf(day) + m, 1) \in Int
        /\ (j <= k => MonthIndex(YearOf(day) + m, 1) <= MonthIndex(YearOf(day) + n, 1))
    BY <1>2, <1>3 DEF MonthIndex
  <2> QED BY <2>1, <2>2, MonthsInOrder, YearStarts
<1> QED BY <1>1, <1>4, <1>5, <1>6 DEF Freqs

(* and have their dates between their begin and that of the next.          *)
LEMMA PeriodDates ==
  ASSUME NEW r, IsRule(r), NEW k \in Nat, NEW i \in DOMAIN Period(r, k), NEW t \in Period(r, k)[i]
  PROVE  /\ t \in Nat /\ TimeOf(t) = TimeOf(r.dtstart)
         /\ PeriodStart(r, k) <= DayNo(t) /\ DayNo(t) < PeriodStart(r, k + 1)
<1> DEFINE day == DayNo(r.dtstart)
           n == k * r.interval
           m == (k + 1) * r.interval
<1>1. r.interval \in Nat \ {0} /\ r.freq \in Freqs
  BY DEF IsRule
<1>2. n \in Nat /\ m = n + r.interval /\ m \in Nat /\ m >= n + 1
  BY <1>1
<1>3. /\ day \in Nat /\ TimeOf(r.dtstart) \in Times /\ MonthOf(day) \in Int /\ MonthOf(day) >= 24012
      /\ YearOf(day) \in Int /\ YearOf(day) >= 2001
  BY StartFacts
<1> HIDE DEF day, n, m
<1>4. CASE r.freq = "DAILY"
  <2>1. t = At(day + n, TimeOf(r.dtstart))
    BY <1>4, PeriodIs DEF day, n
  <2>2. day + n \in Nat
    BY <1>2, <1>3
  <2>3. t \in Nat /\ DayNo(t) = day + n /\ TimeOf(t) = TimeOf(r.dtstart)
    BY <1>3, <2>1, <2>2, InstantsOf
  <2>4. PeriodStart(r, k) = day + n /\ PeriodStart(r, k + 1) = day + m
    BY <1>4 DEF PeriodStart, day, n, m
  <2> QED BY <1>2, <1>3, <2>3, <2>4
<1>5. CASE r.freq = "WEEKLY"
  <2>1. t \in InWeek(r, day + 7 * n)
    BY <1>5, PeriodIs DEF day, n
  <2>2. day + 7 * n \in Nat
    BY <1>2, <1>3
  <2>3. /\ t \in Nat /\ DayNo(t) \in (day + 7 * n)..(day + 7 * n + 6)
        /\ TimeOf(t) = TimeOf(r.dtstart)
    BY <2>1, <2>2, DatesInWeek
  <2>4. PeriodStart(r, k) = day + 7 * n /\ PeriodStart(r, k + 1) = day + 7 * m
    BY <1>5 DEF PeriodStart, day, n, m
  <2> QED BY <1>2, <1>3, <2>3, <2>4
<1>6. CASE r.freq = "MONTHLY"
  <2>1. t \in InMonth(r, MonthOf(day) + n)
    BY <1>6, PeriodIs DEF day, n
  <2>2. MonthOf(day) + n \in Int /\ MonthOf(day) + n >= 24012
    BY <1>2, <1>3
  <2>3. t \in Nat /\ MonthOf(DayNo(t)) = MonthOf(day) + n /\ TimeOf(t) = TimeOf(r.dtstart)
    BY <2>1, <2>2, DatesInMonth
  <2>4. DayNo(t) \in Nat
    BY <2>3, Instants
  <2>5. FirstOfMonth(MonthOf(day) + n) <= DayNo(t) /\ DayNo(t) < FirstOfMonth((MonthOf(day) + n) + 1)
    BY <2>3, <2>4, MonthOfIs
  <2>6. PeriodStart(r, k) = FirstOfMonth(MonthOf(day) + n)
        /\ PeriodStart(r, k + 1) = FirstOfMonth(MonthOf(day) + m)
    BY <1>6 DEF PeriodStart, day, n, m
  <2>7. (MonthOf(day) + n) + 1 <= MonthOf(day) + m /\ MonthOf(day) + m \in Int /\ (MonthOf(day) + n) + 1 \in Int
    BY <1>2, <1>3
  <2>8. FirstOfMonth((MonthOf(day) + n) + 1) <= FirstOfMonth(MonthOf(day) + m)
    BY <2>7, MonthsInOrder
  <2>9. FirstOfMonth((MonthOf(day) + n) + 1) \in Int /\ FirstOfMonth(MonthOf(day) + m) \in Int
    BY <2>7, YearStarts
  <2> QED BY <2>3, <2>4, <2>5, <2>6, <2>8, <2>9
<1>7. CASE r.freq = "YEARLY"
  <2> DEFINE mi == MonthIndex(YearOf(day) + n, Months(r)[i])
             lo == MonthIndex(YearOf(day) + n, 1)
             hi == MonthIndex(YearOf(day) + m, 1)
  <2>1. i \in DOMAIN Months(r) /\ t \in InMonth(r, mi)
    BY <1>7, PeriodIs DEF day, n
  <2>2. Months(r)[i] \in 1..12
    BY <2>1, MonthsAre
  <2>3. mi \in Int /\ mi >= 24012 /\ lo \in Int /\ hi \in Int /\ lo <= mi /\ mi + 1 <= hi
    BY <1>2, <1>3, <2>2 DEF MonthIndex
  <2>4. PeriodStart(r, k) = FirstOfMonth(lo) /\ PeriodStart(r, k + 1) = FirstOfMonth(hi)
    BY <1>7 DEF PeriodStart, day, n, m
  <2> HIDE DEF mi, lo, hi
  <2>5. t \in Nat /\ MonthOf(DayNo(t)) = mi /\ TimeOf(t) = TimeOf(r.dtstart)
    BY <2>1, <2>3, DatesInMonth
  <2>6. DayNo(t) \in Nat
    BY <2>5, Instants
  <2>7. FirstOfMonth(mi) <= DayNo(t) /\ DayNo(t) < FirstOfMonth(mi + 1)
    BY <2>5, <2>6, MonthOfIs
  <2>8. FirstOfMonth(lo) <= FirstOfMonth(mi) /\ FirstOfMonth(mi + 1) <= FirstOfMonth(hi)
    BY <2>3, MonthsInOrder
  <2>9. /\ FirstOfMonth(lo) \in Int /\ FirstOfMonth(mi) \in Int
        /\ FirstOfMonth(mi + 1) \in Int /\ FirstOfMonth(hi) \in Int
    BY <2>3, YearStarts
  <2> QED BY <2>4, <2>5, <2>6, <2>7, <2>8, <2>9
<1> QED BY <1>1, <1>4, <1>5, <1>6, <1>7 DEF Freqs

------------------------------------------------------------------------------
(* The search of a rule.                                                   *)
AllPast(r, k, after) ==
  \A i \in DOMAIN Period(r, k) : \A t \in Period(r, k)[i] : t <= after

(* Division keeps the order; what is below the quotient is below the       *)
(* dividend.                                                               *)
LEMMA QuotientOrder ==
  ASSUME NEW n \in Nat \ {0}, NEW a \in Int, NEW b \in Int, a <= b
  PROVE  /\ a \div n <= b \div n /\ a \div n \in Int
         /\ \A k \in Int : k < a \div n => k * n + n <= a
         /\ a >= 0 => a \div n \in Nat
<1> DEFINE p == a \div n
           q == b \div n
<1>1. /\ p \in Int /\ p * n \in Int /\ p * n <= a /\ a < p * n + n
      /\ q \in Int /\ q * n \in Int /\ q * n <= b /\ b < q * n + n
  <2>1. p \in Int /\ a % n \in 0..(n - 1) /\ a = p * n + (a % n)
    BY Division
  <2>2. q \in Int /\ b % n \in 0..(n - 1) /\ b = q * n + (b % n)
    BY Division
  <2>3. p * n \in Int /\ q * n \in Int
    BY <2>1, <2>2
  <2> HIDE DEF p, q
  <2> QED BY <2>1, <2>2, <2>3
<1> HIDE DEF p, q
<1>2. (q + 1) * n = q * n + n
  BY <1>1, MulMono
<1>3. p < q + 1
  <2>1. p * n < (q + 1) * n
    BY <1>1, <1>2
  <2> QED BY <1>1, <2>1, MulMono
<1>4. ASSUME NEW k \in Int, k < p PROVE k * n + n <= a
  <2>1. k * n + n <= p * n /\ k * n \in Int
    BY <1>1, <1>4, MulMono
  <2> QED BY <1>1, <2>1
<1>5. a >= 0 => p \in Nat
  <2>1. (p + 1) * n = p * n + n
    BY <1>1, MulMono
  <2>2. a >= 0 => 0 * n < (p + 1) * n
    BY <1>1, <2>1
  <2>3. a >= 0 => 0 < p + 1
    BY <1>1, <2>2, MulMono
  <2> QED BY <1>1, <2>3
<1> QED BY <1>1, <1>3, <1>4, <1>5 DEF p, q

(* Whole periods before the quotient are over.                             *)
LEMMA BelowQuotient ==
  ASSUME NEW n \in Nat \ {0}, NEW a \in Int, NEW k \in Int, k < a \div n
  PROVE  k * n + n <= a
BY QuotientOrder

(* When a rule's first period is over.                                     *)
Due(r) ==
  LET day == DayNo(r.dtstart)
      last == IF r.freq = "MONTHLY" THEN FirstOfMonth(MonthOf(day) + 1) - 1
                                    ELSE FirstOfMonth(MonthIndex(YearOf(day) + 1, 1)) - 1
  IN  IF r.freq \in {"DAILY", "WEEKLY"} THEN r.dtstart ELSE At(last, TimeOf(r.dtstart))

(* `Jump ahead', by the kind of the rule.                                  *)
LEMMA JumpIs ==
  ASSUME NEW r, IsRule(r), NEW after \in Nat, NEW day, day = DayNo(r.dtstart)
  PROVE  /\ after < Due(r) => JumpAhead(r, after) = 0
         /\ ~(after < Due(r)) =>
              /\ r.freq = "DAILY" =>
                   JumpAhead(r, after) = ((after - r.dtstart) \div Day) \div r.interval
              /\ r.freq = "WEEKLY" =>
                   JumpAhead(r, after) = (after - r.dtstart) \div (7 * Day * r.interval)
              /\ r.freq = "MONTHLY" =>
                   JumpAhead(r, after) = (MonthOf(DayNo(after)) - MonthOf(day)) \div r.interval
              /\ r.freq = "YEARLY" =>
                   JumpAhead(r, after) = (YearOf(DayNo(after)) - YearOf(day)) \div r.interval
<1>1. after < Due(r) => JumpAhead(r, after) = 0
  BY DEF JumpAhead, Due
<1>2. ASSUME ~(after < Due(r))
      PROVE  JumpAhead(r, after) =
               CASE r.freq = "DAILY"   -> ((after - r.dtstart) \div Day) \div r.interval
                 [] r.freq = "WEEKLY"  -> (after - r.dtstart) \div (7 * Day * r.interval)
                 [] r.freq = "MONTHLY" -> (MonthOf(DayNo(after)) - MonthOf(day)) \div r.interval
                 [] r.freq = "YEARLY"  -> (YearOf(DayNo(after)) - YearOf(day)) \div r.interval
  BY <1>2 DEF JumpAhead, Due
<1> QED BY <1>1, <1>2 DEF IsRule, Freqs

(* When it jumps, DTSTART has gone by, and so have its month and its year. *)
LEMMA DueIs ==
  ASSUME NEW r, IsRule(r), NEW after \in Nat, NEW day, day = DayNo(r.dtstart)
  PROVE  /\ Due(r) \in Int /\ Due(r) >= r.dtstart
         /\ ~(after < Due(r)) =>
              /\ r.dtstart <= after
              /\ DayNo(after) \in Nat /\ MonthOf(DayNo(after)) \in Int /\ YearOf(DayNo(after)) \in Int
              /\ MonthOf(day) <= MonthOf(DayNo(after)) /\ YearOf(day) <= YearOf(DayNo(after))
<1>1. /\ r.dtstart \in Nat /\ day \in Nat /\ TimeOf(r.dtstart) \in Times
      /\ At(day, TimeOf(r.dtstart)) = r.dtstart /\ MonthOf(day) \in Int /\ YearOf(day) \in Int
  BY StartFacts DEF IsRule
<1>2. Due(r) \in Int /\ Due(r) >= r.dtstart
  <2>1. CASE r.freq \in {"DAILY", "WEEKLY"}
    BY <1>1, <2>1 DEF Due
  <2>2. CASE r.freq \notin {"DAILY", "WEEKLY"}
    <3>1. ASSUME NEW mi \in Int, mi > MonthOf(day)
          PROVE  /\ FirstOfMonth(mi) - 1 \in Int
                 /\ At(FirstOfMonth(mi) - 1, TimeOf(r.dtstart)) \in Int
                 /\ At(FirstOfMonth(mi) - 1, TimeOf(r.dtstart)) >= r.dtstart
      <4>1. MonthOf(day) + 1 \in Int /\ MonthOf(day) + 1 <= mi
        BY <1>1, <3>1
      <4>2. FirstOfMonth(MonthOf(day) + 1) <= FirstOfMonth(mi) /\ FirstOfMonth(mi) \in Int
        BY <4>1, MonthsInOrder, YearStarts
      <4>3. day < FirstOfMonth(MonthOf(day) + 1) /\ FirstOfMonth(MonthOf(day) + 1) \in Int
        BY <1>1, <4>1, MonthOfIs, YearStarts
      <4>4. FirstOfMonth(mi) - 1 \in Int /\ day <= FirstOfMonth(mi) - 1
        BY <1>1, <4>2, <4>3
      <4>5. At(FirstOfMonth(mi) - 1, TimeOf(r.dtstart)) \in Int
        BY <1>1, <4>4, InstantsOf
      <4>6. At(day, TimeOf(r.dtstart)) <= At(FirstOfMonth(mi) - 1, TimeOf(r.dtstart))
        BY <1>1, <4>4, InstantsInOrder
      <4> QED BY <1>1, <4>4, <4>5, <4>6
    <3>2. /\ MonthOf(day) + 1 \in Int /\ MonthOf(day) + 1 > MonthOf(day)
          /\ MonthIndex(YearOf(day) + 1, 1) \in Int /\ MonthIndex(YearOf(day) + 1, 1) > MonthOf(day)
      BY <1>1 DEF MonthIndex, YearOf
    <3> QED BY <2>2, <3>1, <3>2 DEF Due
  <2> QED BY <2>1, <2>2
<1>3. ASSUME ~(after < Due(r))
      PROVE  /\ r.dtstart <= after
             /\ DayNo(after) \in Nat /\ MonthOf(DayNo(after)) \in Int /\ YearOf(DayNo(after)) \in Int
             /\ MonthOf(day) <= MonthOf(DayNo(after)) /\ YearOf(day) <= YearOf(DayNo(after))
  <2>1. r.dtstart <= after
    BY <1>1, <1>2, <1>3
  <2>2. DayNo(after) \in Nat /\ TimeOf(after) \in Times /\ At(DayNo(after), TimeOf(after)) = after
    BY Instants
  <2>3. day <= DayNo(after)
    BY <1>1, <2>1, <2>2, InstantsInOrder
  <2>4. MonthOf(DayNo(after)) \in Int /\ MonthOf(day) <= MonthOf(DayNo(after))
    BY <1>1, <2>2, <2>3, MonthOfIs, MonthOfMono
  <2>5. YearOf(DayNo(after)) \in Int /\ YearOf(day) <= YearOf(DayNo(after))
    BY <1>1, <2>4 DEF YearOf
  <2> QED BY <2>1, <2>2, <2>4, <2>5
<1> QED BY <1>2, <1>3

(* It never jumps less far for a later instant.                            *)
LEMMA JumpGrows ==
  ASSUME NEW r, IsRule(r), NEW a \in Nat, NEW b \in Nat, a <= b
  PROVE  JumpAhead(r, a) \in Nat /\ JumpAhead(r, a) <= JumpAhead(r, b)
<1> DEFINE day == DayNo(r.dtstart)
<1>1. /\ r.dtstart \in Nat /\ r.interval \in Nat \ {0} /\ r.freq \in Freqs
      /\ MonthOf(day) \in Int /\ YearOf(day) \in Int
  BY StartFacts DEF IsRule
<1>2. \A t \in Nat : Due(r) \in Int /\ (~(t < Due(r)) => r.dtstart <= t)
  BY DueIs
<1>3. \A t \in Nat : t < Due(r) => JumpAhead(r, t) = 0
  BY JumpIs
<1>4. ASSUME NEW t \in Nat, ~(t < Due(r)), NEW u \in Nat, ~(u < Due(r)), t <= u
      PROVE  JumpAhead(r, t) \in Nat /\ JumpAhead(r, t) <= JumpAhead(r, u)
  <2>1. t - r.dtstart \in Nat /\ u - r.dtstart \in Nat /\ t - r.dtstart <= u - r.dtstart
    BY <1>1, <1>2, <1>4
  <2>2. CASE r.freq = "DAILY"
    <3> DEFINE p == (t - r.dtstart) \div Day
               q == (u - r.dtstart) \div Day
    <3>1. p \in Nat /\ q \in Nat /\ p <= q
      BY <2>1, HourDay, QuotientOrder
    <3>2. JumpAhead(r, t) = p \div r.interval /\ JumpAhead(r, u) = q \div r.interval
      BY <1>4, <2>2, JumpIs
    <3> HIDE DEF p, q
    <3> QED BY <1>1, <3>1, <3>2, QuotientOrder
  <2>3. CASE r.freq = "WEEKLY"
    <3>1. 7 * Day * r.interval \in Nat \ {0}
      <4>1. 7 * Day \in Nat \ {0}
        BY HourDay
      <4>2. \A x, y \in Nat \ {0} : x * y \in Nat \ {0}
        OBVIOUS
      <4> QED BY <1>1, <4>1, <4>2
    <3>2. /\ JumpAhead(r, t) = (t - r.dtstart) \div (7 * Day * r.interval)
          /\ JumpAhead(r, u) = (u - r.dtstart) \div (7 * Day * r.interval)
      BY <1>4, <2>3, JumpIs
    <3> QED BY <2>1, <3>1, <3>2, QuotientOrder
  <2>4. CASE r.freq \in {"MONTHLY", "YEARLY"}
    <3>1. /\ DayNo(t) \in Nat /\ DayNo(u) \in Nat
          /\ MonthOf(DayNo(t)) \in Int /\ MonthOf(day) <= MonthOf(DayNo(t))
          /\ MonthOf(DayNo(u)) \in Int
          /\ YearOf(DayNo(t)) \in Int /\ YearOf(day) <= YearOf(DayNo(t))
          /\ YearOf(DayNo(u)) \in Int
      BY <1>4, DueIs
    <3>2. DayNo(t) <= DayNo(u)
      <4>1. /\ TimeOf(t) \in Times /\ At(DayNo(t), TimeOf(t)) = t
            /\ TimeOf(u) \in Times /\ At(DayNo(u), TimeOf(u)) = u
        BY Instants
      <4> QED BY <1>4, <3>1, <4>1, InstantsInOrder
    <3>3. MonthOf(DayNo(t)) <= MonthOf(DayNo(u))
      BY <3>1, <3>2, MonthOfMono
    <3>4. YearOf(DayNo(t)) <= YearOf(DayNo(u))
      BY <3>1, <3>3 DEF YearOf
    <3>5. CASE r.freq = "MONTHLY"
      <4>1. /\ MonthOf(DayNo(t)) - MonthOf(day) \in Nat /\ MonthOf(DayNo(u)) - MonthOf(day) \in Nat
            /\ MonthOf(DayNo(t)) - MonthOf(day) <= MonthOf(DayNo(u)) - MonthOf(day)
        BY <1>1, <3>1, <3>3
      <4>2. /\ JumpAhead(r, t) = (MonthOf(DayNo(t)) - MonthOf(day)) \div r.interval
            /\ JumpAhead(r, u) = (MonthOf(DayNo(u)) - MonthOf(day)) \div r.interval
        BY <1>4, <3>5, JumpIs
      <4> QED BY <1>1, <4>1, <4>2, QuotientOrder
    <3>6. CASE r.freq = "YEARLY"
      <4>1. /\ YearOf(DayNo(t)) - YearOf(day) \in Nat /\ YearOf(DayNo(u)) - YearOf(day) \in Nat
            /\ YearOf(DayNo(t)) - YearOf(day) <= YearOf(DayNo(u)) - YearOf(day)
        BY <1>1, <3>1, <3>4
      <4>2. /\ JumpAhead(r, t) = (YearOf(DayNo(t)) - YearOf(day)) \div r.interval
            /\ JumpAhead(r, u) = (YearOf(DayNo(u)) - YearOf(day)) \div r.interval
        BY <1>4, <3>6, JumpIs
      <4> QED BY <1>1, <4>1, <4>2, QuotientOrder
    <3> QED BY <2>4, <3>5, <3>6
  <2> QED BY <1>1, <2>2, <2>3, <2>4 DEF Freqs
<1>5. ~(a < Due(r)) => ~(b < Due(r))
  BY <1>2
<1>6. CASE b < Due(r)
  BY <1>3, <1>5, <1>6
<1>7. CASE ~(b < Due(r))
  <2>1. JumpAhead(r, b) \in Nat
    BY <1>4, <1>7
  <2>2. CASE a < Due(r)
    BY <1>3, <2>1, <2>2
  <2>3. CASE ~(a < Due(r))
    BY <1>4, <1>7, <2>3
  <2> QED BY <2>2, <2>3
<1> QED BY <1>6, <1>7

(* Where the search begins, everything before it has gone by.              *)
LEMMA JumpPast ==
  ASSUME NEW r, IsRule(r), NEW after \in Nat, NEW k \in Nat, k < JumpAhead(r, after)
  PROVE  AllPast(r, k, after)
<1> DEFINE day == DayNo(r.dtstart)
           time == TimeOf(r.dtstart)
           m == (k + 1) * r.interval
           start == PeriodStart(r, k + 1)
<1>1. /\ r.dtstart \in Nat /\ r.interval \in Nat \ {0} /\ r.freq \in Freqs
      /\ day \in Nat /\ time \in Times /\ At(day, time) = r.dtstart
      /\ MonthOf(day) \in Int /\ YearOf(day) \in Int
  BY StartFacts DEF IsRule
<1>2. m \in Nat /\ m = k * r.interval + r.interval
  BY <1>1
<1>3. ~(after < Due(r))
  BY JumpIs
<1>4. /\ r.dtstart <= after /\ after - r.dtstart \in Int
      /\ DayNo(after) \in Nat /\ MonthOf(DayNo(after)) \in Int /\ YearOf(DayNo(after)) \in Int
  BY <1>1, <1>3, DueIs
<1>5. start \in Int
  BY PeriodStarts
<1>6. SUFFICES ASSUME NEW t \in Nat, TimeOf(t) = time, DayNo(t) < start PROVE t <= after
  <2>1. ASSUME NEW i \in DOMAIN Period(r, k), NEW t \in Period(r, k)[i]
        PROVE  t \in Nat /\ TimeOf(t) = time /\ DayNo(t) < start
    BY PeriodDates
  <2> HIDE DEF time, start
  <2> QED BY <1>6, <2>1 DEF AllPast
<1>7. DayNo(t) \in Nat /\ TimeOf(t) \in Times /\ At(DayNo(t), TimeOf(t)) = t
  BY Instants
<1>8. ASSUME start * Day <= after - r.dtstart + day * Day PROVE t <= after
  <2>1. t < At(start, time) /\ At(start, time) \in Int
    BY <1>1, <1>5, <1>6, <1>7, InstantsInOrder, InstantsOf
  <2>2. At(start, time) - r.dtstart = start * Day - day * Day
    <3>1. start * Day \in Int /\ day * Day \in Int /\ time \in Int
      BY <1>1, <1>5, HourDay DEF Times
    <3>2. r.dtstart = day * Day + time /\ At(start, time) = start * Day + time
      BY <1>1 DEF At
    <3> HIDE DEF day, time, start
    <3> QED BY <3>1, <3>2
  <2>3. start * Day \in Int /\ day * Day \in Int
    BY <1>1, <1>5, HourDay
  <2> HIDE DEF day, time, start
  <2> QED BY <1>1, <1>6, <1>8, <2>1, <2>2, <2>3
<1> HIDE DEF day, time, m
<1>9. CASE r.freq = "DAILY"
  <2> DEFINE p == (after - r.dtstart) \div Day
  <2>1. start = day + m
    BY <1>9 DEF PeriodStart, day, m
  <2>2. JumpAhead(r, after) = p \div r.interval
    BY <1>3, <1>9, JumpIs
  <2>3. p \in Int /\ p * Day <= after - r.dtstart /\ p * Day \in Int
    <3>1. p \in Int /\ (after - r.dtstart) % Day \in 0..(Day - 1)
          /\ after - r.dtstart = p * Day + ((after - r.dtstart) % Day)
      BY <1>4, HourDay, Division
    <3>2. p * Day \in Int
      BY <3>1, HourDay
    <3> HIDE DEF p
    <3> QED BY <1>4, <3>1, <3>2, HourDay
  <2> HIDE DEF p, start
  <2>4. m <= p
    BY <1>1, <1>2, <2>2, <2>3, BelowQuotient
  <2>5. m * Day <= p * Day /\ m * Day \in Int
    BY <1>2, <2>3, <2>4, HourDay, MulMono
  <2>6. start * Day = day * Day + m * Day /\ day * Day \in Int
    <3>1. \A d \in Int : (day + m) * d = day * d + m * d /\ day * d \in Int
      BY <1>1, <1>2
    <3> QED BY <2>1, <3>1, HourDay
  <2> QED BY <1>4, <1>8, <2>3, <2>5, <2>6 DEF start
<1>10. CASE r.freq = "WEEKLY"
  <2> DEFINE week == 7 * Day * r.interval
  <2>1. start = day + 7 * m
    BY <1>10 DEF PeriodStart, day, m
  <2>2. JumpAhead(r, after) = (after - r.dtstart) \div week
    BY <1>3, <1>10, JumpIs
  <2>3. week \in Nat \ {0}
    <3>1. 7 * Day \in Nat \ {0}
      BY HourDay
    <3>2. \A x, y \in Nat \ {0} : x * y \in Nat \ {0}
      OBVIOUS
    <3> QED BY <1>1, <3>1, <3>2
  <2>4. (7 * m) * Day = k * week + week
    <3>1. \A x, i, d \in Int : (7 * (x * i + i)) * d = x * (7 * d * i) + 7 * d * i
      OBVIOUS
    <3> QED BY <1>1, <1>2, <3>1, HourDay
  <2> HIDE DEF week, start
  <2>5. k * week + week <= after - r.dtstart
    BY <1>4, <2>2, <2>3, BelowQuotient
  <2>6. start * Day = day * Day + (7 * m) * Day /\ day * Day \in Int /\ (7 * m) * Day \in Int
    <3> DEFINE x == 7 * m
    <3>1. x \in Int /\ day \in Int /\ Day \in Int
      BY <1>1, <1>2, HourDay
    <3>2. start = day + x
      BY <2>1
    <3> HIDE DEF x
    <3>3. (day + x) * Day = day * Day + x * Day /\ day * Day \in Int /\ x * Day \in Int
      BY <3>1
    <3>4. start * Day = day * Day + x * Day /\ day * Day \in Int /\ x * Day \in Int
      BY <3>2, <3>3
    <3> QED BY <3>4 DEF x
  <2> QED BY <1>4, <1>8, <2>4, <2>5, <2>6 DEF start
<1>11. CASE r.freq \in {"MONTHLY", "YEARLY"}
  <2> DEFINE mi == IF r.freq = "MONTHLY" THEN MonthOf(day) + m ELSE MonthIndex(YearOf(day) + m, 1)
  <2>1. start = FirstOfMonth(mi)
    BY <1>11 DEF PeriodStart, day, m
  <2>2. mi \in Int
    BY <1>1, <1>2 DEF MonthIndex
  <2>3. mi <= MonthOf(DayNo(after))
    <3>1. CASE r.freq = "MONTHLY"
      <4>1. JumpAhead(r, after) = (MonthOf(DayNo(after)) - MonthOf(day)) \div r.interval
        BY <1>3, <3>1, JumpIs DEF day
      <4>2. m <= MonthOf(DayNo(after)) - MonthOf(day)
        <5>1. MonthOf(DayNo(after)) - MonthOf(day) \in Int
          BY <1>1, <1>4
        <5> QED BY <1>1, <1>2, <4>1, <5>1, BelowQuotient
      <4> QED BY <1>1, <1>2, <1>4, <3>1, <4>2
    <3>2. CASE r.freq = "YEARLY"
      <4>1. JumpAhead(r, after) = (YearOf(DayNo(after)) - YearOf(day)) \div r.interval
        BY <1>3, <3>2, JumpIs DEF day
      <4>2. m <= YearOf(DayNo(after)) - YearOf(day)
        <5>1. YearOf(DayNo(after)) - YearOf(day) \in Int
          BY <1>1, <1>4
        <5> QED BY <1>1, <1>2, <4>1, <5>1, BelowQuotient
      <4>3. mi = 12 * (YearOf(day) + m)
        BY <1>1, <1>2, <3>2 DEF MonthIndex
      <4>4. 12 * YearOf(DayNo(after)) <= MonthOf(DayNo(after))
        BY <1>4 DEF YearOf
      <4> HIDE DEF mi
      <4> QED BY <1>1, <1>2, <1>4, <2>2, <4>2, <4>3, <4>4
    <3> QED BY <1>11, <3>1, <3>2
  <2> HIDE DEF mi, start
  <2>4. start <= FirstOfMonth(MonthOf(DayNo(after)))
    BY <1>4, <2>1, <2>2, <2>3, MonthsInOrder
  <2>5. FirstOfMonth(MonthOf(DayNo(after))) <= DayNo(after)
        /\ FirstOfMonth(MonthOf(DayNo(after))) \in Int
    BY <1>4, MonthOfIs, YearStarts
  <2>6. DayNo(t) < DayNo(after)
    BY <1>4, <1>5, <1>6, <1>7, <2>4, <2>5 DEF start
  <2>7. TimeOf(after) \in Times /\ At(DayNo(after), TimeOf(after)) = after
    BY Instants
  <2> QED BY <1>4, <1>7, <2>6, <2>7, InstantsInOrder
<1> QED BY <1>1, <1>9, <1>10, <1>11 DEF Freqs

(* A list of candidates: the first that has a later one.                   *)
LEMMA FirstLaterIs ==
  ASSUME NEW N \in Nat, NEW p, DOMAIN p = 1..N, \A i \in 1..N : p[i] \in SUBSET Nat,
         NEW after \in Nat
  PROVE  \/ /\ FirstLater(p, after) = Absent
            /\ \A i \in 1..N : \A t \in p[i] : t <= after
         \/ \E i \in 1..N :
              /\ FirstLater(p, after) \in p[i] /\ FirstLater(p, after) > after
              /\ \A t \in p[i] : t > after => FirstLater(p, after) <= t
              /\ \A j \in 1..(i - 1) : \A t \in p[j] : t <= after
<1> DEFINE L == { i \in DOMAIN p : Later(p[i], after) # {} }
           i == Min(L)
<1>1. L \in SUBSET Nat
  OBVIOUS
<1>2. CASE L = {}
  <2>1. FirstLater(p, after) = Absent
    BY <1>2 DEF FirstLater
  <2>2. \A j \in 1..N : \A t \in p[j] : t <= after
    BY <1>2 DEF Later
  <2> QED BY <2>1, <2>2
<1>3. CASE L # {}
  <2>1. i \in L /\ \A j \in L : i <= j
    <3> HIDE DEF L
    <3> QED BY <1>1, <1>3, MinIs
  <2>2. i \in 1..N /\ Later(p[i], after) # {} /\ Later(p[i], after) \in SUBSET Nat
    BY <2>1 DEF Later
  <2>3. FirstLater(p, after) = Min(Later(p[i], after))
    BY <1>3 DEF FirstLater
  <2>4. /\ FirstLater(p, after) \in Later(p[i], after)
        /\ \A t \in Later(p[i], after) : FirstLater(p, after) <= t
    <3> HIDE DEF i
    <3> QED BY <2>2, <2>3, MinIs
  <2>5. ASSUME NEW j \in 1..(i - 1), NEW t \in p[j] PROVE t <= after
    <3>1. j \in 1..N /\ j < i /\ j \in Int /\ i \in Int
      BY <2>2, <2>5
    <3>2. j \notin L
      <4> HIDE DEF L, i
      <4> QED BY <2>1, <3>1
    <3> QED BY <3>1, <3>2 DEF Later
  <2>6. /\ FirstLater(p, after) \in p[i] /\ FirstLater(p, after) > after
        /\ \A t \in p[i] : t > after => FirstLater(p, after) <= t
    BY <2>4 DEF Later
  <2> HIDE DEF i
  <2> QED BY <2>2, <2>5, <2>6
<1> QED BY <1>2, <1>3

(* The same of a period: the first date that is later, in the first list   *)
(* that has one, or none, when all have gone by.                           *)
LEMMA FirstLaterOf ==
  ASSUME NEW r, IsRule(r), NEW k \in Nat, NEW after \in Nat,
         NEW date, date = FirstLater(Period(r, k), after)
  PROVE  /\ date = Absent <=> AllPast(r, k, after)
         /\ date # Absent => \E i \in DOMAIN Period(r, k) :
              /\ date \in Period(r, k)[i] /\ date \in Nat /\ date > after
              /\ \A t \in Period(r, k)[i] : t > after => date <= t
              /\ \A j \in DOMAIN Period(r, k) : j < i => \A t \in Period(r, k)[j] : t <= after
         /\ DOMAIN Period(r, k) \in SUBSET Nat
<1>1. PICK N \in Nat : DOMAIN Period(r, k) = 1..N
  <2>1. r.freq # "YEARLY" => DOMAIN Period(r, k) = 1..1
    <3>1. r.freq \in {"DAILY", "WEEKLY", "MONTHLY", "YEARLY"}
      BY DEF IsRule, Freqs
    <3>2. r.freq \in {"DAILY", "WEEKLY", "MONTHLY"} => DOMAIN Period(r, k) = {1}
      BY PeriodIs
    <3> QED BY <3>1, <3>2
  <2>2. r.freq = "YEARLY" => DOMAIN Period(r, k) = 1..Len(Months(r)) /\ Len(Months(r)) \in Nat
    BY PeriodIs, MonthsAre
  <2> QED BY <2>1, <2>2
<1> DEFINE p == Period(r, k)
<1>2. \A i \in 1..N : p[i] \in SUBSET Nat
  BY <1>1, PeriodDates
<1> HIDE DEF p
<1>3. DOMAIN p = 1..N /\ date = FirstLater(p, after)
  BY <1>1 DEF p
<1>4. CASE /\ date = Absent
           /\ \A i \in 1..N : \A t \in p[i] : t <= after
  <2>1. AllPast(r, k, after)
    BY <1>3, <1>4 DEF AllPast, p
  <2>2. DOMAIN Period(r, k) \in SUBSET Nat
    BY <1>1
  <2> QED BY <1>4, <2>1, <2>2
<1>5. CASE \E i \in 1..N :
              /\ date \in p[i] /\ date > after
              /\ \A t \in p[i] : t > after => date <= t
              /\ \A j \in 1..(i - 1) : \A t \in p[j] : t <= after
  <2>1. PICK i \in 1..N :
              /\ date \in p[i] /\ date > after
              /\ \A t \in p[i] : t > after => date <= t
              /\ \A j \in 1..(i - 1) : \A t \in p[j] : t <= after
    BY <1>5
  <2>2. date \in Nat
    BY <1>2, <2>1
  <2>3. date # Absent
    BY <2>2, CalendarAssumption
  <2>4. ~(date <= after)
    BY <2>1, <2>2
  <2>5. ~AllPast(r, k, after)
    BY <1>3, <2>1, <2>4 DEF AllPast, p
  <2>6. \A j \in DOMAIN p : j < i => \A t \in p[j] : t <= after
    BY <1>3, <2>1
  <2> QED BY <1>3, <2>1, <2>2, <2>3, <2>5, <2>6 DEF p
<1>6. \/ /\ FirstLater(p, after) = Absent
         /\ \A i \in 1..N : \A t \in p[i] : t <= after
      \/ \E i \in 1..N :
           /\ FirstLater(p, after) \in p[i] /\ FirstLater(p, after) > after
           /\ \A t \in p[i] : t > after => FirstLater(p, after) <= t
           /\ \A j \in 1..(i - 1) : \A t \in p[j] : t <= after
  <2>1. DOMAIN p = 1..N
    BY <1>3
  <2> QED BY <1>2, <2>1, FirstLaterIs
<1> QED BY <1>3, <1>4, <1>5, <1>6

(* The search ends in the first period with a later date, or in its last.  *)
LEMMA HitPeriodIs ==
  ASSUME NEW r, NEW after, NEW first \in Nat, NEW k, k = HitPeriod(r, after, first)
  PROVE  /\ k \in Nat /\ first <= k /\ k <= first + MaxPeriods - 1
         /\ k = first + MaxPeriods - 1 \/ FirstLater(Period(r, k), after) # Absent
         /\ \A j \in first..(k - 1) : FirstLater(Period(r, j), after) = Absent
<1> DEFINE last == first + MaxPeriods - 1
           Found(d) == d = last \/ FirstLater(Period(r, d), after) # Absent
           S == { d \in Nat : d >= first /\ Found(d) }
           Chosen(d) == /\ d = last \/ FirstLater(Period(r, d), after) # Absent
                        /\ \A j \in first..(d - 1) : FirstLater(Period(r, j), after) = Absent
<1>1. last \in Nat /\ last >= first
  BY CalendarAssumption
<1>2. last \in S /\ S \in SUBSET Nat
  BY <1>1
<1>3. PICK d \in S : \A e \in S : d <= e
  <2> HIDE DEF S
  <2> QED BY <1>2, Least
<1>4. d \in Nat /\ first <= d /\ d <= last /\ Found(d)
  BY <1>2, <1>3
<1>5. ASSUME NEW j \in first..(d - 1) PROVE FirstLater(Period(r, j), after) = Absent
  <2>1. j \in Nat /\ j >= first /\ j < d
    BY <1>4
  <2>2. j \notin S
    BY <1>3, <1>4, <2>1
  <2> QED BY <2>1, <2>2
<1>6. d \in first..last /\ Chosen(d)
  BY <1>1, <1>4, <1>5
<1>7. k = CHOOSE e \in first..last : Chosen(e)
  BY DEF HitPeriod
<1>8. k \in first..last /\ Chosen(k)
  <2> HIDE DEF Chosen, last
  <2> QED BY <1>6, <1>7
<1> HIDE DEF last
<1>9. k \in Nat /\ first <= k /\ k <= last
  BY <1>1, <1>8
<1> QED BY <1>8, <1>9 DEF last

(* What the search of a rule gives: from a period that everything before   *)
(* has gone by.                                                            *)
Hit(r, after) == HitPeriod(r, after, JumpAhead(r, after))

(* The period it ends in, and nextRRuleFire.                               *)
LEMMA HitIs ==
  ASSUME NEW r, IsRule(r), NEW after \in Nat, NEW k, k = Hit(r, after),
         NEW date, date = FirstLater(Period(r, k), after)
  PROVE  /\ k \in Nat /\ JumpAhead(r, after) \in Nat
         /\ JumpAhead(r, after) <= k /\ k <= JumpAhead(r, after) + MaxPeriods - 1
         /\ \A j \in Nat : j < k => AllPast(r, j, after)
         /\ date = Absent => k = JumpAhead(r, after) + MaxPeriods - 1 /\ AllPast(r, k, after)
         /\ NextRRuleFire(r, after) = Bounded(r, k, date)
<1> DEFINE first == JumpAhead(r, after)
<1>1. first \in Nat
  BY JumpGrows
<1>2. k = HitPeriod(r, after, first)
  BY DEF Hit
<1>3. NextRRuleFire(r, after) = Bounded(r, k, date)
  BY <1>2 DEF NextRRuleFire
<1> HIDE DEF first
<1>4. /\ k \in Nat /\ first <= k /\ k <= first + MaxPeriods - 1
      /\ k = first + MaxPeriods - 1 \/ FirstLater(Period(r, k), after) # Absent
      /\ \A j \in first..(k - 1) : FirstLater(Period(r, j), after) = Absent
  BY <1>1, <1>2, HitPeriodIs
<1>5. ASSUME NEW j \in Nat, j < k PROVE AllPast(r, j, after)
  <2>1. CASE j < first
    BY <2>1, JumpPast DEF first
  <2>2. CASE ~(j < first)
    <3>1. j \in first..(k - 1)
      BY <1>1, <1>4, <1>5, <2>2
    <3> QED BY <1>4, <3>1, FirstLaterOf
  <2> QED BY <2>1, <2>2
<1>6. date = Absent => k = first + MaxPeriods - 1 /\ AllPast(r, k, after)
  BY <1>4, FirstLaterOf
<1> QED BY <1>1, <1>3, <1>4, <1>5, <1>6 DEF first

(* The date of a rule, and the list it is found in.                        *)
LEMMA RRuleNext ==
  ASSUME NEW r, IsRule(r), NEW after \in Nat, NEW next, next = NextRRuleFire(r, after), next # Absent
  PROVE  /\ next \in Nat /\ next > after
         /\ next = FirstLater(Period(r, Hit(r, after)), after)
         /\ r.until # Absent => next <= r.until
         /\ r.count # Absent => Met(r, Hit(r, after)) <= r.count
<1> DEFINE k == Hit(r, after)
           date == FirstLater(Period(r, k), after)
<1>1. k \in Nat /\ next = Bounded(r, k, date)
  BY HitIs
<1>2. next = date /\ date # Absent /\ ~(r.count # Absent /\ Met(r, k) > r.count)
      /\ ~(r.until # Absent /\ date > r.until)
  <2> HIDE DEF k, date
  <2> QED BY <1>1 DEF Bounded
<1> HIDE DEF date, k
<1>3. date \in Nat /\ date > after
  BY <1>1, <1>2, FirstLaterOf DEF date
<1>4. r.until # Absent => date <= r.until
  BY <1>2, <1>3 DEF IsRule
<1>5. r.count # Absent => Met(r, k) <= r.count
  <2>1. Met(r, k) \in Int /\ (r.count # Absent => r.count \in Nat)
    BY <1>1 DEF IsRule, Met
  <2> QED BY <1>2, <2>1
<1> QED BY <1>2, <1>3, <1>4, <1>5 DEF date, k

(* Asked again before its date has come, a rule gives the same.            *)
LEMMA RRuleAgain ==
  ASSUME NEW r, IsRule(r), NEW a \in Nat, NEW b \in Nat, NextRRuleFire(r, a) # Absent,
         a <= b, b < NextRRuleFire(r, a)
  PROVE  NextRRuleFire(r, b) = NextRRuleFire(r, a)
<1> DEFINE k == Hit(r, a)
           l == Hit(r, b)
           p == Period(r, k)
           date == FirstLater(Period(r, k), a)
           new == FirstLater(Period(r, l), b)
<1>1. /\ k \in Nat /\ JumpAhead(r, a) \in Nat
      /\ JumpAhead(r, a) <= k /\ k <= JumpAhead(r, a) + MaxPeriods - 1
      /\ \A j \in Nat : j < k => AllPast(r, j, a)
      /\ NextRRuleFire(r, a) = Bounded(r, k, date)
  BY HitIs
<1>2. /\ l \in Nat /\ JumpAhead(r, b) \in Nat
      /\ JumpAhead(r, b) <= l /\ l <= JumpAhead(r, b) + MaxPeriods - 1
      /\ \A j \in Nat : j < l => AllPast(r, j, b)
      /\ new = Absent => l = JumpAhead(r, b) + MaxPeriods - 1 /\ AllPast(r, l, b)
      /\ NextRRuleFire(r, b) = Bounded(r, l, new)
  BY HitIs
<1>3. JumpAhead(r, a) <= JumpAhead(r, b)
  BY JumpGrows
<1>4. date = NextRRuleFire(r, a) /\ date \in Nat /\ b < date
  BY RRuleNext
<1> HIDE DEF k, l, date, new
<1>5. PICK i \in DOMAIN p :
        /\ date \in p[i]
        /\ \A t \in p[i] : t > a => date <= t
        /\ \A j \in DOMAIN p : j < i => \A t \in p[j] : t <= a
  <2>1. date # Absent
    BY <1>4, CalendarAssumption
  <2>2. date = FirstLater(p, a)
    BY DEF date
  <2>3. \E i \in DOMAIN p :
          /\ date \in p[i] /\ date \in Nat /\ date > a
          /\ \A t \in p[i] : t > a => date <= t
          /\ \A j \in DOMAIN p : j < i => \A t \in p[j] : t <= a
    BY <1>1, <2>1, <2>2, FirstLaterOf
  <2> QED BY <2>3
<1>6. ~AllPast(r, k, b)
  BY <1>4, <1>5 DEF AllPast
<1>7. l <= k
  BY <1>1, <1>2, <1>6
<1>8. l = k
  <2>1. CASE new = Absent
    <3> DEFINE m == JumpAhead(r, a)
               n == JumpAhead(r, b)
    <3>1. l = n + MaxPeriods - 1
      BY <1>2, <2>1
    <3>2. /\ m \in Nat /\ n \in Nat /\ m <= n /\ k <= m + MaxPeriods - 1
          /\ k \in Nat /\ l \in Nat
      BY <1>1, <1>2, <1>3
    <3> HIDE DEF m, n
    <3> QED BY <1>7, <3>1, <3>2, CalendarAssumption
  <2>2. CASE new # Absent
    <3>1. ~AllPast(r, l, b)
      BY <1>2, <2>2, FirstLaterOf DEF new
    <3>2. ASSUME l < k PROVE FALSE
      <4>1. AllPast(r, l, a)
        BY <1>1, <1>2, <3>2
      <4>2. ASSUME NEW j \in DOMAIN Period(r, l), NEW t \in Period(r, l)[j] PROVE t <= b
        <5>1. t \in Nat /\ t <= a
          BY <1>2, <4>1, PeriodDates DEF AllPast
        <5> QED BY <5>1
      <4>3. AllPast(r, l, b)
        BY <4>2 DEF AllPast
      <4> QED BY <3>1, <4>3
    <3> QED BY <1>1, <1>2, <1>7, <3>2
  <2> QED BY <2>1, <2>2
<1>9. new # Absent /\ new = FirstLater(Period(r, k), b)
  BY <1>2, <1>6, <1>8 DEF new
<1>10. PICK h \in DOMAIN p :
        /\ new \in p[h] /\ new \in Nat /\ new > b
        /\ \A t \in p[h] : t > b => new <= t
        /\ \A j \in DOMAIN p : j < h => \A t \in p[j] : t <= b
  BY <1>1, <1>9, FirstLaterOf
<1>11. DOMAIN p \in SUBSET Nat
  BY <1>1, FirstLaterOf
<1>12. ~(i < h)
  BY <1>4, <1>5, <1>10
<1>13. ~(h < i)
  BY <1>4, <1>5, <1>10
<1>14. h = i
  <2>1. h \in Nat /\ i \in Nat
    BY <1>11
  <2> QED BY <1>12, <1>13, <2>1
<1>15. new = date
  <2>1. new <= date
    BY <1>4, <1>5, <1>10, <1>14
  <2>2. date <= new
    BY <1>4, <1>5, <1>10, <1>14
  <2> QED BY <1>4, <1>10, <2>1, <2>2
<1> QED BY <1>1, <1>2, <1>8, <1>15

(* The date that was computed when it was asked for.                       *)
DateFrom(e, reference) ==
  CASE e.kind = "date"               -> e.date
    [] e.kind \in {"duration", "cycle"} -> AddDuration(reference, e.duration)
    [] e.kind = "cron"               -> NextCronFire(ParseCron(e.cron), reference)
    [] e.kind = "rrule"              -> NextRRuleFire(RuleOf(e), reference)

TypeInv ==
  /\ expr \in Expressions /\ asked \in Nat /\ nextFireAt \in Nat \cup {Absent}
  /\ remaining \in Int \cup {Absent} /\ fires \in Seq(Nat) /\ deploys \in Nat /\ revived \in Nat

(* A date that is due is the one its expression gives for the instant it   *)
(* was asked from; one that has none before its deployment, and afterwards *)
(* only when the expression gives none.                                    *)
DateIsComputed ==
  /\ deploys = 0 => nextFireAt = Absent /\ fires = <<>> /\ asked = 0
  /\ nextFireAt # Absent => nextFireAt = DateFrom(expr, asked)
  /\ deploys > 0 /\ expr.kind = "rrule" => nextFireAt = DateFrom(expr, asked)

(* What has fired is past.                                                 *)
FiredIsPast == \A i \in DOMAIN fires : fires[i] <= asked

(* What fires for different dates does so in their order.                  *)
FiresInOrder == expr.kind # "date" => \A i, j \in DOMAIN fires : i < j => fires[i] < fires[j]

(* The cursor counts down what a bounded cycle has left; below zero it     *)
(* counts what deployments have added.                                     *)
CursorCounts ==
  /\ expr.kind # "cycle" \/ fires = <<>> => remaining = Absent
  /\ expr.kind = "cycle" /\ expr.repetitions = Absent => remaining = Absent
  /\ expr.kind = "cycle" /\ expr.repetitions # Absent /\ fires # <<>> =>
       remaining = expr.repetitions - Len(fires)

(* What has a date has a shot left: one of its own, or one that came with  *)
(* a deployment.                                                           *)
ShotsLeft ==
  IsBounded => /\ Len(fires) <= Shots + revived
               /\ nextFireAt # Absent => Len(fires) < Shots + revived

IInv == TypeInv /\ DateIsComputed /\ FiredIsPast /\ CursorCounts /\ ShotsLeft

(* What a date is, by the kind of the expression: cron and rules are       *)
(* strictly ahead, durations as far as they take time.                     *)
LEMMA NextDates ==
  ASSUME NEW e \in Expressions, NEW t \in Nat, NEW next, next = DateFrom(e, t)
  PROVE  /\ e.kind \in {"date", "duration", "cycle", "cron", "rrule"}
         /\ e.kind = "date" => next = e.date /\ next \in Nat
         /\ e.kind \in {"duration", "cycle"} =>
              /\ next = AddDuration(t, e.duration) /\ next \in Nat /\ next >= t
              /\ TakesTime(e.duration) => next > t
         /\ e.kind = "cron" =>
              /\ next = NextCronFire(ParseCron(e.cron), t)
              /\ next # Throws => next \in Nat /\ next > t
         /\ e.kind = "rrule" =>
              /\ IsRule(RuleOf(e)) /\ next = NextRRuleFire(RuleOf(e), t)
              /\ next # Absent => next \in Nat /\ next > t
<1>1. /\ e.kind \in {"date", "duration", "cycle", "cron", "rrule"}
      /\ e.kind = "date" => e.date \in Nat
      /\ e.kind \in {"duration", "cycle"} => e.duration \in Durations
  BY ExpressionsAssumption
<1>2. /\ e.kind = "date" => next = e.date
      /\ e.kind \in {"duration", "cycle"} => next = AddDuration(t, e.duration)
      /\ e.kind = "cron" => next = NextCronFire(ParseCron(e.cron), t)
      /\ e.kind = "rrule" => next = NextRRuleFire(RuleOf(e), t)
  BY <1>1 DEF DateFrom
<1>3. ASSUME e.kind \in {"duration", "cycle"}
      PROVE  next \in Nat /\ next >= t /\ (TakesTime(e.duration) => next > t)
  BY <1>1, <1>2, <1>3, DurationsGoForward
<1>4. ASSUME e.kind = "cron", next # Throws PROVE next \in Nat /\ next > t
  BY <1>2, <1>4, CronNext
<1>5. ASSUME e.kind = "rrule" PROVE IsRule(RuleOf(e)) /\ (next # Absent => next \in Nat /\ next > t)
  <2>1. IsRule(RuleOf(e))
    BY <1>5, ParsedRules DEF Rules
  <2> QED BY <1>2, <1>5, <2>1, RRuleNext
<1> QED BY <1>1, <1>2, <1>3, <1>4, <1>5

(* computeNextFire throws or gives the date;                               *)
LEMMA FirstAnswer ==
  ASSUME NEW e \in Expressions, NEW t \in Nat, ComputeNextFire(e, t) # Throws
  PROVE  ComputeNextFire(e, t) = DateFrom(e, t) /\ DateFrom(e, t) \in Nat
<1>1. CASE e.kind # "rrule"
  <2>1. ComputeNextFire(e, t) = DateFrom(e, t)
    BY <1>1, NextDates DEF ComputeNextFire
  <2> QED BY <1>1, <2>1, NextDates
<1>2. CASE e.kind = "rrule"
  <2> DEFINE next == NextRRuleFire(RuleOf(e), t)
  <2>1. ComputeNextFire(e, t) = EarliestOr(Throws, {next} \ {Absent})
    BY <1>2 DEF ComputeNextFire, RuleOf
  <2>2. next = DateFrom(e, t) /\ (next # Absent => next \in Nat)
    BY <1>2, NextDates
  <2> HIDE DEF next
  <2>3. next # Absent
    BY <2>1 DEF EarliestOr
  <2>4. ComputeNextFire(e, t) = Min({next})
    BY <2>1, <2>3 DEF EarliestOr
  <2>5. Min({next}) \in {next}
    BY <2>2, <2>3, MinIs
  <2> QED BY <2>2, <2>3, <2>4, <2>5
<1> QED BY <1>1, <1>2

(* computeNextFireAfter gives it or nothing, and after the last repetition *)
(* nothing.                                                                *)
LEMMA AnswerAfterFire ==
  ASSUME NEW e \in Expressions, NEW t \in Nat, NEW reps \in Int \cup {Absent},
         NEW next, next = ComputeNextFireAfter(e, t, reps), next # Throws
  PROVE  /\ next \in Nat \cup {Absent}
         /\ next # Absent => next = DateFrom(e, t)
         /\ e.kind \in {"date", "duration"} => next = Absent
         /\ e.kind = "cycle" /\ reps # Absent /\ next # Absent => reps > 0
         /\ e.kind = "rrule" => next = DateFrom(e, t)
<1>1. CASE e.kind \in {"date", "duration"}
  BY <1>1 DEF ComputeNextFireAfter
<1>2. CASE e.kind = "cycle"
  <2>1. next = IF reps # Absent /\ reps <= 0 THEN Absent ELSE AddDuration(t, e.duration)
    BY <1>2 DEF ComputeNextFireAfter
  <2>2. AddDuration(t, e.duration) = DateFrom(e, t) /\ DateFrom(e, t) \in Nat
    BY <1>2, NextDates
  <2>3. reps # Absent /\ next # Absent => reps > 0
    BY <2>1
  <2> QED BY <1>2, <2>1, <2>2, <2>3
<1>3. CASE e.kind = "cron"
  <2>1. next = NextCronFire(ParseCron(e.cron), t)
    BY <1>3 DEF ComputeNextFireAfter
  <2> QED BY <1>3, <2>1, NextDates
<1>4. CASE e.kind = "rrule"
  <2>1. next = NextRRuleFire(RuleOf(e), t)
    BY <1>4 DEF ComputeNextFireAfter, RuleOf
  <2> QED BY <1>4, <2>1, NextDates
<1> QED BY <1>1, <1>2, <1>3, <1>4, NextDates

(* The later of two instants.                                              *)
LEMMA MaxOfTwo ==
  ASSUME NEW a \in Nat, NEW b \in Nat
  PROVE  Max({a, b}) \in Nat /\ Max({a, b}) >= a /\ Max({a, b}) >= b
<1>1. \E x \in {a, b} : \A y \in {a, b} : x >= y
  OBVIOUS
<1>2. Max({a, b}) \in {a, b} /\ \A y \in {a, b} : Max({a, b}) >= y
  BY <1>1 DEF Max
<1> QED BY <1>2

(* What a step of the schedule does: it is deployed or fires at a `now'    *)
(* that is not before the instant its date was asked from.                 *)
LEMMA Steps ==
  ASSUME TypeInv, Next
  PROVE  \E now \in Nat : Deploy(now) \/ (now >= asked /\ nextFireAt \in Nat /\ Fire(now))
<1>1. CASE \E now \in FirstAsked : Deploy(now)
  BY <1>1, CalendarAssumption
<1>2. CASE \E late \in Delays : Deploy(asked + late)
  BY <1>2, CalendarAssumption DEF TypeInv
<1>3. CASE nextFireAt # Absent /\ \E late \in Delays : Fire(Max({nextFireAt, asked}) + late)
  <2>1. PICK late \in Delays : Fire(Max({nextFireAt, asked}) + late)
    BY <1>3
  <2>2. late \in Nat /\ asked \in Nat /\ nextFireAt \in Nat
    BY <1>3, CalendarAssumption DEF TypeInv
  <2> DEFINE m == Max({nextFireAt, asked})
  <2>3. m \in Nat /\ m >= asked
    BY <2>2, MaxOfTwo
  <2> HIDE DEF m
  <2>4. m + late \in Nat /\ m + late >= asked
    BY <2>2, <2>3
  <2> QED BY <2>1, <2>2, <2>4 DEF m
<1> QED BY <1>1, <1>2, <1>3 DEF Next

(* How often a bounded expression says it fires.                           *)
LEMMA ShotsAre ==
  ASSUME expr \in Expressions, IsBounded
  PROVE  /\ Shots \in Nat /\ Shots >= 1
         /\ expr.kind = "cycle" => /\ expr.repetitions \in Nat
                                  /\ expr.repetitions # Absent
                                  /\ Shots >= expr.repetitions
<1>1. CASE expr.kind = "cycle"
  <2>1. expr.repetitions \in Nat /\ expr.repetitions # Absent
    BY <1>1, ExpressionsAssumption DEF IsBounded
  <2> QED BY <1>1, <2>1, MaxOfTwo DEF Shots
<1>2. CASE expr.kind # "cycle"
  BY <1>2 DEF Shots
<1> QED BY <1>1, <1>2

------------------------------------------------------------------------------
(* The schedule: the invariant, step by step.                              *)

LEMMA Initially == Init => IInv /\ FiresInOrder
<1> SUFFICES ASSUME Init PROVE IInv /\ FiresInOrder
  OBVIOUS
<1>1. ShotsLeft
  BY ShotsAre DEF Init, ShotsLeft
<1> QED BY <1>1 DEF Init, IInv, TypeInv, DateIsComputed, FiredIsPast, CursorCounts, FiresInOrder

(* What a deployment and a fire do to the invariant.                       *)
LEMMA DeployKeeps ==
  ASSUME IInv, NEW now \in Nat, Deploy(now)
  PROVE  IInv' /\ asked <= now /\ nextFireAt' = DateFrom(expr, now)
<1> USE DEF IInv
<1>1. /\ expr \in Expressions /\ asked \in Nat /\ deploys \in Nat
      /\ expr' = expr /\ remaining' = remaining /\ fires' = fires
      /\ deploys' = deploys + 1 /\ asked' = now /\ nextFireAt' = ComputeNextFire(expr, now)
      /\ ComputeNextFire(expr, now) # Throws /\ asked <= now
      /\ revived' = revived + (IF deploys > 0 /\ nextFireAt = Absent THEN 1 ELSE 0)
  BY DEF Deploy, TypeInv
<1>2. nextFireAt' = DateFrom(expr, now) /\ nextFireAt' \in Nat
  BY <1>1, FirstAnswer
<1>3. asked <= now
  BY <1>1
<1>4. TypeInv'
  BY <1>1, <1>2 DEF TypeInv
<1>5. DateIsComputed'
  BY <1>1, <1>2 DEF DateIsComputed
<1>6. FiredIsPast'
  <2>1. ASSUME NEW i \in DOMAIN fires PROVE fires[i] <= now
    <3>1. fires[i] \in Nat /\ fires[i] <= asked
      BY <2>1 DEF TypeInv, FiredIsPast
    <3> QED BY <1>1, <1>3, <3>1
  <2> QED BY <1>1, <2>1 DEF FiredIsPast
<1>7. CursorCounts'
  BY <1>1 DEF CursorCounts
<1>8. ShotsLeft'
  <2> SUFFICES ASSUME IsBounded PROVE Len(fires) < Shots + revived'
    <3>1. Shots' = Shots /\ IsBounded' = IsBounded
      BY <1>1 DEF Shots, IsBounded
    <3>2. IsBounded => Shots \in Nat /\ Len(fires) \in Nat /\ revived' \in Nat
      BY <1>1, <1>4, ShotsAre DEF TypeInv
    <3> QED BY <1>1, <3>1, <3>2 DEF ShotsLeft
  <2>1. Shots \in Nat /\ Shots >= 1 /\ revived \in Nat /\ Len(fires) \in Nat
    BY <1>1, ShotsAre DEF TypeInv
  <2>2. Len(fires) <= Shots + revived /\ (nextFireAt # Absent => Len(fires) < Shots + revived)
    BY DEF ShotsLeft
  <2>3. CASE deploys = 0
    <3>1. fires = <<>> /\ revived' = revived
      BY <1>1, <2>1, <2>3 DEF DateIsComputed
    <3> QED BY <2>1, <3>1
  <2>4. CASE deploys # 0
    <3>1. deploys > 0
      BY <1>1, <2>4
    <3> HIDE DEF Shots
    <3> QED BY <1>1, <2>1, <2>2, <3>1
  <2> QED BY <2>3, <2>4
<1> QED BY <1>2, <1>3, <1>4, <1>5, <1>6, <1>7, <1>8

LEMMA FireKeeps ==
  ASSUME IInv, NEW now \in Nat, now >= asked, nextFireAt \in Nat, Fire(now)
  PROVE  IInv' /\ fires' = Append(fires, nextFireAt)
<1> USE DEF IInv
<1> DEFINE reps == IF remaining = Absent /\ expr.kind = "cycle" THEN expr.repetitions ELSE remaining
           after == IF reps = Absent THEN Absent ELSE reps - 1
<1>1. /\ expr \in Expressions /\ asked \in Nat /\ deploys \in Nat /\ fires \in Seq(Nat)
      /\ expr' = expr /\ deploys' = deploys /\ asked' = now /\ remaining' = after
      /\ revived' = revived
      /\ fires' = Append(fires, nextFireAt) /\ nextFireAt <= now
      /\ nextFireAt' = ComputeNextFireAfter(expr, now, after) /\ nextFireAt' # Throws
  BY DEF Fire, TypeInv
<1>2. nextFireAt # Absent /\ Absent \notin Int
  BY CalendarAssumption
<1>3. after \in Int \cup {Absent}
  <2>1. expr.kind = "cycle" => expr.repetitions \in Nat \cup {Absent}
    BY <1>1, ExpressionsAssumption
  <2> QED BY <1>2, <2>1 DEF TypeInv
<1>4. /\ nextFireAt' \in Nat \cup {Absent}
      /\ nextFireAt' # Absent => nextFireAt' = DateFrom(expr, now)
      /\ expr.kind \in {"date", "duration"} => nextFireAt' = Absent
      /\ expr.kind = "cycle" /\ after # Absent /\ nextFireAt' # Absent => after > 0
      /\ expr.kind = "rrule" => nextFireAt' = DateFrom(expr, now)
  <2> HIDE DEF after
  <2> QED BY <1>1, <1>3, AnswerAfterFire
<1>5. fires' # <<>> /\ Len(fires') = Len(fires) + 1 /\ fires' \in Seq(Nat)
  BY <1>1
<1>6. TypeInv'
  <2> HIDE DEF after
  <2> QED BY <1>1, <1>3, <1>4, <1>5 DEF TypeInv
<1>7. DateIsComputed'
  <2> HIDE DEF after
  <2>1. deploys # 0
    BY <1>2 DEF DateIsComputed
  <2> QED BY <1>1, <1>4, <2>1 DEF DateIsComputed
<1>8. FiredIsPast'
  <2>1. ASSUME NEW i \in DOMAIN fires' PROVE fires'[i] <= now
    <3>1. CASE i \in DOMAIN fires
      <4>1. fires'[i] = fires[i] /\ fires[i] \in Nat /\ fires[i] <= asked
        BY <1>1, <3>1 DEF FiredIsPast
      <4> QED BY <1>1, <4>1
    <3>2. CASE i \notin DOMAIN fires
      <4>1. fires'[i] = nextFireAt
        BY <1>1, <2>1, <3>2
      <4> QED BY <1>1, <4>1
    <3> QED BY <3>1, <3>2
  <2> QED BY <1>1, <2>1 DEF FiredIsPast
<1>9. ASSUME expr.kind = "cycle", expr.repetitions # Absent
      PROVE  after \in Int /\ after # Absent /\ after = expr.repetitions - Len(fires')
  <2>1. expr.repetitions \in Nat
    BY <1>1, <1>9, ExpressionsAssumption
  <2>2. CASE fires = <<>>
    <3>1. reps = expr.repetitions /\ after = expr.repetitions - 1
      BY <1>2, <1>9, <2>1, <2>2 DEF CursorCounts
    <3>2. Len(fires') = 1
      BY <1>5, <2>2
    <3> QED BY <1>2, <2>1, <3>1, <3>2
  <2>3. CASE fires # <<>>
    <3>1. remaining = expr.repetitions - Len(fires) /\ Len(fires) \in Nat
      BY <1>1, <1>9, <2>3 DEF CursorCounts
    <3>2. remaining \in Int /\ remaining # Absent
      BY <1>2, <2>1, <3>1
    <3>3. after = remaining - 1
      BY <1>2, <3>2
    <3> HIDE DEF after
    <3> QED BY <1>2, <1>5, <2>1, <3>1, <3>2, <3>3
  <2> QED BY <2>2, <2>3
<1>10. CursorCounts'
  <2>1. CASE expr.kind # "cycle"
    BY <1>1, <2>1 DEF CursorCounts
  <2>2. CASE expr.kind = "cycle" /\ expr.repetitions = Absent
    BY <1>1, <1>5, <2>2 DEF CursorCounts
  <2>3. CASE expr.kind = "cycle" /\ expr.repetitions # Absent
    <3> HIDE DEF after
    <3> QED BY <1>1, <1>5, <1>9, <2>3 DEF CursorCounts
  <2> QED BY <2>1, <2>2, <2>3
<1>11. ShotsLeft'
  <2> HIDE DEF after
  <2>1. Shots' = Shots /\ IsBounded' = IsBounded
    BY <1>1 DEF Shots, IsBounded
  <2> SUFFICES ASSUME IsBounded
               PROVE  /\ Len(fires') <= Shots + revived
                      /\ nextFireAt' # Absent => Len(fires') < Shots + revived
    BY <1>1, <2>1 DEF ShotsLeft
  <2>2. Len(fires) < Shots + revived /\ Len(fires) \in Nat /\ revived \in Nat /\ Shots \in Nat
    BY <1>1, <1>2, ShotsAre DEF ShotsLeft, TypeInv
  <2>3. Len(fires') <= Shots + revived
    BY <1>5, <2>2
  <2>4. ASSUME nextFireAt' # Absent PROVE Len(fires') < Shots + revived
    <3>1. expr.kind = "cycle" /\ expr.repetitions # Absent
      BY <1>4, <2>4 DEF IsBounded
    <3>2. expr.repetitions \in Nat /\ Shots >= expr.repetitions
      BY <1>1, <3>1, ShotsAre
    <3>3. after > 0 /\ after = expr.repetitions - Len(fires') /\ Len(fires') \in Nat
      BY <1>4, <1>5, <1>9, <2>2, <2>4, <3>1
    <3> HIDE DEF Shots
    <3>4. Len(fires') < expr.repetitions
      BY <3>2, <3>3
    <3> QED BY <2>2, <3>2, <3>3, <3>4
  <2> QED BY <2>3, <2>4
<1> QED BY <1>1, <1>6, <1>7, <1>8, <1>10, <1>11

LEMMA IInvStep == IInv /\ [Next]_vars => IInv'
<1> SUFFICES ASSUME IInv, [Next]_vars PROVE IInv'
  OBVIOUS
<1>1. CASE Next
  <2>1. PICK now \in Nat : Deploy(now) \/ (now >= asked /\ nextFireAt \in Nat /\ Fire(now))
    BY <1>1, Steps DEF IInv
  <2> QED BY <2>1, DeployKeeps, FireKeeps
<1>2. CASE UNCHANGED vars
  BY <1>2 DEF vars, IInv, TypeInv, DateIsComputed, FiredIsPast, CursorCounts, ShotsLeft, IsBounded, Shots
<1> QED BY <1>1, <1>2

------------------------------------------------------------------------------
(* No date twice, and a redeployment.                                      *)

(* A date that is due, other than that of a `date', is after the instant   *)
(* it was asked from.                                                      *)
LEMMA DatesAreAhead ==
  ASSUME DurationsTakeTime, IInv, nextFireAt # Absent
  PROVE  nextFireAt \in Nat /\ (expr.kind = "date" \/ nextFireAt > asked)
<1>1. expr \in Expressions /\ asked \in Nat /\ nextFireAt \in Nat
  BY DEF IInv, TypeInv
<1>2. nextFireAt = DateFrom(expr, asked)
  BY DEF IInv, DateIsComputed
<1>3. nextFireAt # Throws
  BY <1>1, CalendarAssumption
<1>4. expr.kind \in {"duration", "cycle"} => TakesTime(expr.duration)
  BY <1>1 DEF DurationsTakeTime
<1> QED BY <1>1, <1>2, <1>3, <1>4, NextDates

(* A fire is later than those before: they had gone by when its date was   *)
(* asked for.                                                              *)
LEMMA FiresStayInOrder ==
  ASSUME DurationsTakeTime PROVE IInv /\ FiresInOrder /\ [Next]_vars => FiresInOrder'
<1> SUFFICES ASSUME IInv, FiresInOrder, [Next]_vars PROVE FiresInOrder'
  OBVIOUS
<1>1. expr' = expr
  BY DEF vars, Next, Deploy, Fire
<1>2. CASE fires' = fires \/ expr.kind = "date"
  BY <1>1, <1>2 DEF FiresInOrder
<1>3. CASE fires' # fires /\ expr.kind # "date"
  <2>1. Next
    BY <1>3 DEF vars
  <2>2. PICK now \in Nat : Deploy(now) \/ (now >= asked /\ nextFireAt \in Nat /\ Fire(now))
    BY <2>1, Steps DEF IInv
  <2>3. now >= asked /\ nextFireAt \in Nat /\ Fire(now)
    BY <1>3, <2>2 DEF Deploy
  <2>4. fires' = Append(fires, nextFireAt) /\ fires \in Seq(Nat) /\ nextFireAt # Absent
    BY <2>3, FireKeeps, CalendarAssumption DEF IInv, TypeInv
  <2>5. ASSUME NEW i \in DOMAIN fires PROVE fires[i] < nextFireAt
    <3>1. fires # <<>> /\ fires[i] \in Nat /\ fires[i] <= asked /\ asked \in Nat
      BY <2>4, <2>5 DEF IInv, TypeInv, FiredIsPast
    <3>2. nextFireAt > asked
      BY <1>3, <2>4, DatesAreAhead
    <3> QED BY <2>3, <3>1, <3>2
  <2>6. ASSUME NEW i \in DOMAIN fires', NEW j \in DOMAIN fires', i < j PROVE fires'[i] < fires'[j]
    <3>1. i \in DOMAIN fires /\ fires'[i] = fires[i]
      BY <2>4, <2>6
    <3>2. CASE j \in DOMAIN fires
      <4>1. fires'[j] = fires[j]
        BY <2>4, <3>2
      <4> QED BY <1>3, <2>6, <3>1, <3>2, <4>1 DEF FiresInOrder
    <3>3. CASE j \notin DOMAIN fires
      <4>1. fires'[j] = nextFireAt
        BY <2>4, <2>6, <3>3
      <4> QED BY <2>5, <3>1, <4>1
    <3> QED BY <3>2, <3>3
  <2> QED BY <2>6 DEF FiresInOrder
<1> QED BY <1>2, <1>3

LEMMA ImpliesNoDateTwice ==
  ASSUME DurationsTakeTime, IInv, FiresInOrder PROVE NoDateTwice
<1>1. nextFireAt # Absent => expr.kind = "date" \/ nextFireAt > asked
  BY DatesAreAhead
<1>2. IsBounded => Len(fires) <= Shots + revived
  BY DEF IInv, ShotsLeft
<1> QED BY <1>1, <1>2 DEF NoDateTwice, FiresInOrder

(* Nothing but a `date' fires twice for one date, and a date, a duration   *)
(* and a bounded cycle fire no more often than they say, and once more for *)
(* every deployment that found them exhausted (persistFireResult,          *)
(* computeNextFireAfter, syncTriggerSchedules), whenever and however often *)
(* they are deployed; for every set of expressions whose durations take    *)
(* time: with R/PT0S the next date is the instant itself.                  *)
THEOREM EveryDateFiresOnce == DurationsTakeTime => (Spec => []NoDateTwice)
<1> SUFFICES ASSUME DurationsTakeTime PROVE Spec => []NoDateTwice
  OBVIOUS
<1> DEFINE J == IInv /\ FiresInOrder
<1>1. Init => J
  BY Initially
<1>2. J /\ [Next]_vars => J'
  BY IInvStep, FiresStayInOrder
<1>3. J => NoDateTwice
  BY ImpliesNoDateTwice
<1> HIDE DEF J
<1> QED BY <1>1, <1>2, <1>3, PTL DEF Spec

(* A schedule's date is always the one its expression gives for the        *)
(* instant it was asked from, its cursor counts what is left of a cycle,   *)
(* and what has fired is past (syncTriggerSchedules, persistFireResult).   *)
THEOREM IInvIsInvariant == Spec => []IInv
BY Initially, IInvStep, PTL DEF Spec

LEMMA DeployedAgain ==
  ASSUME IInv, NEW now \in Nat, Deploy(now), nextFireAt # Absent, now < nextFireAt,
         expr.kind \in {"date", "cron", "rrule"}
  PROVE  nextFireAt' = nextFireAt
<1>1. /\ expr \in Expressions /\ asked \in Nat /\ nextFireAt \in Nat
      /\ asked <= now /\ now < nextFireAt /\ nextFireAt # Absent
  BY DEF IInv, TypeInv, Deploy
<1>2. nextFireAt = DateFrom(expr, asked)
  BY <1>1 DEF IInv, DateIsComputed
<1>3. nextFireAt' = DateFrom(expr, now) /\ nextFireAt' # Throws
  BY DeployKeeps DEF Deploy
<1>4. nextFireAt # Throws
  BY <1>1, CalendarAssumption
<1>5. CASE expr.kind = "date"
  BY <1>1, <1>2, <1>3, <1>5, NextDates
<1>6. CASE expr.kind = "cron"
  <2>1. nextFireAt = NextCronFire(ParseCron(expr.cron), asked)
        /\ nextFireAt' = NextCronFire(ParseCron(expr.cron), now)
    BY <1>1, <1>2, <1>3, <1>6, NextDates
  <2> QED BY <1>1, <1>3, <1>4, <2>1, CronAgain
<1>7. CASE expr.kind = "rrule"
  <2>1. nextFireAt = NextRRuleFire(RuleOf(expr), asked)
        /\ nextFireAt' = NextRRuleFire(RuleOf(expr), now) /\ IsRule(RuleOf(expr))
    BY <1>1, <1>2, <1>3, <1>7, NextDates
  <2> QED BY <1>1, <2>1, RRuleAgain
<1> QED BY <1>5, <1>6, <1>7

(* Deploying a definition again leaves the date of its timer start event   *)
(* as it is, for a date, a cron expression and a rule, whenever before     *)
(* that date and however often it is deployed: the search from later on    *)
(* ends in the same period.                                                *)
THEOREM RedeployKeeps == Spec => RedeployKeepsTheDate
<1>1. IInv /\ [Next]_vars
        => [ (/\ expr.kind \in {"date", "cron", "rrule"}
              /\ fires' = fires
              /\ nextFireAt # Absent
              /\ asked' < nextFireAt)
               => nextFireAt' = nextFireAt ]_vars
  <2> SUFFICES ASSUME IInv, Next, fires' = fires, expr.kind \in {"date", "cron", "rrule"},
                      nextFireAt # Absent, asked' < nextFireAt
               PROVE  nextFireAt' = nextFireAt
    OBVIOUS
  <2>1. PICK now \in Nat : Deploy(now) \/ (now >= asked /\ nextFireAt \in Nat /\ Fire(now))
    BY Steps DEF IInv
  <2>2. CASE Deploy(now)
    BY <2>2, DeployedAgain DEF Deploy
  <2>3. CASE now >= asked /\ nextFireAt \in Nat /\ Fire(now)
    <3>1. fires' = Append(fires, nextFireAt) /\ fires \in Seq(Nat)
      BY <2>3, FireKeeps DEF IInv, TypeInv
    <3>2. Len(fires') = Len(fires) + 1 /\ Len(fires) \in Nat
      BY <2>3, <3>1
    <3> QED BY <3>2
  <2> QED BY <2>1, <2>2, <2>3
<1> QED BY <1>1, IInvIsInvariant, PTL DEF Spec, RedeployKeepsTheDate

------------------------------------------------------------------------------
(* The next date is the next date: what the periods of a rule have.        *)

(* Every n-th.                                                             *)
LEMMA Multiples ==
  ASSUME NEW n \in Nat \ {0}, NEW x \in Nat
  PROVE  x % n = 0 <=> \E k \in Nat : x = k * n
<1>1. ASSUME x % n = 0 PROVE \E k \in Nat : x = k * n
  <2>1. x \div n \in Nat
    BY QuotientOrder
  <2>2. x = (x \div n) * n
    BY <1>1, Division
  <2> QED BY <2>1, <2>2
<1>2. ASSUME NEW k \in Nat, x = k * n PROVE x % n = 0
  <2>1. (k * n + 0) % n = 0
    BY Quotient
  <2>2. k * n + 0 = x
    BY <1>2
  <2> QED BY <2>1, <2>2
<1> QED BY <1>1, <1>2

(* A set and its image, one to one.                                        *)
LEMMA SameSize ==
  ASSUME NEW S, IsFiniteSet(S), NEW f, NEW T, f \in [S -> T],
         \A a, b \in S : f[a] = f[b] => a = b, \A t \in T : \E a \in S : f[a] = t
  PROVE  IsFiniteSet(T) /\ Cardinality(T) = Cardinality(S)
<1>1. f \in Injection(S, T)
  BY DEF Injection, IsInjective
<1>2. f \in Surjection(S, T)
  BY DEF Surjection
<1>3. ExistsBijection(S, T)
  BY <1>1, <1>2 DEF ExistsBijection, Bijection
<1> QED BY <1>3, FS_Bijection

(* The weekdays of a month, counted as days of the month or of the year.   *)
OfMonth(mi, dayNums) ==
  { d \in FirstOfMonth(mi)..(FirstOfMonth(mi + 1) - 1) : Weekday(d) \in dayNums }

(* Both counts agree, up to any day.                                       *)
LEMMA WeekdaysOfMonth ==
  ASSUME NEW mi \in Int, NEW dayNums, NEW last \in Int
  PROVE  LET S == { e \in WeekdayOccurrencesInMonth(mi, dayNums) : e <= last }
             T == { d \in OfMonth(mi, dayNums) : d <= DayOf(mi, last) }
         IN  /\ IsFiniteSet(S) /\ IsFiniteSet(T) /\ Cardinality(T) = Cardinality(S)
<1> DEFINE S == { e \in WeekdayOccurrencesInMonth(mi, dayNums) : e <= last }
           T == { d \in OfMonth(mi, dayNums) : d <= DayOf(mi, last) }
           a == FirstOfMonth(mi)
           f == [e \in S |-> a + e - 1]
<1>1. a \in Int /\ FirstOfMonth(mi + 1) = a + DaysInMonth(mi) /\ DaysInMonth(mi) \in Nat
  BY YearStarts, MonthLength DEF DaysInMonth
<1>2. \A e : e \in S <=> e \in 1..DaysInMonth(mi) /\ Weekday(a + e - 1) \in dayNums /\ e <= last
  BY DEF WeekdayOccurrencesInMonth, DayOf
<1>3. \A d : d \in T <=> d \in a..(a + DaysInMonth(mi) - 1) /\ Weekday(d) \in dayNums
                          /\ d <= a + last - 1
  BY <1>1 DEF OfMonth, DayOf
<1>4. S \in SUBSET (1..DaysInMonth(mi))
  BY <1>2
<1>5. IsFiniteSet(S)
  <2>1. IsFiniteSet(1..DaysInMonth(mi))
    BY <1>1, FS_Interval
  <2> HIDE DEF S
  <2> QED BY <1>4, <2>1, FS_Subset
<1> HIDE DEF S, T, a
<1>6. f \in [S -> T]
  <2>1. ASSUME NEW e \in S PROVE a + e - 1 \in T
    BY <1>1, <1>2, <1>3
  <2> QED BY <2>1
<1>7. \A d, e \in S : f[d] = f[e] => d = e
  <2> SUFFICES ASSUME NEW d \in S, NEW e \in S, f[d] = f[e] PROVE d = e
    OBVIOUS
  <2>1. d \in Int /\ e \in Int /\ a + d - 1 = a + e - 1
    BY <1>4
  <2> QED BY <1>1, <2>1
<1>8. \A d \in T : \E e \in S : f[e] = d
  <2> SUFFICES ASSUME NEW d \in T PROVE \E e \in S : f[e] = d
    OBVIOUS
  <2>1. d \in Int /\ d - a + 1 \in 1..DaysInMonth(mi) /\ d - a + 1 <= last
    BY <1>1, <1>3
  <2>2. a + (d - a + 1) - 1 = d
    BY <1>1, <2>1
  <2>3. d - a + 1 \in S
    BY <1>2, <1>3, <2>1, <2>2
  <2> QED BY <2>2, <2>3
<1> HIDE DEF f
<1>9. IsFiniteSet(T) /\ Cardinality(T) = Cardinality(S)
  BY <1>5, <1>6, <1>7, <1>8, SameSize
<1> QED BY <1>5, <1>9 DEF S, T

(* The n-th of so many, counted from either end.                           *)
LEMMA Positions ==
  ASSUME NEW N \in Nat, NEW C \in Nat, 1 <= N, N <= C, NEW P \in SUBSET Int
  PROVE  N \in { IF pos > 0 THEN pos ELSE C + pos + 1 : pos \in P }
           <=> N \in P \/ N - C - 1 \in P
<1>1. ASSUME NEW pos \in P, N = IF pos > 0 THEN pos ELSE C + pos + 1
      PROVE  N \in P \/ N - C - 1 \in P
  <2>1. pos \in Int
    OBVIOUS
  <2>2. CASE pos > 0
    BY <1>1, <2>2
  <2>3. CASE ~(pos > 0)
    <3>1. N - C - 1 = pos
      BY <1>1, <2>1, <2>3
    <3> QED BY <3>1
  <2> QED BY <2>2, <2>3
<1>2. ASSUME N \in P PROVE \E pos \in P : N = IF pos > 0 THEN pos ELSE C + pos + 1
  BY <1>2
<1>3. ASSUME N - C - 1 \in P PROVE \E pos \in P : N = IF pos > 0 THEN pos ELSE C + pos + 1
  <2>1. ~(N - C - 1 > 0) /\ C + (N - C - 1) + 1 = N
    OBVIOUS
  <2> QED BY <1>3, <2>1
<1> QED BY <1>1, <1>2, <1>3

OnDay(r, day) ==
  LET mi == MonthOf(day)
      Matches(d) == r.byDay = Absent \/ Weekday(d) \in ResolveDayNums(r.byDay)
      ofMonth == { d \in FirstOfMonth(mi)..(FirstOfMonth(mi + 1) - 1) : Matches(d) }
      rank == Cardinality({ d \in ofMonth : d <= day })
  IN  IF r.bySetPos = Absent
      THEN DayOfMonth(day) \in
             (IF r.byMonthDay = Absent THEN {DayOfMonth(DayNo(r.dtstart))} ELSE r.byMonthDay)
      ELSE Matches(day) /\ (rank \in r.bySetPos \/ rank - Cardinality(ofMonth) - 1 \in r.bySetPos)

(* The candidate days of a month are those the documents mean.             *)
LEMMA OnDayIs ==
  ASSUME NEW r, IsRule(r), Regular(r), NEW day \in Nat
  PROVE  OnDay(r, day) <=> DayOfMonth(day) \in CandidateDays(r, MonthOf(day))
<1> DEFINE mi == MonthOf(day)
           dm == DayOfMonth(day)
<1>1. mi \in Int /\ dm \in 1..DaysInMonth(mi) /\ DayOf(mi, dm) = day /\ DaysInMonth(mi) \in Nat
  BY DaysOfMonths, MonthOfIs, MonthLength DEF DaysInMonth
<1>2. CASE r.bySetPos = Absent
  BY <1>1, <1>2 DEF OnDay, CandidateDays
<1>3. CASE r.bySetPos # Absent
  <2> DEFINE dayNums == ResolveDayNums(r.byDay)
             all == WeekdayOccurrencesInMonth(mi, dayNums)
             upTo == { e \in all : e <= dm }
             ofMonth == OfMonth(mi, dayNums)
             past == { d \in ofMonth : d <= day }
             N == Cardinality(upTo)
             C == Cardinality(all)
  <2>1. r.byDay # Absent /\ r.bySetPos \subseteq Int
    BY <1>3 DEF Regular, IsRule
  <2>2. OnDay(r, day) <=>
          /\ Weekday(day) \in dayNums
          /\ Cardinality(past) \in r.bySetPos \/ Cardinality(past) - Cardinality(ofMonth) - 1 \in r.bySetPos
    BY <1>3, <2>1 DEF OnDay, OfMonth
  <2>3. dm \in CandidateDays(r, mi) <=>
          /\ dm \in all
          /\ N \in { IF pos > 0 THEN pos ELSE C + pos + 1 : pos \in r.bySetPos }
    BY <1>3, <2>1 DEF CandidateDays
  <2>4. dm \in all <=> Weekday(day) \in dayNums
    BY <1>1 DEF WeekdayOccurrencesInMonth
  <2>5. IsFiniteSet(upTo) /\ Cardinality(past) = N
    <3>1. dm \in Int
      BY <1>1
    <3>2. LET S == { e \in all : e <= dm }
              T == { d \in ofMonth : d <= DayOf(mi, dm) }
          IN  /\ IsFiniteSet(S) /\ IsFiniteSet(T) /\ Cardinality(T) = Cardinality(S)
      <4> HIDE DEF dm, mi, dayNums
      <4> QED BY <1>1, <3>1, WeekdaysOfMonth
    <3>3. past = { d \in ofMonth : d <= DayOf(mi, dm) }
      BY <1>1
    <3> HIDE DEF all, ofMonth, dm, mi
    <3> QED BY <3>2, <3>3
  <2>6. IsFiniteSet(all) /\ Cardinality(ofMonth) = C
    <3> DEFINE last == DaysInMonth(mi)
    <3>1. last \in Int /\ DayOf(mi, last) = FirstOfMonth(mi + 1) - 1
      BY <1>1, YearStarts DEF DaysInMonth, DayOf
    <3>2. all = { e \in all : e <= last }
      BY <1>1 DEF WeekdayOccurrencesInMonth
    <3>3. ofMonth = { d \in ofMonth : d <= DayOf(mi, last) }
      <4>1. FirstOfMonth(mi) \in Int /\ FirstOfMonth(mi + 1) \in Int
        BY <1>1, YearStarts
      <4> QED BY <3>1, <4>1 DEF OfMonth
    <3>4. LET S == { e \in all : e <= last }
              T == { d \in ofMonth : d <= DayOf(mi, last) }
          IN  /\ IsFiniteSet(S) /\ IsFiniteSet(T) /\ Cardinality(T) = Cardinality(S)
      <4> HIDE DEF last, mi, dayNums
      <4> QED BY <1>1, <3>1, WeekdaysOfMonth
    <3> HIDE DEF all, ofMonth, last
    <3> QED BY <3>2, <3>3, <3>4
  <2>7. ASSUME dm \in all PROVE N \in Nat /\ C \in Nat /\ 1 <= N /\ N <= C
    <3>1. dm \in upTo /\ upTo \in SUBSET all
      BY <1>1, <2>7
    <3> HIDE DEF upTo, all
    <3>2. N \in Nat /\ C \in Nat /\ N <= C
      BY <2>5, <2>6, <3>1, FS_Subset, FS_CardinalityType
    <3>3. N # 0
      BY <2>5, <3>1, FS_EmptySet
    <3> HIDE DEF N, C
    <3> QED BY <3>2, <3>3
  <2> HIDE DEF N, C, all, past, upTo, ofMonth, dayNums
  <2>8. ASSUME dm \in all
        PROVE  N \in { IF pos > 0 THEN pos ELSE C + pos + 1 : pos \in r.bySetPos }
                 <=> N \in r.bySetPos \/ N - C - 1 \in r.bySetPos
    BY <2>1, <2>7, <2>8, Positions
  <2>9. OnDay(r, day) <=> dm \in CandidateDays(r, mi)
    BY <2>2, <2>3, <2>4, <2>5, <2>6, <2>8
  <2> QED BY <2>9
<1> QED BY <1>2, <1>3

(* An occurrence, by the kind of the rule.                                 *)
LEMMA OccurrenceIs ==
  ASSUME NEW r, IsRule(r), NEW day, NEW start, start = DayNo(r.dtstart)
  PROVE  /\ r.freq = "DAILY" => (IsOccurrence(r, day) <=> (day - start) % r.interval = 0)
         /\ r.freq = "WEEKLY" =>
              (IsOccurrence(r, day) <=> /\ (day \div 7 - start \div 7) % r.interval = 0
                                        /\ Weekday(day) \in WeekDays(r))
         /\ r.freq = "MONTHLY" =>
              (IsOccurrence(r, day) <=> /\ (MonthOf(day) - MonthOf(start)) % r.interval = 0
                                        /\ OnDay(r, day))
         /\ r.freq = "YEARLY" =>
              (IsOccurrence(r, day) <=> /\ (YearOf(day) - YearOf(start)) % r.interval = 0
                                        /\ \E i \in DOMAIN Months(r) :
                                             (MonthOf(day) % 12) + 1 = Months(r)[i]
                                        /\ OnDay(r, day))
<1>1. r.freq = "DAILY" => (IsOccurrence(r, day) <=> (day - start) % r.interval = 0)
  BY DEF IsOccurrence
<1>2. r.freq = "WEEKLY" =>
        (IsOccurrence(r, day) <=> /\ (day \div 7 - start \div 7) % r.interval = 0
                                  /\ Weekday(day) \in WeekDays(r))
  BY DEF IsOccurrence, WeekDays
<1>3. r.freq = "MONTHLY" =>
        (IsOccurrence(r, day) <=> /\ (MonthOf(day) - MonthOf(start)) % r.interval = 0
                                  /\ OnDay(r, day))
  BY DEF IsOccurrence, OnDay
<1>4. ASSUME r.freq = "YEARLY"
      PROVE  IsOccurrence(r, day) <=>
               /\ (YearOf(day) - YearOf(start)) % r.interval = 0
               /\ (MonthOf(day) % 12) + 1 \in
                    (IF r.byMonth = Absent THEN {(MonthOf(start) % 12) + 1} ELSE ToSet(r.byMonth))
               /\ OnDay(r, day)
  BY <1>4 DEF IsOccurrence, OnDay
<1>5. (MonthOf(day) % 12) + 1 \in
        (IF r.byMonth = Absent THEN {(MonthOf(start) % 12) + 1} ELSE ToSet(r.byMonth))
      <=> \E i \in DOMAIN Months(r) : (MonthOf(day) % 12) + 1 = Months(r)[i]
  <2>1. CASE r.byMonth = Absent
    <3>1. Months(r) = <<(MonthOf(start) % 12) + 1>>
      BY <2>1 DEF Months
    <3>2. DOMAIN Months(r) = {1} /\ Months(r)[1] = (MonthOf(start) % 12) + 1
      BY <3>1
    <3> QED BY <2>1, <3>2
  <2>2. CASE r.byMonth # Absent
    BY <2>2 DEF Months, ToSet
  <2> QED BY <2>1, <2>2
<1> QED BY <1>1, <1>2, <1>3, <1>4, <1>5

(* Among the candidates of some period.                                    *)
IsCandidate(r, t) == \E k \in Nat : \E i \in DOMAIN Period(r, k) : t \in Period(r, k)[i]

WeeksAgree(r) == r.freq = "WEEKLY" => r.interval = 1 \/ Weekday(DayNo(r.dtstart)) = 1

(* The candidates of a month are the days of it that the rule means.       *)
LEMMA MonthlyCandidates ==
  ASSUME NEW r, IsRule(r), Regular(r), NEW day \in Nat, NEW mi \in Int, mi >= 24012
  PROVE  At(day, TimeOf(r.dtstart)) \in InMonth(r, mi) <=> MonthOf(day) = mi /\ OnDay(r, day)
<1> DEFINE t == At(day, TimeOf(r.dtstart))
<1>1. t \in Nat /\ DayNo(t) = day /\ TimeOf(t) = TimeOf(r.dtstart)
  BY StartFacts, InstantsOf
<1>2. t \in InMonth(r, mi) <=> MonthOf(day) = mi /\ DayOfMonth(day) \in CandidateDays(r, mi)
  <2> HIDE DEF t
  <2> QED BY <1>1, DatesInMonth
<1> QED BY <1>2, OnDayIs

(* The periods of a rule have its occurrences, all of them and no other,   *)
(* from DTSTART on.                                                        *)
LEMMA Occurrences ==
  ASSUME NEW r, IsRule(r), Regular(r), WeeksAgree(r), NEW day \in Nat, DayNo(r.dtstart) <= day
  PROVE  IsOccurrence(r, day) <=> IsCandidate(r, At(day, TimeOf(r.dtstart)))
<1> DEFINE start == DayNo(r.dtstart)
           time == TimeOf(r.dtstart)
           t == At(day, time)
           n == r.interval
<1>1. /\ start \in Nat /\ time \in Times /\ n \in Nat \ {0} /\ r.freq \in Freqs
      /\ MonthOf(start) \in Int /\ MonthOf(start) >= 24012
      /\ YearOf(start) \in Int /\ YearOf(start) >= 2001 /\ start <= day
  BY StartFacts DEF IsRule
<1>2. t \in Nat /\ DayNo(t) = day /\ TimeOf(t) = time
  BY <1>1, InstantsOf
<1>3. \A k \in Nat : k * n \in Nat
  BY <1>1
<1>4. MonthOf(day) \in Int /\ MonthOf(start) <= MonthOf(day)
  BY <1>1, MonthOfIs, MonthOfMono
<1> HIDE DEF start, time, t, n
<1>9. \A x \in Nat : x % n = 0 <=> \E k \in Nat : x = k * n
  <2> SUFFICES ASSUME NEW x \in Nat PROVE x % n = 0 <=> \E k \in Nat : x = k * n
    OBVIOUS
  <2>1. n \in Nat \ {0}
    BY <1>1
  <2> QED BY <2>1, Multiples
<1>5. CASE r.freq = "DAILY"
  <2>1. IsOccurrence(r, day) <=> \E k \in Nat : day - start = k * n
    <3>1. day - start \in Nat
      BY <1>1
    <3>2. IsOccurrence(r, day) <=> (day - start) % n = 0
      BY <1>5, OccurrenceIs DEF start, n
    <3> DEFINE x == day - start
    <3>3. x % n = 0 <=> \E k \in Nat : x = k * n
      <4>1. x \in Nat
        BY <3>1
      <4> HIDE DEF x
      <4> QED BY <1>9, <4>1
    <3> QED BY <3>2, <3>3
  <2>2. ASSUME NEW k \in Nat
        PROVE  (\E i \in DOMAIN Period(r, k) : t \in Period(r, k)[i]) <=> day - start = k * n
    <3>1. DOMAIN Period(r, k) = {1} /\ Period(r, k)[1] = {At(start + k * n, time)}
      BY <1>5, PeriodIs DEF start, time, n
    <3>2. start + k * n \in Int
      BY <1>1, <1>3
    <3>3. t = At(start + k * n, time) <=> day = start + k * n
      <4>1. DayNo(At(start + k * n, time)) = start + k * n
        BY <1>1, <3>2, InstantsOf
      <4> QED BY <1>2, <4>1 DEF t
    <3>4. day = start + k * n <=> day - start = k * n
      BY <1>1, <1>3
    <3> QED BY <3>1, <3>3, <3>4
  <2> QED BY <2>1, <2>2 DEF IsCandidate, t, time
<1>6. CASE r.freq = "WEEKLY"
  <2> DEFINE w == day \div 7 - start \div 7
  <2>1. ASSUME NEW k \in Nat
        PROVE  (\E i \in DOMAIN Period(r, k) : t \in Period(r, k)[i])
                 <=> day \in (start + 7 * (k * n))..(start + 7 * (k * n) + 6) /\ Weekday(day) \in WeekDays(r)
    <3>1. DOMAIN Period(r, k) = {1} /\ Period(r, k)[1] = InWeek(r, start + 7 * (k * n))
      BY <1>6, PeriodIs DEF start, n
    <3>2. start + 7 * (k * n) \in Nat
      BY <1>1, <1>3
    <3>3. t \in InWeek(r, start + 7 * (k * n))
            <=> day \in (start + 7 * (k * n))..(start + 7 * (k * n) + 6) /\ Weekday(day) \in WeekDays(r)
      BY <1>2, <3>2, DatesInWeek DEF time
    <3> QED BY <3>1, <3>3
  <2>2. w \in Nat
    BY <1>1
  <2>3. w % n = 0 <=> \E k \in Nat : day \in (start + 7 * (k * n))..(start + 7 * (k * n) + 6)
    <3>1. CASE n = 1
      <4>1. w % n = 0
        BY <2>2, <3>1
      <4>2. (day - start) \div 7 \in Nat
            /\ day \in (start + 7 * ((day - start) \div 7))..(start + 7 * ((day - start) \div 7) + 6)
        BY <1>1
      <4>3. ((day - start) \div 7) * n = (day - start) \div 7
        BY <3>1, <4>2
      <4> QED BY <4>1, <4>2, <4>3
    <3>2. CASE Weekday(start) = 1
      <4>1. start % 7 = 0
        BY <1>1, <3>2 DEF Weekday
      <4>2. \A m \in Nat : day \in (start + 7 * m)..(start + 7 * m + 6) <=> w = m
        BY <1>1, <4>1
      <4>3. w % n = 0 <=> \E k \in Nat : w = k * n
        <5> HIDE DEF w
        <5> QED BY <1>9, <2>2
      <4> HIDE DEF w
      <4> QED BY <1>3, <4>2, <4>3
    <3> QED BY <1>6, <3>1, <3>2 DEF WeeksAgree, start, n
  <2>4. IsOccurrence(r, day) <=> w % n = 0 /\ Weekday(day) \in WeekDays(r)
    BY <1>6, OccurrenceIs DEF start, n
  <2> HIDE DEF w
  <2>5. IsOccurrence(r, day) <=> \E k \in Nat : \E i \in DOMAIN Period(r, k) : t \in Period(r, k)[i]
    BY <2>1, <2>3, <2>4
  <2> QED BY <2>5 DEF IsCandidate, t, time
<1>7. CASE r.freq = "MONTHLY"
  <2>1. ASSUME NEW k \in Nat
        PROVE  (\E i \in DOMAIN Period(r, k) : t \in Period(r, k)[i])
                 <=> MonthOf(day) - MonthOf(start) = k * n /\ OnDay(r, day)
    <3>1. DOMAIN Period(r, k) = {1} /\ Period(r, k)[1] = InMonth(r, MonthOf(start) + k * n)
      BY <1>7, PeriodIs DEF start, n
    <3>2. MonthOf(start) + k * n \in Int /\ MonthOf(start) + k * n >= 24012
      BY <1>1, <1>3
    <3>3. t \in InMonth(r, MonthOf(start) + k * n)
            <=> MonthOf(day) = MonthOf(start) + k * n /\ OnDay(r, day)
      BY <3>2, MonthlyCandidates DEF t, time
    <3>4. MonthOf(day) = MonthOf(start) + k * n <=> MonthOf(day) - MonthOf(start) = k * n
      BY <1>1, <1>3, <1>4
    <3> QED BY <3>1, <3>3, <3>4
  <2>2. MonthOf(day) - MonthOf(start) \in Nat
    BY <1>1, <1>4
  <2>3. (MonthOf(day) - MonthOf(start)) % n = 0 <=> \E k \in Nat : MonthOf(day) - MonthOf(start) = k * n
    <3> DEFINE x == MonthOf(day) - MonthOf(start)
    <3>1. x \in Nat
      BY <2>2
    <3> HIDE DEF x
    <3>2. x % n = 0 <=> \E k \in Nat : x = k * n
      BY <1>9, <3>1
    <3> QED BY <3>2 DEF x
  <2>4. IsOccurrence(r, day) <=> (MonthOf(day) - MonthOf(start)) % n = 0 /\ OnDay(r, day)
    BY <1>7, OccurrenceIs DEF start, n
  <2>5. IsOccurrence(r, day) <=> \E k \in Nat : \E i \in DOMAIN Period(r, k) : t \in Period(r, k)[i]
    BY <2>1, <2>3, <2>4
  <2> QED BY <2>5 DEF IsCandidate, t, time
<1>8. CASE r.freq = "YEARLY"
  <2> DEFINE y == YearOf(day) - YearOf(start)
             m == (MonthOf(day) % 12) + 1
  <2>1. y \in Nat /\ MonthOf(day) = MonthIndex(YearOf(day), m) /\ m \in 1..12 /\ YearOf(day) \in Int
    BY <1>1, <1>4 DEF YearOf, MonthIndex
  <2>2. Months(r) \in Seq(1..12)
    BY MonthsAre
  <2>3. ASSUME NEW k \in Nat
        PROVE  (\E i \in DOMAIN Period(r, k) : t \in Period(r, k)[i])
                 <=> y = k * n /\ (\E i \in DOMAIN Months(r) : m = Months(r)[i]) /\ OnDay(r, day)
    <3>1. /\ DOMAIN Period(r, k) = DOMAIN Months(r)
          /\ \A i \in DOMAIN Months(r) :
               Period(r, k)[i] = InMonth(r, MonthIndex(YearOf(start) + k * n, Months(r)[i]))
      BY <1>8, PeriodIs DEF start, n
    <3>2. ASSUME NEW i \in DOMAIN Months(r)
          PROVE  t \in Period(r, k)[i] <=> y = k * n /\ m = Months(r)[i] /\ OnDay(r, day)
      <4> DEFINE mi == MonthIndex(YearOf(start) + k * n, Months(r)[i])
      <4>1. Months(r)[i] \in 1..12
        BY <2>2
      <4>2. mi \in Int /\ mi >= 24012
        BY <1>1, <1>3, <4>1 DEF MonthIndex
      <4>3. t \in Period(r, k)[i] <=> MonthOf(day) = mi /\ OnDay(r, day)
        <5>1. t \in InMonth(r, mi) <=> MonthOf(day) = mi /\ OnDay(r, day)
          <6> HIDE DEF mi
          <6> QED BY <4>2, MonthlyCandidates DEF t, time
        <5> QED BY <3>1, <5>1
      <4>4. \A a, b \in Int : \A c, d \in 1..12 :
              MonthIndex(a, c) = MonthIndex(b, d) <=> a = b /\ c = d
        BY DEF MonthIndex
      <4>5. YearOf(start) + k * n \in Int
        BY <1>1, <1>3
      <4>6. MonthOf(day) = mi <=> YearOf(day) = YearOf(start) + k * n /\ m = Months(r)[i]
        <5> HIDE DEF m
        <5> QED BY <2>1, <4>1, <4>4, <4>5
      <4>7. YearOf(day) = YearOf(start) + k * n <=> y = k * n
        BY <1>1, <1>3, <2>1
      <4> QED BY <4>3, <4>6, <4>7
    <3> HIDE DEF y, m
    <3> QED BY <3>1, <3>2
  <2>4. y % n = 0 <=> \E k \in Nat : y = k * n
    <3> HIDE DEF y, m
    <3> QED BY <1>9, <2>1
  <2>5. IsOccurrence(r, day)
          <=> y % n = 0 /\ (\E i \in DOMAIN Months(r) : m = Months(r)[i]) /\ OnDay(r, day)
    BY <1>8, OccurrenceIs DEF start, n
  <2> HIDE DEF y, m
  <2>6. IsOccurrence(r, day) <=> \E k \in Nat : \E i \in DOMAIN Period(r, k) : t \in Period(r, k)[i]
    BY <2>3, <2>4, <2>5
  <2> QED BY <2>6 DEF IsCandidate, t, time
<1> QED BY <1>1, <1>5, <1>6, <1>7, <1>8 DEF Freqs

------------------------------------------------------------------------------
(* The first of them, and how far the search goes.                         *)

(* Days follow the order of instants.                                      *)
LEMMA DayOrder ==
  ASSUME NEW t \in Nat, NEW u \in Nat
  PROVE  /\ DayNo(t) < DayNo(u) => t < u
         /\ t <= u => DayNo(t) <= DayNo(u)
<1>1. /\ DayNo(t) \in Nat /\ TimeOf(t) \in Times /\ At(DayNo(t), TimeOf(t)) = t
      /\ DayNo(u) \in Nat /\ TimeOf(u) \in Times /\ At(DayNo(u), TimeOf(u)) = u
  BY Instants
<1> QED BY <1>1, InstantsInOrder

(* The hit is the first of all candidates that are later.                  *)
LEMMA HitIsFirst ==
  ASSUME NEW r, IsRule(r), Regular(r), NEW after \in Nat, NEW k, k = Hit(r, after),
         NEW date, date = FirstLater(Period(r, k), after), date # Absent,
         NEW t, IsCandidate(r, t), t > after
  PROVE  date <= t
<1>1. k \in Nat /\ \A j \in Nat : j < k => AllPast(r, j, after)
  BY HitIs
<1>2. PICK j \in Nat : \E i \in DOMAIN Period(r, j) : t \in Period(r, j)[i]
  BY DEF IsCandidate
<1>9. PICK i \in DOMAIN Period(r, j) : t \in Period(r, j)[i]
  BY <1>2
<1>3. t \in Nat /\ PeriodStart(r, j) <= DayNo(t) /\ DayNo(t) \in Nat
  BY <1>9, PeriodDates, Instants
<1>4. ~(j < k)
  <2>1. ~AllPast(r, j, after)
    BY <1>3, <1>9 DEF AllPast
  <2> QED BY <1>1, <2>1
<1>5. PICK h \in DOMAIN Period(r, k) :
        /\ date \in Period(r, k)[h] /\ date \in Nat /\ date > after
        /\ \A u \in Period(r, k)[h] : u > after => date <= u
        /\ \A g \in DOMAIN Period(r, k) : g < h => \A u \in Period(r, k)[g] : u <= after
  BY <1>1, FirstLaterOf
<1>6. DayNo(date) < PeriodStart(r, k + 1) /\ DayNo(date) \in Nat
  BY <1>1, <1>5, PeriodDates, Instants
<1>7. CASE j > k
  <2>1. k + 1 \in Nat /\ k + 1 <= j
    BY <1>1, <1>7
  <2>2. PeriodStart(r, k + 1) <= PeriodStart(r, j) /\ PeriodStart(r, j) \in Int
        /\ PeriodStart(r, k + 1) \in Int
    BY <2>1, PeriodStarts
  <2>3. DayNo(date) < DayNo(t)
    BY <1>3, <1>6, <2>2
  <2> QED BY <1>3, <1>5, <2>3, DayOrder
<1>8. CASE j = k
  <2>1. CASE i = h
    BY <1>5, <1>9, <1>8, <2>1
  <2>2. CASE i # h
    <3>1. r.freq = "YEARLY"
      <4>1. r.freq \in {"DAILY", "WEEKLY", "MONTHLY"} => DOMAIN Period(r, k) = {1}
        BY <1>1, PeriodIs
      <4> QED BY <1>5, <1>9, <1>8, <2>2, <4>1 DEF IsRule, Freqs
    <3> DEFINE y == YearOf(DayNo(r.dtstart)) + k * r.interval
               m == MonthIndex(y, Months(r)[h])
               n == MonthIndex(y, Months(r)[i])
    <3>2. /\ DOMAIN Period(r, k) = DOMAIN Months(r) /\ Months(r) \in Seq(1..12)
          /\ Period(r, k)[h] = InMonth(r, m) /\ Period(r, k)[i] = InMonth(r, n)
      BY <1>1, <1>2, <1>9, <1>5, <1>8, <3>1, PeriodIs, MonthsAre
    <3>3. i \in Nat /\ h \in Nat /\ i \in DOMAIN Months(r) /\ h \in DOMAIN Months(r)
      BY <1>5, <1>9, <1>8, <3>2
    <3>4. ~(i < h)
      BY <1>2, <1>9, <1>3, <1>5, <1>8
    <3>5. Months(r)[h] <= Months(r)[i] /\ Months(r)[h] \in 1..12 /\ Months(r)[i] \in 1..12
      <4>1. CASE r.byMonth = Absent
        <5>1. Months(r) = <<(MonthOf(DayNo(r.dtstart)) % 12) + 1>>
          BY <4>1 DEF Months
        <5> QED BY <2>2, <3>3, <5>1
      <4>2. CASE r.byMonth # Absent
        BY <2>2, <3>2, <3>3, <3>4, <4>2 DEF Regular, Months
      <4> QED BY <4>1, <4>2
    <3>6. y \in Int /\ y >= 2001
      <4>1. k * r.interval \in Nat
        BY <1>1 DEF IsRule
      <4> QED BY <4>1, StartFacts
    <3>7. m \in Int /\ n \in Int /\ m <= n /\ m >= 24012
      <4> HIDE DEF y
      <4> QED BY <3>5, <3>6 DEF MonthIndex
    <3> HIDE DEF y, m, n
    <3>8. CASE m = n
      BY <1>2, <1>9, <1>3, <1>5, <1>8, <3>2, <3>8
    <3>9. CASE m < n
      <4>1. MonthOf(DayNo(date)) = m /\ MonthOf(DayNo(t)) = n
        BY <1>5, <1>9, <1>8, <3>2, <3>7, DatesInMonth
      <4>2. ~(DayNo(t) <= DayNo(date))
        BY <1>3, <1>6, <3>7, <3>9, <4>1, MonthOfMono
      <4> QED BY <1>3, <1>5, <1>6, <4>2, DayOrder
    <3> QED BY <3>7, <3>8, <3>9
  <2> QED BY <2>1, <2>2
<1> QED BY <1>1, <1>4, <1>7, <1>8

(* So many months begin up to the horizon,                                 *)
LEMMA MonthsSearched ==
  ASSUME SearchIsLongEnough, NEW day \in Nat, NEW n \in Nat,
         FirstOfMonth(MonthOf(day) + n) <= day + Horizon
  PROVE  n <= MaxPeriods - 1
<1> DEFINE m == MonthOf(day) + 1
<1>1. MonthOf(day) \in Int /\ day < FirstOfMonth(m) /\ FirstOfMonth(m) \in Int /\ m \in Int
  BY MonthOfIs, YearStarts
<1>2. MaxPeriods \in Nat /\ Horizon \in Nat /\ MaxPeriods > 1 /\ Horizon <= 7 * (MaxPeriods - 1)
  BY CalendarAssumption DEF SearchIsLongEnough
<1>3. CASE n = 0
  BY <1>2, <1>3
<1>4. CASE n # 0
  <2>1. n - 1 \in Nat /\ m + (n - 1) = MonthOf(day) + n
    BY <1>1, <1>4
  <2> HIDE DEF m
  <2>2. FirstOfMonth(m + (n - 1)) >= FirstOfMonth(m) + 28 * (n - 1)
    BY <1>1, <2>1, MonthsApart
  <2>3. m + (n - 1) \in Int
    BY <1>1, <2>1
  <2>4. FirstOfMonth(m + (n - 1)) \in Int
    BY <2>3, YearStarts
  <2>5. 28 * (n - 1) < Horizon
    BY <1>1, <1>2, <2>1, <2>2, <2>4
  <2> QED BY <1>2, <2>5
<1> QED BY <1>3, <1>4

(* and so many weeks and years.                                            *)
LEMMA PeriodsSearched ==
  ASSUME SearchIsLongEnough, NEW r, IsRule(r), r.freq # "DAILY", NEW j \in Nat,
         PeriodStart(r, j) <= DayNo(r.dtstart) + Horizon
  PROVE  j <= MaxPeriods - 1
<1> DEFINE day == DayNo(r.dtstart)
           n == j * r.interval
<1>1. /\ day \in Nat /\ r.interval \in Nat \ {0} /\ r.freq \in Freqs
      /\ MonthOf(day) \in Int /\ YearOf(day) \in Int
  BY StartFacts DEF IsRule
<1>2. n \in Nat /\ j <= n
  <2>1. j * 1 = j /\ 1 <= r.interval
    BY <1>1
  <2>2. \A i \in Nat \ {0} : j * i \in Nat /\ j <= j * i
    OBVIOUS
  <2> QED BY <1>1, <2>2
<1>3. MaxPeriods \in Nat /\ Horizon \in Nat /\ Horizon <= 7 * (MaxPeriods - 1)
  BY CalendarAssumption DEF SearchIsLongEnough
<1> HIDE DEF day, n
<1>4. CASE r.freq = "WEEKLY"
  <2>1. PeriodStart(r, j) = day + 7 * n
    BY <1>4 DEF PeriodStart, day, n
  <2> QED BY <1>1, <1>2, <1>3, <2>1 DEF day
<1>5. CASE r.freq = "MONTHLY"
  <2>1. PeriodStart(r, j) = FirstOfMonth(MonthOf(day) + n)
    BY <1>5 DEF PeriodStart, day, n
  <2>2. n <= MaxPeriods - 1
    BY <1>1, <1>2, <2>1, MonthsSearched DEF day
  <2> QED BY <1>2, <1>3, <2>2
<1>6. CASE r.freq = "YEARLY"
  <2> DEFINE mi == MonthIndex(YearOf(day) + n, 1)
  <2>1. PeriodStart(r, j) = FirstOfMonth(mi)
    BY <1>6 DEF PeriodStart, day, n
  <2>2. n = 0 => j <= MaxPeriods - 1
    BY <1>2, <1>3, CalendarAssumption
  <2>3. CASE n > 0
    <3>1. mi \in Int /\ MonthOf(day) + n \in Int /\ MonthOf(day) + n <= mi
      BY <1>1, <1>2, <2>3 DEF MonthIndex, YearOf
    <3> HIDE DEF mi
    <3>2. FirstOfMonth(MonthOf(day) + n) <= FirstOfMonth(mi)
          /\ FirstOfMonth(mi) \in Int /\ FirstOfMonth(MonthOf(day) + n) \in Int
      BY <3>1, MonthsInOrder, YearStarts
    <3>3. FirstOfMonth(MonthOf(day) + n) <= day + Horizon
      BY <1>1, <1>3, <2>1, <3>2 DEF day
    <3>4. n <= MaxPeriods - 1
      BY <1>1, <1>2, <3>3, MonthsSearched
    <3> QED BY <1>2, <1>3, <3>4
  <2> QED BY <1>2, <2>2, <2>3
<1> QED BY <1>1, <1>4, <1>5, <1>6 DEF Freqs

(* A DAILY rule finds its date in the first or the second period.          *)
LEMMA DailyIsFound ==
  ASSUME NEW r, IsRule(r), r.freq = "DAILY", NEW after \in Nat
  PROVE  ~AllPast(r, JumpAhead(r, after) + 1, after)
<1> DEFINE first == JumpAhead(r, after)
           day == DayNo(r.dtstart)
           time == TimeOf(r.dtstart)
           n == (first + 1) * r.interval
           t == At(day + n, time)
<1>1. /\ r.dtstart \in Nat /\ r.interval \in Nat \ {0} /\ day \in Nat /\ time \in Times
      /\ At(day, time) = r.dtstart /\ first \in Nat
  <2>1. after <= after
    OBVIOUS
  <2>2. first \in Nat
    BY <2>1, JumpGrows
  <2> HIDE DEF first
  <2> QED BY <2>2, StartFacts DEF IsRule
<1>2. n \in Nat /\ n = first * r.interval + r.interval
  BY <1>1
<1>3. DOMAIN Period(r, first + 1) = {1} /\ Period(r, first + 1)[1] = {t}
  <2>1. first + 1 \in Nat
    BY <1>1
  <2> HIDE DEF first, t
  <2> QED BY <2>1, PeriodIs DEF t
<1>4. t = r.dtstart + n * Day /\ n * Day \in Nat
  <2>1. At(day, time) + n * Day = At(day + n, time)
    <3>1. day \in Int /\ n \in Int
      BY <1>1, <1>2
    <3> HIDE DEF day, time, n
    <3> QED BY <1>1, <3>1, PlusDays
  <2>2. n * Day \in Nat
    <3> HIDE DEF n
    <3> QED BY <1>2, HourDay
  <2> QED BY <1>1, <2>1, <2>2
<1>5. Due(r) = r.dtstart
  BY DEF Due
<1>6. t > after
  <2>1. CASE after < r.dtstart
    <3> HIDE DEF t, n
    <3> QED BY <1>1, <1>4, <2>1
  <2>2. CASE ~(after < r.dtstart)
    <3> DEFINE x == after - r.dtstart
               p == x \div Day
    <3>1. x \in Nat /\ first = p \div r.interval
      BY <1>1, <1>5, <2>2, JumpIs
    <3>2. p \in Int /\ x % Day \in 0..(Day - 1) /\ x = p * Day + (x % Day)
      <4> HIDE DEF x
      <4> QED BY <3>1, HourDay, Division
    <3>3. p % r.interval \in 0..(r.interval - 1) /\ p = first * r.interval + (p % r.interval)
      <4> HIDE DEF p
      <4> QED BY <1>1, <3>1, <3>2, Division
    <3> HIDE DEF p, n, first
    <3>4. p + 1 <= n
      <4>1. first * r.interval \in Int
        BY <1>1
      <4> QED BY <1>1, <1>2, <3>2, <3>3, <4>1
    <3>5. (p + 1) * Day <= n * Day /\ (p + 1) * Day = p * Day + Day /\ p * Day \in Int
      BY <1>2, <3>2, <3>4, HourDay, MulMono
    <3> HIDE DEF t
    <3> QED BY <1>1, <1>4, <3>1, <3>2, <3>5, HourDay
  <2> QED BY <2>1, <2>2
<1>7. ~(t <= after)
  <2> HIDE DEF t
  <2> QED BY <1>1, <1>4, <1>6
<1> HIDE DEF t, first
<1> QED BY <1>3, <1>7 DEF AllPast, first

(* A later date up to the horizon is not missed.                           *)
LEMMA IsFound ==
  ASSUME SearchIsLongEnough, NEW r, IsRule(r), NEW after \in Nat, NEW k, k = Hit(r, after),
         NEW t, IsCandidate(r, t), t > after, DayNo(t) <= DayNo(r.dtstart) + Horizon
  PROVE  FirstLater(Period(r, k), after) # Absent
<1> DEFINE first == JumpAhead(r, after)
<1>1. /\ k \in Nat /\ first \in Nat
      /\ \A j \in Nat : j < k => AllPast(r, j, after)
      /\ FirstLater(Period(r, k), after) = Absent => k = first + MaxPeriods - 1 /\ AllPast(r, k, after)
  BY HitIs
<1>2. SUFFICES ASSUME FirstLater(Period(r, k), after) = Absent PROVE FALSE
  OBVIOUS
<1>3. k = first + MaxPeriods - 1
  BY <1>1, <1>2
<1> HIDE DEF first
<1>4. \A j \in Nat : j <= k => AllPast(r, j, after)
  BY <1>1, <1>2
<1>5. PICK j \in Nat : \E i \in DOMAIN Period(r, j) : t \in Period(r, j)[i]
  BY DEF IsCandidate
<1>11. PICK i \in DOMAIN Period(r, j) : t \in Period(r, j)[i]
  BY <1>5
<1>6. t \in Nat /\ PeriodStart(r, j) <= DayNo(t) /\ PeriodStart(r, j) \in Int /\ DayNo(t) \in Nat
  BY <1>11, PeriodDates, PeriodStarts, Instants
<1>7. ~AllPast(r, j, after)
  BY <1>6, <1>11 DEF AllPast
<1>8. MaxPeriods \in Nat /\ MaxPeriods > 1 /\ Horizon \in Nat
  BY CalendarAssumption DEF SearchIsLongEnough
<1>9. CASE r.freq = "DAILY"
  <2>1. first + 1 \in Nat /\ first + 1 <= k
    BY <1>1, <1>3, <1>8
  <2> QED BY <1>4, <1>9, <2>1, DailyIsFound DEF first
<1>10. CASE r.freq # "DAILY"
  <2>1. DayNo(r.dtstart) \in Nat
    BY StartFacts
  <2>2. PeriodStart(r, j) <= DayNo(r.dtstart) + Horizon
    BY <1>6, <1>8, <2>1
  <2>3. j <= MaxPeriods - 1
    BY <1>10, <2>2, PeriodsSearched
  <2>4. j <= k
    BY <1>1, <1>3, <1>8, <2>3
  <2> QED BY <1>4, <1>7, <2>4
<1> QED BY <1>9, <1>10

(* The dates of a rule up to the horizon, and those of them up to t.       *)
Occurring(r) ==
  { At(d, TimeOf(r.dtstart)) :
      d \in { e \in DayNo(r.dtstart)..(DayNo(r.dtstart) + Horizon) : IsOccurrence(r, e) } }

UpTo(r, t) == { u \in Occurring(r) : u <= t }

(* They are the candidates from DTSTART to the horizon.                    *)
LEMMA OccurringAre ==
  ASSUME NEW r, IsRule(r), Regular(r), WeeksAgree(r), NEW t
  PROVE  t \in Occurring(r) <=>
           /\ t \in Nat /\ IsCandidate(r, t)
           /\ DayNo(r.dtstart) <= DayNo(t) /\ DayNo(t) <= DayNo(r.dtstart) + Horizon
<1> DEFINE start == DayNo(r.dtstart)
           time == TimeOf(r.dtstart)
<1>1. start \in Nat /\ time \in Times /\ Horizon \in Nat
  BY StartFacts, CalendarAssumption
<1>2. ASSUME t \in Occurring(r)
      PROVE  t \in Nat /\ IsCandidate(r, t) /\ start <= DayNo(t) /\ DayNo(t) <= start + Horizon
  <2>1. PICK d \in start..(start + Horizon) : IsOccurrence(r, d) /\ t = At(d, time)
    BY <1>2 DEF Occurring
  <2> HIDE DEF start, time
  <2>2. d \in Nat /\ start <= d /\ d <= start + Horizon
    BY <1>1
  <2>3. t \in Nat /\ DayNo(t) = d
    BY <1>1, <2>1, <2>2, InstantsOf
  <2>4. IsCandidate(r, t)
    BY <2>1, <2>2, Occurrences DEF start, time
  <2> QED BY <2>2, <2>3, <2>4
<1>3. ASSUME t \in Nat, IsCandidate(r, t), start <= DayNo(t), DayNo(t) <= start + Horizon
      PROVE  t \in Occurring(r)
  <2>1. PICK k \in Nat : \E i \in DOMAIN Period(r, k) : t \in Period(r, k)[i]
    BY <1>3 DEF IsCandidate
  <2>2. TimeOf(t) = time
    BY <2>1, PeriodDates
  <2>3. DayNo(t) \in Nat /\ At(DayNo(t), time) = t
    BY <1>3, <2>2, Instants
  <2>4. IsOccurrence(r, DayNo(t))
    BY <1>3, <2>3, Occurrences
  <2>5. DayNo(t) \in start..(start + Horizon)
    <3> HIDE DEF start
    <3> QED BY <1>1, <1>3, <2>3
  <2> QED BY <2>3, <2>4, <2>5 DEF Occurring
<1> QED BY <1>2, <1>3

(* A period of a DAILY rule is one date.                                   *)
LEMMA DailyPeriods ==
  ASSUME NEW r, IsRule(r), r.freq = "DAILY", NEW k \in Nat
  PROVE  /\ DOMAIN Period(r, k) = {1}
         /\ Period(r, k)[1] = {At(DayNo(r.dtstart) + k * r.interval, TimeOf(r.dtstart))}
         /\ At(DayNo(r.dtstart) + k * r.interval, TimeOf(r.dtstart)) \in Nat
         /\ DayNo(At(DayNo(r.dtstart) + k * r.interval, TimeOf(r.dtstart)))
              = DayNo(r.dtstart) + k * r.interval
<1> DEFINE n == k * r.interval
<1>1. n \in Nat /\ DayNo(r.dtstart) \in Nat /\ TimeOf(r.dtstart) \in Times
  BY StartFacts DEF IsRule
<1>2. /\ DOMAIN Period(r, k) = {1}
      /\ Period(r, k)[1] = {At(DayNo(r.dtstart) + n, TimeOf(r.dtstart))}
  BY PeriodIs
<1> HIDE DEF n
<1>3. DayNo(r.dtstart) + n \in Nat
  BY <1>1
<1> QED BY <1>1, <1>2, <1>3, InstantsOf DEF n

(* The k-th date of a DAILY rule is the (k + 1)-st.                        *)
LEMMA DailyCount ==
  ASSUME NEW r, IsRule(r), Regular(r), WeeksAgree(r), r.freq = "DAILY", NEW k \in Nat,
         NEW i \in DOMAIN Period(r, k), NEW t \in Period(r, k)[i],
         DayNo(t) <= DayNo(r.dtstart) + Horizon
  PROVE  Cardinality(UpTo(r, t)) = k + 1
<1> DEFINE start == DayNo(r.dtstart)
           time == TimeOf(r.dtstart)
           Nth(j) == At(start + j * r.interval, time)
           f == [j \in 0..k |-> Nth(j)]
<1>1. start \in Nat /\ time \in Times /\ r.interval \in Nat \ {0} /\ Horizon \in Nat
  BY StartFacts, CalendarAssumption DEF IsRule
<1>2. \A j \in Nat : /\ DOMAIN Period(r, j) = {1} /\ Period(r, j)[1] = {Nth(j)}
                     /\ Nth(j) \in Nat /\ DayNo(Nth(j)) = start + j * r.interval
  BY DailyPeriods
<1>3. \A j \in Nat : j * r.interval \in Nat
  BY <1>1
<1>4. t = Nth(k)
  BY <1>2
<1>5. \A j, l \in Nat : Nth(j) <= Nth(l) <=> j <= l
  <2> SUFFICES ASSUME NEW j \in Nat, NEW l \in Nat PROVE Nth(j) <= Nth(l) <=> j <= l
    OBVIOUS
  <2> DEFINE a == j * r.interval
             b == l * r.interval
  <2>1. j <= l <=> a <= b
    <3>1. \A n \in Nat \ {0} : j <= l <=> j * n <= l * n
      BY MulMono
    <3> QED BY <1>1, <3>1
  <2>2. a \in Nat /\ b \in Nat
    BY <1>3
  <2> HIDE DEF a, b
  <2>3. start + a \in Int /\ start + b \in Int /\ (a <= b <=> start + a <= start + b)
    BY <1>1, <2>2
  <2>4. \A s \in Int : s <= s
    OBVIOUS
  <2>5. At(start + a, time) <= At(start + b, time) <=> start + a <= start + b
    <3>1. At(start + a, time) <= At(start + b, time)
            <=> start + a < start + b \/ (start + a = start + b /\ time <= time)
      BY <1>1, <2>3, InstantsInOrder
    <3>2. time <= time
      BY <1>1 DEF Times
    <3> QED BY <2>3, <3>1, <3>2
  <2> QED BY <2>1, <2>3, <2>5 DEF a, b
<1>6. \A j \in Nat : IsCandidate(r, Nth(j))
  BY <1>2 DEF IsCandidate
<1>7. \A u : IsCandidate(r, u) => \E j \in Nat : u = Nth(j)
  BY <1>2 DEF IsCandidate
<1>8. \A j \in 0..k : Nth(j) \in UpTo(r, t)
  <2> SUFFICES ASSUME NEW j \in 0..k PROVE Nth(j) \in UpTo(r, t)
    OBVIOUS
  <2>1. j \in Nat /\ j <= k /\ Nth(j) <= t /\ Nth(j) \in Nat /\ t \in Nat
    BY <1>2, <1>4, <1>5
  <2>2. DayNo(Nth(j)) <= DayNo(t) /\ DayNo(t) \in Nat
    BY <2>1, DayOrder, Instants
  <2>3. DayNo(Nth(j)) = start + j * r.interval /\ j * r.interval \in Nat
    BY <1>2, <1>3, <2>1
  <2>4. start <= DayNo(Nth(j)) /\ DayNo(Nth(j)) <= start + Horizon
    BY <1>1, <2>2, <2>3
  <2>5. IsCandidate(r, Nth(j))
    BY <1>6, <2>1
  <2> HIDE DEF Nth
  <2>6. Nth(j) \in Occurring(r)
    BY <2>1, <2>4, <2>5, OccurringAre
  <2> QED BY <2>1, <2>6 DEF UpTo
<1>9. \A u \in UpTo(r, t) : \E j \in 0..k : f[j] = u
  <2> SUFFICES ASSUME NEW u \in UpTo(r, t) PROVE \E j \in 0..k : f[j] = u
    OBVIOUS
  <2>1. u \in Nat /\ IsCandidate(r, u) /\ u <= t
    BY OccurringAre DEF UpTo
  <2>2. PICK j \in Nat : u = Nth(j)
    BY <1>7, <2>1
  <2>3. j <= k
    BY <1>4, <1>5, <2>1, <2>2
  <2>4. j \in 0..k /\ f[j] = u
    BY <2>2, <2>3
  <2> QED BY <2>4
<1>10. f \in [0..k -> UpTo(r, t)]
  BY <1>8
<1>11. \A j, l \in 0..k : f[j] = f[l] => j = l
  <2> SUFFICES ASSUME NEW j \in 0..k, NEW l \in 0..k, f[j] = f[l] PROVE j = l
    OBVIOUS
  <2>1. Nth(j) = Nth(l) /\ j \in Nat /\ l \in Nat /\ Nth(j) \in Nat
    BY <1>2
  <2>2. j <= l /\ l <= j
    BY <1>5, <2>1
  <2> QED BY <2>1, <2>2
<1>12. IsFiniteSet(0..k) /\ Cardinality(0..k) = k + 1
  BY FS_Interval
<1> DEFINE S == 0..k
           T == UpTo(r, t)
<1>13. IsFiniteSet(S) /\ f \in [S -> T] /\ (\A a, b \in S : f[a] = f[b] => a = b)
       /\ (\A u \in T : \E a \in S : f[a] = u)
  BY <1>9, <1>10, <1>11, <1>12
<1> HIDE DEF f, S, T, Nth
<1>14. Cardinality(T) = Cardinality(S)
  BY <1>13, SameSize
<1> QED BY <1>12, <1>14 DEF S, T

(* What UNTIL and COUNT leave of them.                                     *)
LEMMA RuleDatesAre ==
  ASSUME NEW r, NEW t
  PROVE  t \in RuleDates(r) <=>
           /\ t \in Occurring(r)
           /\ r.until # Absent => t <= r.until
           /\ r.count # Absent => Cardinality(UpTo(r, t)) <= r.count
BY DEF RuleDates, Occurring, UpTo

(* A rule that is asked for its next date gives the first of its dates     *)
(* after the instant, and none, or one beyond the horizon, when there is   *)
(* none up to it.                                                          *)
LEMMA NextIsFirst ==
  ASSUME SearchIsLongEnough, NEW r, IsRule(r), Regular(r), WeeksAgree(r),
         r.count # Absent => r.freq = "DAILY",
         NEW after \in Nat, after >= r.dtstart \/ r.freq \in {"DAILY", "WEEKLY"},
         NEW next, next = NextRRuleFire(r, after),
         NEW later, later = { t \in RuleDates(r) : t > after }
  PROVE  IF later # {} THEN next = Min(later)
         ELSE next = Absent \/ DayNo(next) > DayNo(r.dtstart) + Horizon
<1> DEFINE k == Hit(r, after)
           date == FirstLater(Period(r, k), after)
           start == DayNo(r.dtstart)
<1>1. k \in Nat /\ next = Bounded(r, k, date)
  BY HitIs
<1>2. start \in Nat /\ Horizon \in Nat /\ r.dtstart \in Nat /\ r.interval \in Nat \ {0}
  BY StartFacts, CalendarAssumption DEF IsRule
<1> HIDE DEF k, start
<1>3. ASSUME date # Absent
      PROVE  /\ date \in Nat /\ date > after /\ IsCandidate(r, date)
             /\ start <= DayNo(date) /\ DayNo(date) \in Nat
             /\ \E i \in DOMAIN Period(r, k) : date \in Period(r, k)[i]
  <2>1. PICK i \in DOMAIN Period(r, k) : date \in Period(r, k)[i] /\ date \in Nat /\ date > after
    <3> HIDE DEF date
    <3> QED BY <1>1, <1>3, FirstLaterOf DEF date
  <2>2. IsCandidate(r, date)
    BY <1>1, <2>1 DEF IsCandidate
  <2>3. DayNo(date) \in Nat /\ PeriodStart(r, k) <= DayNo(date) /\ PeriodStart(r, k) \in Int
    BY <1>1, <2>1, PeriodDates, PeriodStarts, Instants
  <2> HIDE DEF date
  <2>4. start <= DayNo(date)
    <3>1. CASE after >= r.dtstart
      <4>1. r.dtstart <= date
        BY <1>2, <2>1, <3>1
      <4> QED BY <1>2, <2>1, <4>1, DayOrder DEF start
    <3>2. CASE r.freq \in {"DAILY", "WEEKLY"}
      <4>1. k * r.interval \in Nat
        BY <1>1, <1>2
      <4>2. PeriodStart(r, k) = start + (IF r.freq = "DAILY" THEN k * r.interval ELSE 7 * (k * r.interval))
        BY <3>2 DEF PeriodStart, start
      <4> QED BY <1>2, <2>3, <4>1, <4>2
    <3> QED BY <3>1, <3>2
  <2> QED BY <2>1, <2>2, <2>3, <2>4
<1>4. ASSUME date # Absent, NEW t, IsCandidate(r, t), t > after PROVE date <= t
  BY <1>4, HitIsFirst DEF k
<1>5. ASSUME NEW t, IsCandidate(r, t), t > after, DayNo(t) <= start + Horizon PROVE date # Absent
  BY <1>5, IsFound DEF k, start
<1> HIDE DEF date
<1>6. ASSUME NEW t \in later
      PROVE  /\ t \in Nat /\ t > after /\ IsCandidate(r, t) /\ DayNo(t) <= start + Horizon
             /\ r.until # Absent => t <= r.until
             /\ r.count # Absent => Cardinality(UpTo(r, t)) <= r.count
  BY <1>6, RuleDatesAre, OccurringAre DEF start
<1>7. ASSUME date # Absent, r.count # Absent, DayNo(date) <= start + Horizon
      PROVE  Cardinality(UpTo(r, date)) = k + 1 /\ Met(r, k) = k + 1
  <2>1. r.freq = "DAILY"
    BY <1>7
  <2> QED BY <1>1, <1>3, <1>7, <2>1, DailyCount DEF Met, start
<1>8. CASE later # {}
  <2>1. PICK t \in later : TRUE
    BY <1>8
  <2>2. date # Absent
    BY <1>5, <1>6
  <2>3. date \in Nat /\ date > after /\ IsCandidate(r, date) /\ start <= DayNo(date)
        /\ DayNo(date) \in Nat /\ \E i \in DOMAIN Period(r, k) : date \in Period(r, k)[i]
    BY <1>3, <2>2
  <2>4. \A u \in later : date <= u
    BY <1>4, <1>6, <2>2
  <2>5. DayNo(date) <= start + Horizon
    <3>1. DayNo(date) <= DayNo(t) /\ DayNo(t) <= start + Horizon /\ DayNo(t) \in Nat
      BY <1>6, <2>3, <2>4, DayOrder, Instants
    <3> QED BY <1>2, <2>3, <3>1
  <2>6. r.until # Absent => ~(date > r.until) /\ date <= r.until
    <3>1. t \in Nat /\ date <= t /\ (r.until # Absent => t <= r.until /\ r.until \in Int)
      BY <1>6, <2>4 DEF IsRule
    <3> QED BY <2>3, <3>1
  <2>7. r.count # Absent => ~(Met(r, k) > r.count) /\ Cardinality(UpTo(r, date)) <= r.count
    <3> SUFFICES ASSUME r.count # Absent
                 PROVE  ~(Met(r, k) > r.count) /\ Cardinality(UpTo(r, date)) <= r.count
      OBVIOUS
    <3>1. Cardinality(UpTo(r, date)) = k + 1 /\ Met(r, k) = k + 1 /\ r.freq = "DAILY" /\ r.count \in Nat
      BY <1>7, <2>2, <2>5 DEF IsRule
    <3>2. PICK j \in Nat : \E i \in DOMAIN Period(r, j) : t \in Period(r, j)[i]
      BY <1>6 DEF IsCandidate
    <3>3. Cardinality(UpTo(r, t)) = j + 1
      BY <1>6, <3>1, <3>2, DailyCount DEF start
    <3>4. j + 1 <= r.count
      BY <1>6, <3>3
    <3>5. k <= j
      <4>1. ~AllPast(r, j, after)
        <5>1. ~(t <= after)
          BY <1>6
        <5> QED BY <3>2, <5>1 DEF AllPast
      <4>2. ~(j < k)
        BY <4>1, HitIs DEF k
      <4> QED BY <1>1, <4>2
    <3> QED BY <1>1, <3>1, <3>4, <3>5
  <2>8. next = date
    BY <1>1, <2>2, <2>6, <2>7 DEF Bounded
  <2>9. date \in later
    <3>1. date \in Occurring(r)
      BY <2>3, <2>5, OccurringAre DEF start
    <3> QED BY <2>3, <2>6, <2>7, <3>1, RuleDatesAre
  <2>10. Min(later) \in later /\ \A u \in later : Min(later) <= u
    <3>1. later \in SUBSET Nat
      BY <1>6
    <3> QED BY <1>8, <3>1, MinIs
  <2>11. Min(later) \in Nat /\ Min(later) <= date /\ date <= Min(later)
    BY <1>6, <2>4, <2>9, <2>10
  <2> QED BY <1>8, <2>3, <2>8, <2>11
<1>9. CASE later = {}
  <2> SUFFICES ASSUME next # Absent, ~(DayNo(next) > start + Horizon) PROVE FALSE
    BY <1>9 DEF start
  <2>1. next = date /\ date # Absent /\ ~(r.count # Absent /\ Met(r, k) > r.count)
        /\ ~(r.until # Absent /\ date > r.until)
    BY <1>1 DEF Bounded
  <2>2. date \in Nat /\ date > after /\ IsCandidate(r, date) /\ start <= DayNo(date)
        /\ DayNo(date) \in Nat
    BY <1>3, <2>1
  <2>3. DayNo(date) <= start + Horizon
    BY <1>2, <2>1, <2>2
  <2>4. r.until # Absent => date <= r.until
    BY <2>1, <2>2 DEF IsRule
  <2>5. r.count # Absent => Cardinality(UpTo(r, date)) <= r.count
    <3> SUFFICES ASSUME r.count # Absent PROVE Cardinality(UpTo(r, date)) <= r.count
      OBVIOUS
    <3>1. Cardinality(UpTo(r, date)) = k + 1 /\ Met(r, k) = k + 1 /\ r.count \in Nat
      BY <1>7, <2>1, <2>3 DEF IsRule
    <3> QED BY <1>1, <2>1, <3>1
  <2>6. date \in RuleDates(r)
    BY <2>2, <2>3, <2>4, <2>5, OccurringAre, RuleDatesAre DEF start
  <2> QED BY <1>9, <2>2, <2>6
<1> QED BY <1>8, <1>9

LEMMA ImpliesNextIsTheNextDate ==
  ASSUME SearchIsLongEnough, RulesAreRegular, IInv PROVE NextIsTheNextDate
<1> SUFFICES ASSUME expr \in Rules, deploys > 0, Agrees(expr)
             PROVE  LET later == { t \in DatesOf[expr] : t > asked }
                    IN  IF later # {} THEN nextFireAt = Min(later)
                        ELSE nextFireAt = Absent \/ DayNo(nextFireAt) > DayNo(expr.dtstart) + Horizon
  BY DEF NextIsTheNextDate
<1> DEFINE r == RuleOf(expr)
           later == { t \in RuleDates(r) : t > asked }
<1>1. DatesOf[expr] = RuleDates(r)
  BY DEF DatesOf, RuleOf
<1>2. IsRule(r) /\ r.dtstart = expr.dtstart /\ Regular(r)
  BY ParsedRules DEF RulesAreRegular, RuleOf
<1>3. /\ r.count # Absent => r.freq = "DAILY"
      /\ r.freq = "WEEKLY" => r.interval = 1 \/ Weekday(DayNo(r.dtstart)) = 1
      /\ asked >= r.dtstart \/ r.freq \in {"DAILY", "WEEKLY"}
  BY DEF Agrees, RuleOf
<1>4. asked \in Nat /\ expr \in Expressions /\ expr.kind = "rrule"
  BY DEF IInv, TypeInv, Rules
<1>5. nextFireAt = NextRRuleFire(r, asked)
  <2>1. nextFireAt = DateFrom(expr, asked)
    BY <1>4 DEF IInv, DateIsComputed
  <2> QED BY <1>4, <2>1 DEF DateFrom
<1> HIDE DEF r
<1>6. IF later # {} THEN nextFireAt = Min(later)
      ELSE nextFireAt = Absent \/ DayNo(nextFireAt) > DayNo(r.dtstart) + Horizon
  <2> HIDE DEF later
  <2> QED BY <1>2, <1>3, <1>4, <1>5, NextIsFirst DEF later, WeeksAgree
<1> QED BY <1>1, <1>2, <1>6

(* nextRRuleFire, asked through any deployments and fires, gives the first *)
(* date of the rule after the instant it was asked from, and nothing when  *)
(* there is none: for rules the documents describe, up to a horizon that   *)
(* is shorter than the 1500 periods of the search.                         *)
THEOREM NextDateOfARule ==
  SearchIsLongEnough /\ RulesAreRegular => (Spec => []NextIsTheNextDate)
<1> SUFFICES ASSUME SearchIsLongEnough, RulesAreRegular PROVE Spec => []NextIsTheNextDate
  OBVIOUS
<1>1. IInv => NextIsTheNextDate
  BY ImpliesNextIsTheNextDate
<1> QED BY <1>1, IInvIsInvariant, PTL

(* The date of a cron expression is the first instant after the one it was *)
(* asked from that its fields match.                                       *)
NextIsTheNextMatch ==
  expr.kind = "cron" /\ nextFireAt # Absent =>
    /\ asked < nextFireAt /\ FiresAt(ParseCron(expr.cron), nextFireAt)
    /\ \A t \in Nat : asked < t /\ t < nextFireAt => ~FiresAt(ParseCron(expr.cron), t)

(* nextCronFire likewise, for every cron expression: no match between the  *)
(* instant it was asked from and its date.                                 *)
THEOREM NextDateOfACron == Spec => []NextIsTheNextMatch
<1>1. IInv => NextIsTheNextMatch
  <2> SUFFICES ASSUME IInv, expr.kind = "cron", nextFireAt # Absent
               PROVE  /\ asked < nextFireAt /\ FiresAt(ParseCron(expr.cron), nextFireAt)
                      /\ \A t \in Nat : asked < t /\ t < nextFireAt
                                          => ~FiresAt(ParseCron(expr.cron), t)
    BY DEF NextIsTheNextMatch
  <2>1. expr \in Expressions /\ asked \in Nat /\ nextFireAt \in Nat
        /\ nextFireAt = DateFrom(expr, asked)
    BY DEF IInv, TypeInv, DateIsComputed
  <2>2. nextFireAt = NextCronFire(ParseCron(expr.cron), asked) /\ nextFireAt # Throws
    BY <2>1, NextDates, CalendarAssumption
  <2> QED BY <2>1, <2>2, CronNext
<1> QED BY <1>1, IInvIsInvariant, PTL
==============================================================================
