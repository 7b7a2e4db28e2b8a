-------------------------- MODULE Recurrence_proofs --------------------------
(***************************************************************************)
(* RecurrenceRules, for any arguments, zones and limits: the expansion     *)
(* yields the dates of the rule, and an occurrence starts when its zone's  *)
(* clock shows the start time.                                             *)
(*                                                                         *)
(* Occurrences, for any set of templates, any rules and zones, any clock   *)
(* and any order of transactions, also when the clock is stepped back: an  *)
(* occurrence is made once, none that is due is missing, none that is left *)
(* out is left out silently, and a creation that was refused leaves        *)
(* nothing.                                                                *)
(***************************************************************************)
EXTENDS RecurrenceRules, Occurrences, SetInduction, FiniteSetTheorems

-----------------------------------------------------------------------------
(* The calendar: months follow each other without a gap                     *)

\* A month has 28 to 31 days.
LEMMA MonthLengths == \A m \in Nat : MonthLength(m) \in 28 .. 31
BY DEF MonthLength

\* f adds up the lengths of the months up to N.
AddsUp(f, N) == f[0] = 0 /\ \A n \in 1 .. N : f[n] = f[n - 1] + MonthLength(n - 1)

\* The lengths of the first months can be added up,
LEMMA SumsExist ==
    ASSUME NEW N \in Nat
    PROVE  \E f \in [0 .. N -> Int] : AddsUp(f, N)
<1> DEFINE step == [n \in 1 .. N |-> [x \in Int |-> x + MonthLength(n - 1)]]
<1>1. \A n \in 1 .. N : MonthLength(n - 1) \in Int
  <2>1. \A n \in 1 .. N : n - 1 \in Nat
    OBVIOUS
  <2>2. QED BY <2>1, MonthLengths
<1>2. step \in [1 .. N -> [Int -> Int]]
  BY <1>1
<1>3. \A n \in 1 .. N : \A x \in Int : step[n][x] = x + MonthLength(n - 1)
  OBVIOUS
<1> HIDE DEF step
<1>4. PICK f \in [0 .. N -> Int] : Iterates(f, 0, N, step)
  <2> DEFINE whole == Int
             zero == 0
  <2>1. zero \in whole /\ step \in [1 .. N -> [whole -> whole]]
    BY <1>2
  <2> HIDE DEF whole, zero
  <2>2. \E f \in [0 .. N -> whole] : Iterates(f, zero, N, step)
    BY <2>1, IterationExists
  <2>3. QED BY <2>2 DEF whole, zero
<1>5. ASSUME NEW n \in 1 .. N PROVE f[n] = f[n - 1] + MonthLength(n - 1)
  <2>1. n - 1 \in 0 .. N
    OBVIOUS
  <2>2. f[n - 1] \in Int
    BY <2>1
  <2>3. QED BY <1>3, <1>4, <2>2 DEF Iterates
<1>6. QED BY <1>4, <1>5 DEF AddsUp, Iterates

Sum(n) == CHOOSE f \in [0 .. n -> Int] : AddsUp(f, n)

\* in one way only.
LEMMA SumsAgree ==
    ASSUME NEW n \in Nat
    PROVE  /\ Sum(n) \in [0 .. n -> Int] /\ Sum(n)[0] = 0
           /\ n # 0 => Sum(n)[n] = Sum(n - 1)[n - 1] + MonthLength(n - 1)
<1>1. Sum(n) \in [0 .. n -> Int] /\ AddsUp(Sum(n), n)
  BY SumsExist DEF Sum
<1>2. ASSUME n # 0 PROVE Sum(n)[n] = Sum(n - 1)[n - 1] + MonthLength(n - 1)
  <2>1. n - 1 \in Nat /\ n \in 1 .. n
    BY <1>2
  <2>2. Sum(n - 1) \in [0 .. n - 1 -> Int] /\ AddsUp(Sum(n - 1), n - 1)
    BY <2>1, SumsExist DEF Sum
  <2>3. GoAlike(Sum(n), Sum(n - 1), n - 1)
    <3>1. \A k \in 1 .. n - 1 : k \in 1 .. n
      OBVIOUS
    <3>2. QED BY <1>1, <2>2, <3>1 DEF AddsUp, GoAlike
  <2>4. AreAlike(Sum(n), Sum(n - 1), n - 1)
    BY <2>1, <2>3, IterationUnique
  <2>5. n - 1 \in 0 .. n - 1
    BY <2>1
  <2>6. Sum(n)[n - 1] = Sum(n - 1)[n - 1]
    BY <2>4, <2>5 DEF AreAlike
  <2>7. QED BY <1>1, <2>1, <2>6 DEF AddsUp
<1>3. QED BY <1>1, <1>2 DEF AddsUp

\* The first days of the months: the definition of FirstOfMonth has a solution.
LEMMA FirstOfMonths ==
    /\ FirstOfMonth \in [Nat -> Int] /\ FirstOfMonth[0] = 0
    /\ \A m \in Nat : FirstOfMonth[m + 1] = FirstOfMonth[m] + MonthLength(m)
<1> DEFINE Days(f) == f = [m \in Nat |-> IF m = 0 THEN 0 ELSE f[m - 1] + MonthLength(m - 1)]
           total == [n \in Nat |-> Sum(n)[n]]
<1>1. \A n \in Nat : Sum(n)[n] \in Int
  BY SumsAgree
<1>2. \A n \in Nat : total[n] = IF n = 0 THEN 0 ELSE total[n - 1] + MonthLength(n - 1)
  <2> TAKE n \in Nat
  <2>1. CASE n = 0
    BY <2>1, SumsAgree
  <2>2. CASE n # 0
    <3>1. n - 1 \in Nat
      BY <2>2
    <3>2. QED BY <2>2, <3>1, SumsAgree
  <2>3. QED BY <2>1, <2>2
<1>3. Days(total)
  <2>1. total = [n \in Nat |-> total[n]]
    OBVIOUS
  <2> HIDE DEF total
  <2>2. QED BY <1>2, <2>1
<1> HIDE DEF total
<1>4. FirstOfMonth = CHOOSE f : Days(f)
  BY DEF FirstOfMonth
<1>5. Days(FirstOfMonth)
  BY <1>3, <1>4
<1> DEFINE f == FirstOfMonth
<1>6. f = [m \in Nat |-> IF m = 0 THEN 0 ELSE f[m - 1] + MonthLength(m - 1)]
  BY <1>5
<1> HIDE DEF f, Days
<1>7. f[0] = 0 /\ \A m \in Nat : f[m + 1] = f[m] + MonthLength(m)
  <2>1. f[0] = 0
    BY <1>6
  <2>2. ASSUME NEW m \in Nat PROVE f[m + 1] = f[m] + MonthLength(m)
    <3>1. m + 1 \in Nat /\ m + 1 # 0 /\ m + 1 - 1 = m
      OBVIOUS
    <3>2. f[m + 1] = f[m + 1 - 1] + MonthLength(m + 1 - 1)
      BY <1>6, <3>1
    <3>3. QED BY <3>1, <3>2
  <2>3. QED BY <2>1, <2>2
<1>8. f \in [Nat -> Int]
  <2>1. DOMAIN f = Nat /\ f = [m \in Nat |-> f[m]]
    BY <1>6
  <2>2. ASSUME NEW N \in Nat PROVE f[N] \in Int
    <3> DEFINE T == {n \in Nat : f[n] \in Int}
    <3>1. 0 \in T
      BY <1>7
    <3>2. \A n \in 0 .. N - 1 : n \in T => n + 1 \in T
      BY <1>7, MonthLengths
    <3> HIDE DEF T
    <3>3. \A n \in 0 .. N : n \in T
      BY <3>1, <3>2, Induction
    <3>4. N \in T
      BY <3>3
    <3>5. QED BY <3>4 DEF T
  <2>3. QED BY <2>1, <2>2
<1>9. QED BY <1>7, <1>8 DEF f

\* The days of month m, counted from the first day of FirstYear.
InMonth(date, m) == FirstOfMonth[m] <= date /\ date < FirstOfMonth[m] + MonthLength(m)

\* A later month begins after the end of an earlier one.
LEMMA MonthsFollow ==
    ASSUME NEW m \in Nat, NEW n \in Nat, m < n
    PROVE  FirstOfMonth[m] + MonthLength(m) <= FirstOfMonth[n]
<1> DEFINE T == {k \in Nat : FirstOfMonth[m] + MonthLength(m) <= FirstOfMonth[m + 1 + k]}
<1>1. 0 \in T
  BY FirstOfMonths, MonthLengths
<1>2. ASSUME NEW k \in Nat, k \in T PROVE k + 1 \in T
  <2>1. m + 1 + k \in Nat /\ m + 1 + (k + 1) = (m + 1 + k) + 1
    OBVIOUS
  <2>2. FirstOfMonth[m + 1 + (k + 1)] = FirstOfMonth[m + 1 + k] + MonthLength(m + 1 + k)
    BY <2>1, FirstOfMonths
  <2>3. MonthLength(m + 1 + k) \in 28 .. 31 /\ MonthLength(m) \in 28 .. 31
    BY <2>1, MonthLengths
  <2>4. FirstOfMonth[m] \in Int /\ FirstOfMonth[m + 1 + k] \in Int
    BY <2>1, FirstOfMonths
  <2>5. FirstOfMonth[m] + MonthLength(m) <= FirstOfMonth[m + 1 + k]
    BY <1>2
  <2>6. FirstOfMonth[m] + MonthLength(m) <= FirstOfMonth[m + 1 + (k + 1)]
    BY <2>2, <2>3, <2>4, <2>5
  <2>7. QED BY <2>6
<1>3. n - m - 1 \in Nat /\ m + 1 + (n - m - 1) = n
  OBVIOUS
<1> HIDE DEF T
<1>4. n - m - 1 \in T
  <2> DEFINE N == n - m - 1
  <2>1. \A k \in 0 .. N - 1 : k \in T => k + 1 \in T
    BY <1>2
  <2>2. N \in Nat
    BY <1>3
  <2> HIDE DEF N
  <2>3. \A k \in 0 .. N : k \in T
    BY <1>1, <2>1, <2>2, Induction
  <2>4. N \in T
    BY <2>2, <2>3
  <2>5. QED BY <2>4 DEF N
<1>5. FirstOfMonth[m] + MonthLength(m) <= FirstOfMonth[m + 1 + (n - m - 1)]
  BY <1>4 DEF T
<1>6. QED BY <1>3, <1>5

\* A month begins when at least 28 days have passed for each month before it.
LEMMA MonthsAreLong == \A m \in Nat : FirstOfMonth[m] >= 28 * m
<1> SUFFICES ASSUME NEW N \in Nat PROVE FirstOfMonth[N] >= 28 * N
  OBVIOUS
<1> DEFINE T == {m \in Nat : FirstOfMonth[m] >= 28 * m}
<1>1. 0 \in T
  BY FirstOfMonths
<1>2. \A m \in 0 .. N - 1 : m \in T => m + 1 \in T
  BY FirstOfMonths, MonthLengths
<1> HIDE DEF T
<1>3. \A m \in 0 .. N : m \in T
  BY <1>1, <1>2, Induction
<1>4. N \in T
  BY <1>3
<1>5. QED BY <1>4 DEF T

\* A date lies in one month only,
LEMMA OneMonth ==
    ASSUME NEW date \in Nat, NEW m \in Nat, NEW n \in Nat, InMonth(date, m), InMonth(date, n)
    PROVE  m = n
<1>1. FirstOfMonth[m] \in Int /\ FirstOfMonth[n] \in Int
  BY FirstOfMonths
<1>2. MonthLength(m) \in Int /\ MonthLength(n) \in Int
  BY MonthLengths
<1>3. ~ (m < n)
  <2>1. SUFFICES ASSUME m < n PROVE FALSE
    OBVIOUS
  <2>2. FirstOfMonth[m] + MonthLength(m) <= FirstOfMonth[n]
    BY <2>1, MonthsFollow
  <2>3. QED BY <1>1, <1>2, <2>2 DEF InMonth
<1>4. ~ (n < m)
  <2>1. SUFFICES ASSUME n < m PROVE FALSE
    OBVIOUS
  <2>2. FirstOfMonth[n] + MonthLength(n) <= FirstOfMonth[m]
    BY <2>1, MonthsFollow
  <2>3. QED BY <1>1, <1>2, <2>2 DEF InMonth
<1>5. QED BY <1>3, <1>4

\* and in one at all: MonthOf finds it.
LEMMA MonthOfDate ==
    ASSUME NEW date \in Nat
    PROVE  MonthOf(date) \in Nat /\ InMonth(date, MonthOf(date))
<1> DEFINE N == date \div 28
           S == {m \in 0 .. N : FirstOfMonth[m] <= date}
<1>1. N \in Nat /\ 28 * N <= date /\ date < 28 * N + 28
  OBVIOUS
<1> HIDE DEF N
<1>2. S \in SUBSET (0 .. N) /\ 0 \in S
  BY <1>1, FirstOfMonths
<1>3. PICK m \in S : \A k \in S : k <= m
  <2> HIDE DEF S
  <2>1. QED BY <1>1, <1>2, GreatestExists
<1>4. m \in 0 .. N /\ m \in Nat /\ FirstOfMonth[m] <= date
  BY <1>1, <1>3
<1>5. date < FirstOfMonth[m] + MonthLength(m)
  <2>1. CASE m = N
    <3>1. FirstOfMonth[m] >= 28 * m
      BY <1>4, MonthsAreLong
    <3>2. MonthLength(m) >= 28 /\ MonthLength(m) \in Int /\ FirstOfMonth[m] \in Int
      BY <1>4, MonthLengths, FirstOfMonths
    <3>3. QED BY <1>1, <2>1, <3>1, <3>2
  <2>2. CASE m # N
    <3>1. m + 1 \in 0 .. N /\ ~ (m + 1 <= m)
      BY <1>1, <1>4, <2>2
    <3>2. m + 1 \notin S
      BY <1>3, <3>1
    <3>3. ~ (FirstOfMonth[m + 1] <= date)
      BY <3>1, <3>2
    <3>4. FirstOfMonth[m + 1] = FirstOfMonth[m] + MonthLength(m)
      BY <1>4, FirstOfMonths
    <3>5. MonthLength(m) \in Int /\ FirstOfMonth[m] \in Int
      BY <1>4, MonthLengths, FirstOfMonths
    <3>6. QED BY <3>3, <3>4, <3>5
  <2>3. QED BY <2>1, <2>2
<1>6. \E k \in 0 .. N : InMonth(date, k)
  BY <1>4, <1>5 DEF InMonth
<1>7. MonthOf(date) = CHOOSE k \in 0 .. N : InMonth(date, k)
  BY DEF MonthOf, InMonth, N
<1>8. MonthOf(date) \in 0 .. N /\ InMonth(date, MonthOf(date))
  BY <1>6, <1>7
<1>9. QED BY <1>1, <1>8

\* A date is known by its month and its day of the month,
LEMMA MonthAndDay ==
    ASSUME NEW date \in Nat, NEW m \in Nat, NEW day \in Int
    PROVE  MonthOf(date) = m /\ DayOfMonth(date) = day
             <=> day \in 1 .. MonthLength(m) /\ date = FirstOfMonth[m] + day - 1
<1>1. MonthOf(date) \in Nat /\ InMonth(date, MonthOf(date))
  BY MonthOfDate
<1>2. FirstOfMonth[m] \in Int /\ MonthLength(m) \in Int /\ FirstOfMonth[MonthOf(date)] \in Int
  BY <1>1, FirstOfMonths, MonthLengths
<1>3. ASSUME MonthOf(date) = m, DayOfMonth(date) = day
      PROVE  day \in 1 .. MonthLength(m) /\ date = FirstOfMonth[m] + day - 1
  BY <1>1, <1>2, <1>3 DEF InMonth, DayOfMonth
<1>4. ASSUME day \in 1 .. MonthLength(m), date = FirstOfMonth[m] + day - 1
      PROVE  MonthOf(date) = m /\ DayOfMonth(date) = day
  <2>1. InMonth(date, m)
    BY <1>2, <1>4 DEF InMonth
  <2>2. MonthOf(date) = m
    BY <1>1, <2>1, OneMonth
  <2>3. QED BY <1>2, <1>4, <2>2 DEF DayOfMonth
<1>5. QED BY <1>3, <1>4

\* and an earlier date is in the same month or in an earlier one.
LEMMA MonthOfGrows ==
    ASSUME NEW date \in Nat, NEW later \in Nat, date <= later
    PROVE  MonthOf(date) <= MonthOf(later)
<1> DEFINE m == MonthOf(date)
           n == MonthOf(later)
<1>1. m \in Nat /\ n \in Nat /\ InMonth(date, m) /\ InMonth(later, n)
  BY MonthOfDate
<1> HIDE DEF m, n
<1>2. FirstOfMonth[m] \in Int /\ FirstOfMonth[n] \in Int /\ MonthLength(m) \in Int /\ MonthLength(n) \in Int
  BY <1>1, FirstOfMonths, MonthLengths
<1>3. ~ (n < m)
  <2>1. SUFFICES ASSUME n < m PROVE FALSE
    OBVIOUS
  <2>2. FirstOfMonth[n] + MonthLength(n) <= FirstOfMonth[m]
    BY <1>1, <2>1, MonthsFollow
  <2>3. QED BY <1>1, <1>2, <2>2 DEF InMonth
<1>4. m <= n
  BY <1>1, <1>3
<1>5. QED BY <1>4 DEF m, n

-----------------------------------------------------------------------------
(* Multiples of an interval                                                 *)

\* A number that the interval divides is a multiple of it.
LEMMA Multiples ==
    ASSUME NEW x \in Nat, NEW n \in Nat, n > 0
    PROVE  /\ \A k \in Nat : (k * n) % n = 0 /\ k * n \in Nat
           /\ x % n = 0 => \E q \in Nat : x = q * n
<1>1. \A k \in Nat : (k * n) % n = 0 /\ k * n \in Nat
  OBVIOUS
<1>2. ASSUME x % n = 0 PROVE \E q \in Nat : x = q * n
  <2>1. x = (x \div n) * n /\ x \div n \in Nat
    BY <1>2
  <2>2. QED BY <2>1
<1>3. QED BY <1>1, <1>2

\* No multiple lies between two neighbours.
LEMMA NextMultiple ==
    ASSUME NEW x \in Nat, NEW n \in Nat, n > 0, NEW k \in Nat, x % n = 0
    PROVE  x < (k + 1) * n <=> x < k * n \/ x = k * n
<1>1. PICK q \in Nat : x = q * n
  BY Multiples
<1>2. q * n < (k + 1) * n => q * n < k * n \/ q = k
  OBVIOUS
<1>3. q * n < k * n \/ q = k => q * n < (k + 1) * n
  OBVIOUS
<1>4. q * n = k * n => q = k
  OBVIOUS
<1>5. QED BY <1>1, <1>2, <1>3, <1>4

\* An earlier date is in an earlier week or in the same.
LEMMA WeekOfGrows ==
    ASSUME NEW date \in Nat, NEW later \in Nat, date <= later
    PROVE  WeekOf(date) <= WeekOf(later)
BY CalendarAssumption DEF WeekOf

\* A date is known by its week and its weekday.
LEMMA WeekAndDay ==
    ASSUME NEW date \in Int, NEW week \in Int, NEW day \in Int
    PROVE  WeekOf(date) = week /\ Weekday(date) = day
             <=> day \in 0 .. 6 /\ date = 7 * week + day - FirstWeekday
BY CalendarAssumption DEF WeekOf, Weekday

-----------------------------------------------------------------------------
(* The template                                                             *)

\* b is what is built from the arguments r.
DefaultsOf(r, b) ==
    /\ b.frequency = r.frequency /\ b.interval = r.interval /\ b.first = r.first
    /\ b.startTime = r.startTime /\ b.duration = r.duration /\ b.until = r.until
    /\ b.count = r.count /\ b.zone = r.zone
    /\ b.weekdays = IF r.frequency = "weekly" /\ r.weekdays = {} THEN {Weekday(r.first)} ELSE r.weekdays
    /\ b.monthDays = IF r.frequency = "monthly" /\ r.monthDays = {} THEN {DayOfMonth(r.first)} ELSE r.monthDays
    /\ b.weekdays \subseteq 0 .. 6 /\ b.monthDays \subseteq 1 .. 31

\* Resolving the defaults keeps a template acceptable, and happens once.
LEMMA BuiltOnce ==
    ASSUME NEW r \in Arguments, Acceptable(r)
    PROVE  /\ Built(r) \in Arguments /\ Acceptable(Built(r)) /\ Built(Built(r)) = Built(r)
           /\ r.first \in Nat /\ r.interval \in Nat /\ r.interval > 0
           /\ DefaultsOf(r, Built(r))
<1>1. r.first \in Nat /\ r.interval \in Nat /\ r.interval > 0
  BY DEF Acceptable, Arguments
<1>2. Weekday(r.first) \in 0 .. 6
  BY <1>1, CalendarAssumption DEF Weekday
<1>3. DayOfMonth(r.first) \in 1 .. 31
  <2>1. MonthOf(r.first) \in Nat /\ InMonth(r.first, MonthOf(r.first))
    BY <1>1, MonthOfDate
  <2>2. MonthLength(MonthOf(r.first)) \in 28 .. 31 /\ FirstOfMonth[MonthOf(r.first)] \in Int
    BY <2>1, MonthLengths, FirstOfMonths
  <2>3. QED BY <1>1, <2>1, <2>2 DEF InMonth, DayOfMonth
<1> DEFINE w == IF r.frequency = "weekly" /\ r.weekdays = {} THEN {Weekday(r.first)} ELSE r.weekdays
           m == IF r.frequency = "monthly" /\ r.monthDays = {} THEN {DayOfMonth(r.first)} ELSE r.monthDays
           b == [r EXCEPT !.weekdays = w, !.monthDays = m]
<1>4. Built(r) = b
  BY DEF Built, Arguments
<1>5. w \in SUBSET Int /\ m \in SUBSET Int
  BY <1>2, <1>3 DEF Arguments
<1>6. /\ w # {} => r.frequency = "weekly" /\ w \subseteq 0 .. 6
      /\ m # {} => r.frequency = "monthly" /\ m \subseteq 1 .. 31
      /\ r.frequency = "weekly" => w # {}
      /\ r.frequency = "monthly" => m # {}
  BY <1>2, <1>3 DEF Acceptable
<1> HIDE DEF w, m
<1>7. /\ b \in Arguments /\ b.weekdays = w /\ b.monthDays = m
      /\ b.frequency = r.frequency /\ b.interval = r.interval /\ b.first = r.first
      /\ b.startTime = r.startTime /\ b.duration = r.duration /\ b.until = r.until
      /\ b.count = r.count /\ b.zone = r.zone
  BY <1>5 DEF Arguments
<1>8. Acceptable(b)
  BY <1>6, <1>7 DEF Acceptable, BoundsAreValid
<1>9. Built(b) = b
  <2>1. Built(b) = [b EXCEPT !.weekdays = w, !.monthDays = m]
    BY <1>6, <1>7 DEF Built, Arguments
  <2>2. QED BY <1>7, <2>1 DEF Arguments
<1>10. DefaultsOf(r, b)
  BY <1>6, <1>7 DEF DefaultsOf, w, m
<1> HIDE DEF b
<1>11. QED BY <1>1, <1>4, <1>7, <1>8, <1>9, <1>10

-----------------------------------------------------------------------------
(* The periods of the generator                                             *)

\* The number of days, weeks or months from the anchor to a date.
Index(d) ==
    CASE request.frequency = "daily" -> d - request.first
      [] request.frequency = "weekly" -> WeekOf(d) - WeekOf(request.first)
      [] request.frequency = "monthly" -> MonthOf(d) - MonthOf(request.first)

\* The template was accepted and its defaults are resolved.
Resolved == request \in Arguments /\ Acceptable(request) /\ rule = Built(request)

\* The weekdays and the days of the month that the arguments stand for.
OnDay(d) ==
    CASE request.frequency = "daily" -> TRUE
      [] request.frequency = "weekly" -> Weekday(d) \in rule.weekdays
      [] request.frequency = "monthly" -> DayOfMonth(d) \in rule.monthDays

\* The template that is expanded is the one the arguments ask for.
LEMMA ResolvedRule ==
    ASSUME Resolved
    PROVE  /\ DefaultsOf(request, rule) /\ request.first \in Nat
           /\ request.interval \in Nat /\ request.interval > 0
           /\ request.frequency \in Frequencies
BY BuiltOnce DEF Resolved, Acceptable

\* The indexes grow with the dates, and a date occurs when it is on one of the
\* days and its index is a multiple of the interval.
LEMMA Indexes ==
    ASSUME Resolved, NEW d \in Nat, d >= request.first
    PROVE  /\ Index(d) \in Nat
           /\ \A e \in Nat : e >= d => Index(e) >= Index(d)
           /\ Occurs(d) <=> OnDay(d) /\ Index(d) % request.interval = 0
<1>1. DefaultsOf(request, rule) /\ request.first \in Nat /\ request.frequency \in Frequencies
  BY ResolvedRule
<1>2. CASE request.frequency = "daily"
  <2>1. /\ Index(d) = d - request.first
        /\ \A e \in Nat : Index(e) = e - request.first
    BY <1>2 DEF Index
  <2>2. Occurs(d) <=> OnDay(d) /\ Index(d) % request.interval = 0
    BY <1>2, <2>1 DEF Occurs, OnDay
  <2>3. QED BY <1>1, <2>1, <2>2
<1>3. CASE request.frequency = "weekly"
  <2>1. \A e \in Nat : Index(e) = WeekOf(e) - WeekOf(request.first)
    BY <1>3 DEF Index
  <2>2. \A e \in Nat : WeekOf(e) \in Int
    BY CalendarAssumption DEF WeekOf
  <2>3. WeekOf(d) >= WeekOf(request.first) /\ \A e \in Nat : e >= d => WeekOf(e) >= WeekOf(d)
    BY <1>1, WeekOfGrows
  <2>4. Occurs(d) <=> OnDay(d) /\ Index(d) % request.interval = 0
    <3>1. Weekday(d) \in rule.weekdays
            <=> \/ Weekday(d) \in request.weekdays
                \/ request.weekdays = {} /\ Weekday(d) = Weekday(request.first)
      BY <1>1, <1>3 DEF DefaultsOf
    <3>2. QED BY <1>3, <2>1, <3>1 DEF Occurs, OnDay
  <2>5. QED BY <1>1, <2>1, <2>2, <2>3, <2>4
<1>4. CASE request.frequency = "monthly"
  <2>1. \A e \in Nat : Index(e) = MonthOf(e) - MonthOf(request.first)
    BY <1>4 DEF Index
  <2>2. \A e \in Nat : MonthOf(e) \in Nat
    BY MonthOfDate
  <2>3. MonthOf(d) >= MonthOf(request.first) /\ \A e \in Nat : e >= d => MonthOf(e) >= MonthOf(d)
    BY <1>1, <2>2, MonthOfGrows
  <2>4. Occurs(d) <=> OnDay(d) /\ Index(d) % request.interval = 0
    <3>1. DayOfMonth(d) \in rule.monthDays
            <=> \/ DayOfMonth(d) \in request.monthDays
                \/ request.monthDays = {} /\ DayOfMonth(d) = DayOfMonth(request.first)
      BY <1>1, <1>4 DEF DefaultsOf
    <3>2. QED BY <1>4, <2>1, <3>1 DEF Occurs, OnDay
  <2>5. QED BY <1>1, <2>1, <2>2, <2>3, <2>4
<1>5. QED BY <1>1, <1>2, <1>3, <1>4 DEF Frequencies

\* The dates of the rule in period k.
InPeriod(d, k) ==
    d \in Nat /\ d >= request.first /\ OnDay(d) /\ Index(d) = k * request.interval

\* What the generator produces in a period is what the rule says of it: a
\* daily rule,
LEMMA DailyPeriod ==
    ASSUME Resolved, request.frequency = "daily", NEW k \in Nat, NEW d
    PROVE  d \in PeriodDates(k) <=> InPeriod(d, k)
<1>1. DefaultsOf(request, rule) /\ request.first \in Nat /\ request.interval \in Nat
  BY ResolvedRule
<1>2. k * request.interval \in Nat
  BY <1>1
<1> DEFINE x == k * request.interval
<1>3. PeriodDates(k) = {request.first + x}
  BY <1>1 DEF PeriodDates, DefaultsOf
<1>4. InPeriod(d, k) <=> d \in Nat /\ d >= request.first /\ d - request.first = x
  BY DEF InPeriod, OnDay, Index
<1> HIDE DEF x
<1>5. x \in Nat
  BY <1>2 DEF x
<1>6. QED BY <1>1, <1>3, <1>4, <1>5

\* a weekly rule, whose weeks start on Monday,
LEMMA WeeklyPeriod ==
    ASSUME Resolved, request.frequency = "weekly", NEW k \in Nat, NEW d
    PROVE  d \in PeriodDates(k) <=> InPeriod(d, k)
<1>1. DefaultsOf(request, rule) /\ request.first \in Nat /\ request.interval \in Nat
  BY ResolvedRule
<1>2. k * request.interval \in Nat /\ 7 * k * request.interval = 7 * (k * request.interval)
  BY <1>1
<1> DEFINE x == k * request.interval
           week == WeekOf(request.first)
           days == rule.weekdays
<1>3. d \in PeriodDates(k)
        <=> /\ \E day \in days : d = request.first - Weekday(request.first) + 7 * x + day
            /\ d >= request.first
  <2>1. PeriodDates(k) = {e \in WeekDates(k) : e >= request.first}
    BY <1>1 DEF PeriodDates, DefaultsOf
  <2>2. WeekDates(k) = {request.first - Weekday(request.first) + 7 * x + day : day \in days}
    BY <1>1, <1>2 DEF WeekDates, DefaultsOf
  <2>3. QED BY <2>1, <2>2
<1>4. InPeriod(d, k)
        <=> d \in Nat /\ d >= request.first /\ Weekday(d) \in days /\ WeekOf(d) - week = x
  BY DEF InPeriod, OnDay, Index
<1>5. days \subseteq 0 .. 6
  BY <1>1 DEF DefaultsOf
<1>6. /\ week \in Int /\ Weekday(request.first) \in Int
      /\ request.first = 7 * week + Weekday(request.first) - FirstWeekday
  <2>1. week \in Int /\ Weekday(request.first) \in Int
    BY <1>1, CalendarAssumption DEF WeekOf, Weekday
  <2>2. QED BY <1>1, <2>1, WeekAndDay
<1>7. x \in Nat
  BY <1>2
<1> HIDE DEF x, week, days
<1>8. FirstWeekday \in Int
  BY CalendarAssumption
<1>9. ASSUME NEW day \in days, d = request.first - Weekday(request.first) + 7 * x + day, d >= request.first
      PROVE  d \in Nat /\ Weekday(d) \in days /\ WeekOf(d) - week = x
  <2>1. day \in 0 .. 6 /\ d \in Nat /\ d = 7 * (week + x) + day - FirstWeekday
    BY <1>1, <1>5, <1>6, <1>7, <1>8, <1>9
  <2>2. week + x \in Int /\ day \in Int /\ d \in Int
    BY <1>6, <1>7, <2>1
  <2>3. WeekOf(d) = week + x /\ Weekday(d) = day
    BY <2>1, <2>2, WeekAndDay
  <2>4. QED BY <1>6, <1>7, <1>9, <2>1, <2>3
<1>10. ASSUME d \in Nat, Weekday(d) \in days, WeekOf(d) - week = x
       PROVE  d = request.first - Weekday(request.first) + 7 * x + Weekday(d)
  <2>1. Weekday(d) \in Int /\ WeekOf(d) \in Int
    BY <1>10, CalendarAssumption DEF WeekOf, Weekday
  <2>2. d = 7 * WeekOf(d) + Weekday(d) - FirstWeekday
    BY <1>10, <2>1, WeekAndDay
  <2>3. WeekOf(d) = week + x
    BY <1>6, <1>7, <1>10, <2>1
  <2>4. QED BY <1>1, <1>6, <1>7, <1>8, <1>10, <2>1, <2>2, <2>3
<1>11. QED BY <1>3, <1>4, <1>9, <1>10

\* and a monthly rule, which has no occurrence on a day that a month lacks.
LEMMA MonthlyPeriod ==
    ASSUME Resolved, request.frequency = "monthly", NEW k \in Nat, NEW d
    PROVE  d \in PeriodDates(k) <=> InPeriod(d, k)
<1>1. DefaultsOf(request, rule) /\ request.first \in Nat /\ request.interval \in Nat
  BY ResolvedRule
<1>2. k * request.interval \in Nat
  BY <1>1
<1> DEFINE x == k * request.interval
           month == MonthOf(request.first)
           days == rule.monthDays
<1>3. d \in PeriodDates(k)
        <=> /\ \E day \in days : day <= MonthLength(month + x) /\ d = FirstOfMonth[month + x] + day - 1
            /\ d >= request.first
  <2>1. PeriodDates(k) = {e \in MonthDates(k) : e >= request.first}
    BY <1>1 DEF PeriodDates, DefaultsOf
  <2>2. MonthDates(k) = {FirstOfMonth[month + x] + day - 1 :
                            day \in {e \in days : e <= MonthLength(month + x)}}
    BY <1>1 DEF MonthDates, DefaultsOf
  <2>3. QED BY <2>1, <2>2
<1>4. InPeriod(d, k)
        <=> d \in Nat /\ d >= request.first /\ DayOfMonth(d) \in days /\ MonthOf(d) - month = x
  BY DEF InPeriod, OnDay, Index
<1>5. days \subseteq 1 .. 31
  BY <1>1 DEF DefaultsOf
<1>6. month \in Nat /\ x \in Nat /\ month + x \in Nat
  BY <1>1, <1>2, MonthOfDate
<1> HIDE DEF x, month, days
<1>7. FirstOfMonth[month + x] \in Int /\ MonthLength(month + x) \in Int
  BY <1>6, FirstOfMonths, MonthLengths
<1>8. ASSUME NEW day \in days, day <= MonthLength(month + x), d = FirstOfMonth[month + x] + day - 1,
             d >= request.first
      PROVE  d \in Nat /\ DayOfMonth(d) \in days /\ MonthOf(d) - month = x
  <2>1. day \in Int /\ day \in 1 .. MonthLength(month + x) /\ d \in Nat
    BY <1>1, <1>5, <1>7, <1>8
  <2>2. MonthOf(d) = month + x /\ DayOfMonth(d) = day
    BY <1>6, <1>8, <2>1, MonthAndDay
  <2>3. QED BY <1>6, <1>8, <2>1, <2>2
<1>9. ASSUME d \in Nat, DayOfMonth(d) \in days, MonthOf(d) - month = x
      PROVE  /\ DayOfMonth(d) <= MonthLength(month + x)
             /\ d = FirstOfMonth[month + x] + DayOfMonth(d) - 1
  <2>1. MonthOf(d) \in Nat
    BY <1>9, MonthOfDate
  <2>2. DayOfMonth(d) \in Int /\ MonthOf(d) = month + x
    <3>1. DayOfMonth(d) \in 1 .. 31
      BY <1>5, <1>9
    <3>2. MonthOf(d) = month + x
      BY <1>6, <1>9, <2>1
    <3>3. QED BY <3>1, <3>2
  <2>3. DayOfMonth(d) \in 1 .. MonthLength(month + x) /\ d = FirstOfMonth[month + x] + DayOfMonth(d) - 1
    BY <1>6, <1>9, <2>2, MonthAndDay
  <2>4. QED BY <1>7, <2>2, <2>3
<1>10. QED BY <1>3, <1>4, <1>8, <1>9

\* What the generator produces in a period, for every frequency.
LEMMA Period ==
    ASSUME Resolved, NEW k \in Nat, NEW d
    PROVE  d \in PeriodDates(k) <=> InPeriod(d, k)
BY ResolvedRule, DailyPeriod, WeeklyPeriod, MonthlyPeriod DEF Frequencies

-----------------------------------------------------------------------------
(* The invariant                                                            *)

Yielded == {dates[i] : i \in DOMAIN dates}

\* The dates of the rule in the periods that were generated.
Produced(d) ==
    /\ d \in Nat /\ d >= request.first
    /\ OnDay(d) /\ Index(d) % request.interval = 0 /\ Index(d) < period * request.interval

StatusInv ==
    /\ request \in Requests
    /\ status \in {"given", "refused", "expanding", "expanded", "raised"}
    /\ period \in Nat /\ examined \in Nat /\ dates \in Seq(Nat) /\ ahead \in SUBSET Nat
    /\ status \in {"given", "refused"} => period = 0 /\ ahead = {} /\ examined = 0 /\ dates = <<>>
    /\ status \in {"expanding", "expanded", "raised"} => Resolved

YieldedInv ==
    /\ \A i, j \in DOMAIN dates : i < j => dates[i] < dates[j]
    /\ Yielded \subseteq Due
    /\ IsFiniteSet(Yielded) /\ Cardinality(Yielded) = Len(dates)

ExpandingInv ==
    /\ \A d : d \in Yielded \cup ahead <=> Produced(d)
    /\ \A d \in Yielded : \A e \in ahead : d < e
    /\ examined = Len(dates) /\ examined <= MaxCandidates
    /\ rule.count # None => Len(dates) < rule.count

\* The dates are those of the rule, or the first `count` of them.
AreTheRule == Yielded = {date \in Due : rule.count # None => IsFirst(date, rule.count)}

DatesInv ==
    /\ StatusInv /\ YieldedInv
    /\ status = "expanding" => ExpandingInv
    /\ status = "expanded" => AreTheRule
    /\ status = "raised" => Cardinality(Due) > MaxCandidates

-----------------------------------------------------------------------------
(* Facts about a state                                                      *)

\* The least member is the one that is at most every other.
LEMMA MinIs ==
    ASSUME NEW S \in SUBSET Int, NEW x \in S, \A y \in S : x <= y
    PROVE  Min(S) = x
<1>1. Min(S) \in S /\ \A y \in S : Min(S) <= y
  BY DEF Min
<1>2. Min(S) <= x /\ x <= Min(S)
  BY <1>1
<1>3. Min(S) \in Int /\ x \in Int
  BY <1>1
<1>4. QED BY <1>2, <1>3

\* The limit is one of the two dates given.
LEMMA LimitType ==
    ASSUME rule \in Arguments
    PROVE  Limit \in Int
<1>1. Through \in Int /\ rule.until \in Int
  BY CalendarAssumption DEF Arguments
<1>2. Min({Through, rule.until}) \in {Through, rule.until}
  <2>1. \E x \in {Through, rule.until} : \A y \in {Through, rule.until} : x <= y
    BY <1>1
  <2>2. QED BY <2>1 DEF Min
<1>3. QED BY <1>1, <1>2 DEF Limit

\* The dates that are due are a finite set of the dates that occur.
LEMMA DueDates ==
    ASSUME Resolved
    PROVE  /\ IsFiniteSet(Due)
           /\ Limit \in Int
           /\ \A d : d \in Due <=>
                /\ d \in Nat /\ d >= request.first /\ d <= Limit
                /\ OnDay(d) /\ Index(d) % request.interval = 0
<1>1. rule \in Arguments /\ request.first \in Nat
  BY BuiltOnce DEF Resolved
<1>2. Limit \in Int
  BY <1>1, LimitType
<1>3. IsFiniteSet(request.first .. Limit)
  BY <1>1, <1>2, FS_Interval
<1>4. Due \subseteq request.first .. Limit
  BY DEF Due
<1>5. IsFiniteSet(Due)
  BY <1>3, <1>4, FS_Subset
<1>6. ASSUME NEW d
      PROVE  d \in Due <=>
                /\ d \in Nat /\ d >= request.first /\ d <= Limit
                /\ OnDay(d) /\ Index(d) % request.interval = 0
  <2>1. d \in Due <=> d \in request.first .. Limit /\ Occurs(d)
    BY DEF Due
  <2>2. d \in request.first .. Limit <=> d \in Nat /\ d >= request.first /\ d <= Limit
    BY <1>1, <1>2
  <2>3. QED BY <2>1, <2>2, Indexes
<1>7. QED BY <1>2, <1>5, <1>6

\* The date the generator yields next.
LEMMA NextDate ==
    ASSUME ahead \in SUBSET Nat, ahead # {}
    PROVE  Min(ahead) \in ahead /\ Min(ahead) \in Nat /\ \A e \in ahead : Min(ahead) <= e
<1>1. PICK x \in ahead : \A e \in ahead : x <= e
  BY LeastExists
<1>2. Min(ahead) = x
  BY <1>1, MinIs
<1>3. QED BY <1>1, <1>2

\* No date of the rule up to the next one was left out.
LEMMA NoneLeftOut ==
    ASSUME Resolved, StatusInv, ExpandingInv, ahead # {},
           NEW d \in Due, d <= Min(ahead)
    PROVE  d \in Yielded \cup {Min(ahead)}
<1> DEFINE current == Min(ahead)
<1>1. current \in ahead /\ current \in Nat /\ \A e \in ahead : current <= e
  BY NextDate DEF StatusInv
<1> HIDE DEF current
<1>2. Produced(current)
  BY <1>1 DEF ExpandingInv
<1>3. d \in Nat /\ d >= request.first /\ OnDay(d) /\ Index(d) % request.interval = 0
  BY DueDates
<1>4. d <= current
  BY DEF current
<1>5. Index(current) >= Index(d) /\ Index(d) \in Nat /\ Index(current) \in Nat
  <2>1. current >= request.first /\ current >= d
    BY <1>1, <1>2, <1>3, <1>4 DEF Produced
  <2>2. QED BY <1>1, <1>3, <2>1, Indexes
<1>6. period * request.interval \in Nat
  BY ResolvedRule DEF StatusInv
<1>7. Index(d) < period * request.interval
  BY <1>2, <1>5, <1>6 DEF Produced
<1>8. Produced(d)
  BY <1>3, <1>7 DEF Produced
<1>9. d \in Yielded \cup ahead
  BY <1>8 DEF ExpandingInv
<1>10. d \in ahead => d = current
  BY <1>1, <1>3, <1>4
<1>11. QED BY <1>9, <1>10 DEF current

\* A date past the limit ends the expansion: the dates are those of the rule.
LEMMA PastTheLimit ==
    ASSUME Resolved, StatusInv, YieldedInv, ExpandingInv, ahead # {}, Min(ahead) > Limit
    PROVE  AreTheRule
<1>1. Limit \in Int /\ IsFiniteSet(Due) /\ \A d \in Due : d \in Nat /\ d <= Limit
  BY DueDates
<1>2. Min(ahead) \in Nat
  BY NextDate DEF StatusInv
<1>3. ASSUME NEW d \in Due PROVE d \in Yielded
  <2>1. d <= Min(ahead) /\ d # Min(ahead)
    BY <1>1, <1>2
  <2>2. QED BY <2>1, NoneLeftOut
<1>4. Yielded = Due
  BY <1>3 DEF YieldedInv
<1>5. ASSUME NEW d \in Due, rule.count # None PROVE IsFirst(d, rule.count)
  <2>1. {e \in Due : e <= d} \subseteq Due
    OBVIOUS
  <2>2. Cardinality({e \in Due : e <= d}) <= Cardinality(Due) /\ IsFiniteSet({e \in Due : e <= d})
    BY <1>1, <2>1, FS_Subset
  <2>3. Cardinality(Due) = Len(dates) /\ Len(dates) < rule.count
    BY <1>4, <1>5 DEF YieldedInv, ExpandingInv
  <2>4. Cardinality({e \in Due : e <= d}) \in Nat /\ Cardinality(Due) \in Nat
    BY <1>1, <2>2, FS_CardinalityType
  <2>5. rule.count \in Int
    BY BuiltOnce DEF Resolved, Arguments
  <2>6. QED BY <2>2, <2>3, <2>4, <2>5 DEF IsFirst
<1>6. QED BY <1>4, <1>5 DEF AreTheRule

\* The next date is added to those yielded so far.
LEMMA OneMore ==
    ASSUME Resolved, StatusInv, YieldedInv, ExpandingInv, ahead # {}, Min(ahead) <= Limit
    PROVE  /\ Min(ahead) \in Due /\ Min(ahead) \notin Yielded
           /\ Yielded \cup {Min(ahead)} \subseteq Due
           /\ IsFiniteSet(Yielded \cup {Min(ahead)})
           /\ Cardinality(Yielded \cup {Min(ahead)}) = Len(dates) + 1
<1>1. Min(ahead) \in ahead /\ Min(ahead) \in Nat
  BY NextDate DEF StatusInv
<1>2. Produced(Min(ahead))
  BY <1>1 DEF ExpandingInv
<1>3. Min(ahead) \in Due
  BY <1>2, DueDates DEF Produced
<1>4. Min(ahead) \notin Yielded
  BY <1>1 DEF ExpandingInv
<1>5. /\ IsFiniteSet(Yielded \cup {Min(ahead)})
      /\ Cardinality(Yielded \cup {Min(ahead)}) = Cardinality(Yielded) + 1
  BY <1>4, FS_AddElement DEF YieldedInv
<1>6. QED BY <1>3, <1>4, <1>5 DEF YieldedInv

\* A date more than the limit on the candidates: the rule has too many.
LEMMA TooManyCandidates ==
    ASSUME Resolved, StatusInv, YieldedInv, ExpandingInv, ahead # {}, Min(ahead) <= Limit,
           examined + 1 > MaxCandidates
    PROVE  Cardinality(Due) > MaxCandidates
<1> DEFINE S == Yielded \cup {Min(ahead)}
<1>1. S \subseteq Due /\ IsFiniteSet(S) /\ Cardinality(S) = Len(dates) + 1
  BY OneMore
<1>2. IsFiniteSet(Due)
  BY DueDates
<1> HIDE DEF S
<1>3. Cardinality(S) <= Cardinality(Due)
  BY <1>1, <1>2, FS_Subset
<1>4. Cardinality(S) \in Nat /\ Cardinality(Due) \in Nat
  BY <1>1, <1>2, FS_CardinalityType
<1>5. Len(dates) = examined /\ examined \in Nat /\ MaxCandidates \in Nat
  BY CalendarAssumption DEF ExpandingInv, StatusInv
<1>6. QED BY <1>1, <1>3, <1>4, <1>5

\* The last date of a template with a count: the dates are the first of the rule.
LEMMA CountIsReached ==
    ASSUME Resolved, StatusInv, YieldedInv, ExpandingInv, ahead # {}, Min(ahead) <= Limit,
           rule.count # None, Len(dates) + 1 >= rule.count
    PROVE  Yielded \cup {Min(ahead)}
               = {date \in Due : rule.count # None => IsFirst(date, rule.count)}
<1> DEFINE current == Min(ahead)
           S == Yielded \cup {current}
           UpTo(d) == {e \in Due : e <= d}
<1>1. S \subseteq Due /\ IsFiniteSet(S) /\ Cardinality(S) = Len(dates) + 1
  BY OneMore
<1>2. IsFiniteSet(Due) /\ \A d \in Due : d \in Nat
  BY DueDates
<1>3. current \in ahead /\ current \in Nat /\ current \in S
  BY NextDate DEF StatusInv
<1>4. \A d \in S : d <= current
  <2>1. \A d \in Yielded : d < current
    BY <1>3 DEF ExpandingInv
  <2>2. \A d \in Yielded : d \in Nat
    BY <1>1, <1>2
  <2>3. QED BY <1>3, <2>1, <2>2
<1>5. \A d \in Due : d <= current => d \in S
  BY NoneLeftOut
<1>6. Cardinality(S) = rule.count /\ rule.count \in Int
  <2>1. rule.count \in Int
    BY BuiltOnce DEF Resolved, Arguments
  <2>2. Len(dates) < rule.count /\ Len(dates) \in Nat
    BY DEF ExpandingInv, StatusInv
  <2>3. QED BY <1>1, <2>1, <2>2
<1> HIDE DEF current, S
<1>7. \A d \in Due : IsFiniteSet(UpTo(d)) /\ Cardinality(UpTo(d)) \in Nat
  <2> TAKE d \in Due
  <2>1. UpTo(d) \subseteq Due
    OBVIOUS
  <2> HIDE DEF UpTo
  <2>2. IsFiniteSet(UpTo(d))
    BY <1>2, <2>1, FS_Subset
  <2>3. QED BY <2>2, FS_CardinalityType
<1>8. ASSUME NEW d \in S PROVE Cardinality(UpTo(d)) <= Cardinality(S)
  <2>1. UpTo(d) \subseteq S
    <3>1. d \in Nat /\ d <= current
      BY <1>1, <1>2, <1>4
    <3>2. \A e \in UpTo(d) : e \in Due /\ e \in Nat /\ e <= d
      BY <1>2
    <3>3. QED BY <1>3, <1>5, <3>1, <3>2
  <2> HIDE DEF UpTo
  <2>2. QED BY <1>1, <2>1, FS_Subset
<1>9. ASSUME NEW d \in Due, d \notin S PROVE Cardinality(UpTo(d)) > Cardinality(S)
  <2>1. d \in Nat /\ d > current
    BY <1>2, <1>3, <1>5, <1>9
  <2>2. S \cup {d} \subseteq UpTo(d)
    <3>1. \A e \in S : e \in Due /\ e \in Nat /\ e <= current
      BY <1>1, <1>2, <1>4
    <3>2. \A e \in S : e <= d
      BY <1>3, <2>1, <3>1
    <3>3. QED BY <2>1, <3>1, <3>2
  <2>3. Cardinality(S \cup {d}) = Cardinality(S) + 1 /\ IsFiniteSet(S \cup {d})
    BY <1>1, <1>9, FS_AddElement
  <2> HIDE DEF UpTo
  <2>4. Cardinality(S \cup {d}) <= Cardinality(UpTo(d))
    BY <1>7, <2>2, FS_Subset
  <2>5. Cardinality(S) \in Nat /\ Cardinality(UpTo(d)) \in Nat
    BY <1>1, <1>7, FS_CardinalityType
  <2>6. QED BY <2>3, <2>4, <2>5
<1>10. ASSUME NEW d \in Due PROVE d \in S <=> IsFirst(d, rule.count)
  <2>1. IsFirst(d, rule.count) <=> Cardinality(UpTo(d)) <= Cardinality(S)
    BY <1>6 DEF IsFirst
  <2> HIDE DEF UpTo
  <2>2. Cardinality(S) \in Nat /\ Cardinality(UpTo(d)) \in Nat
    BY <1>1, <1>7, FS_CardinalityType
  <2>3. QED BY <1>8, <1>9, <2>1, <2>2
<1>11. S = {date \in Due : rule.count # None => IsFirst(date, rule.count)}
  BY <1>1, <1>10
<1>12. QED BY <1>11 DEF S, current

-----------------------------------------------------------------------------
(* The steps                                                                *)

\* Before the expansion nothing is yielded.
LEMMA NothingYielded == dates = <<>> => YieldedInv /\ Yielded = {} /\ Len(dates) = 0
<1> SUFFICES ASSUME dates = <<>> PROVE YieldedInv /\ Yielded = {} /\ Len(dates) = 0
  OBVIOUS
<1>1. Len(dates) = 0 /\ DOMAIN dates = {}
  OBVIOUS
<1>2. Yielded = {}
  BY <1>1 DEF Yielded
<1>3. IsFiniteSet({}) /\ Cardinality({}) = 0
  BY FS_EmptySet
<1>4. QED BY <1>1, <1>2, <1>3 DEF YieldedInv

\* Nothing is yielded when the arguments are given.
LEMMA DatesInit == RulesInit => DatesInv
<1> SUFFICES ASSUME RulesInit PROVE DatesInv
  OBVIOUS
<1>1. StatusInv
  BY DEF RulesInit, StatusInv
<1>2. YieldedInv
  BY NothingYielded DEF RulesInit
<1>3. status = "given"
  BY DEF RulesInit
<1>4. QED BY <1>1, <1>2, <1>3 DEF DatesInv

\* What a date is to the rule does not change in the expansion.
LEMMA SameRule ==
    ASSUME UNCHANGED <<request, rule>>
    PROVE  /\ Due' = Due /\ Limit' = Limit /\ Resolved' = Resolved
           /\ \A d : OnDay(d)' = OnDay(d) /\ Index(d)' = Index(d)
           /\ \A d, n : IsFirst(d, n)' = IsFirst(d, n)
<1>1. Limit' = Limit
  BY DEF Limit
<1>2. \A d : OnDay(d)' = OnDay(d) /\ Index(d)' = Index(d)
  BY DEF OnDay, Index
<1>3. Due' = Due
  BY <1>1 DEF Due, Occurs
<1>4. Resolved' = Resolved
  BY DEF Resolved
<1>5. \A d, n : IsFirst(d, n)' = IsFirst(d, n)
  BY <1>3 DEF IsFirst
<1>6. QED BY <1>1, <1>2, <1>3, <1>4, <1>5

\* Of ResolvedRule and Indexes, what BuildStep needs of its next state.
LEMMA ResolvedIndexes ==
    Resolved => /\ request.interval \in Nat
                /\ \A d \in Nat : d >= request.first => Index(d) \in Nat
BY ResolvedRule, Indexes

\* An accepted template has produced nothing yet; a refused one never will.
LEMMA BuildStep == DatesInv /\ Build => DatesInv'
<1> SUFFICES ASSUME DatesInv, Build PROVE DatesInv'
  OBVIOUS
<1>1. /\ request \in Requests /\ period = 0 /\ ahead = {} /\ examined = 0 /\ dates = <<>>
      /\ UNCHANGED <<request, period, ahead, examined, dates>>
  BY DEF DatesInv, StatusInv, Build
<1>2. YieldedInv' /\ Yielded' = {} /\ Len(dates') = 0
  <2>1. (dates = <<>> => YieldedInv /\ Yielded = {} /\ Len(dates) = 0)'
    BY NothingYielded, PTL
  <2>2. QED BY <1>1, <2>1
<1>3. CASE status' = "expanding"
  <2>1. Acceptable(request) /\ rule' = Built(request)
    BY <1>3 DEF Build
  <2>2. Resolved'
    BY <1>1, <2>1, RequestsAssumption DEF Resolved
  <2>3. StatusInv'
    BY <1>1, <1>3, <2>2 DEF StatusInv
  <2>4. ExpandingInv'
    <3>1. \A d : ~ Produced(d)'
      <4>1. (\A d : Produced(d) => d \in Nat /\ d >= request.first /\ Index(d) < period * request.interval)'
        BY DEF Produced
      <4>2. (Resolved => /\ request.interval \in Nat
                         /\ \A d \in Nat : d >= request.first => Index(d) \in Nat)'
        BY ResolvedIndexes, PTL
      <4>4. period' * request'.interval = 0
        BY <1>1, <2>2, <4>2
      <4>5. QED BY <2>2, <4>1, <4>2, <4>4
    <3>2. rule'.count # None => 0 < rule'.count
      <4>1. request \in Arguments
        BY <1>1, RequestsAssumption
      <4>2. rule'.count = request.count /\ request.count \in Int
        BY <2>1, <4>1, BuiltOnce DEF DefaultsOf, Arguments
      <4>3. request.count # None => request.count >= 1
        BY <2>1 DEF Acceptable, BoundsAreValid
      <4>4. QED BY <4>2, <4>3
    <3>3. QED BY <1>1, <1>2, <3>1, <3>2, CalendarAssumption DEF ExpandingInv
  <2>5. QED BY <1>2, <1>3, <2>3, <2>4 DEF DatesInv
<1>4. CASE status' = "refused"
  <2>1. StatusInv'
    BY <1>1, <1>4 DEF StatusInv
  <2>2. QED BY <1>2, <1>4, <2>1 DEF DatesInv
<1>5. status' \in {"expanding", "refused"}
  BY DEF Build
<1>6. QED BY <1>3, <1>4, <1>5

\* A period adds to what was produced the dates that come after all of it.
LEMMA PeriodStep == DatesInv /\ NextPeriod => DatesInv'
<1> SUFFICES ASSUME DatesInv, NextPeriod PROVE DatesInv'
  OBVIOUS
<1>1. /\ status = "expanding" /\ ahead = {} /\ ahead' = PeriodDates(period) /\ period' = period + 1
      /\ UNCHANGED <<request, rule, status, examined, dates>>
  BY DEF NextPeriod
<1>2. StatusInv /\ YieldedInv /\ ExpandingInv /\ Resolved /\ period \in Nat
  BY <1>1 DEF DatesInv, StatusInv
<1>3. \A d : d \in PeriodDates(period) <=> InPeriod(d, period)
  BY <1>2, Period
<1>4. StatusInv'
  <2>1. PeriodDates(period) \subseteq Nat
    BY <1>3 DEF InPeriod
  <2>2. Resolved'
    BY <1>1, <1>2 DEF Resolved
  <2>3. QED BY <1>1, <1>2, <2>1, <2>2 DEF StatusInv
<1>5. Yielded' = Yielded /\ Due' = Due
  BY <1>1, SameRule DEF Yielded
<1>6. YieldedInv'
  BY <1>1, <1>2, <1>5 DEF YieldedInv
<1> DEFINE n == request.interval
<1>7. n \in Nat /\ n > 0 /\ period * n \in Nat
  BY <1>2, ResolvedRule
<1>8. ASSUME NEW d PROVE d \in Yielded' \cup ahead' <=> Produced(d)'
  <2>1. Produced(d)' <=> /\ d \in Nat /\ d >= request.first
                         /\ OnDay(d) /\ Index(d) % n = 0 /\ Index(d) < (period + 1) * n
    BY <1>1, SameRule DEF Produced
  <2>2. d \in Yielded <=> /\ d \in Nat /\ d >= request.first
                          /\ OnDay(d) /\ Index(d) % n = 0 /\ Index(d) < period * n
    BY <1>1, <1>2 DEF ExpandingInv, Produced
  <2>3. d \in ahead' <=> d \in Nat /\ d >= request.first /\ OnDay(d) /\ Index(d) = period * n
    BY <1>1, <1>3 DEF InPeriod
  <2>4. (period * n) % n = 0
    BY <1>2, <1>7, Multiples
  <2> HIDE DEF n
  <2>5. ASSUME d \in Nat, d >= request.first, Index(d) % n = 0
        PROVE  Index(d) < (period + 1) * n <=> Index(d) < period * n \/ Index(d) = period * n
    <3>1. Index(d) \in Nat
      BY <1>2, <2>5, Indexes
    <3>2. QED BY <1>2, <1>7, <2>5, <3>1, NextMultiple
  <2>6. QED BY <1>5, <2>1, <2>2, <2>3, <2>4, <2>5
<1>9. ASSUME NEW d \in Yielded', NEW e \in ahead' PROVE d < e
  <2>1. d \in Nat /\ d >= request.first /\ Index(d) < period * n
    BY <1>1, <1>2, <1>5, <1>9 DEF ExpandingInv, Produced
  <2>2. e \in Nat /\ e >= request.first /\ Index(e) = period * n
    BY <1>1, <1>3, <1>9 DEF InPeriod
  <2>3. Index(d) \in Nat /\ Index(e) \in Nat
    BY <1>2, <2>1, <2>2, Indexes
  <2>4. d >= e => Index(d) >= Index(e)
    BY <1>2, <2>1, <2>2, Indexes
  <2> HIDE DEF n
  <2>5. QED BY <2>1, <2>2, <2>3, <2>4
<1>10. ExpandingInv'
  BY <1>1, <1>2, <1>8, <1>9 DEF ExpandingInv
<1>11. QED BY <1>1, <1>4, <1>6, <1>10 DEF DatesInv

\* The next date is past the limit, or one too many: the dates stay as they are.
LEMMA LastStep ==
    ASSUME DatesInv, Examine, status' \in {"expanded", "raised"}, dates' = dates
    PROVE  DatesInv'
<1> DEFINE current == Min(ahead)
<1>1. /\ status = "expanding" /\ ahead # {} /\ ahead' = ahead \ {current} /\ examined' = examined + 1
      /\ UNCHANGED <<request, rule, period>>
  BY DEF Examine
<1>2. StatusInv /\ YieldedInv /\ ExpandingInv /\ Resolved
  BY <1>1 DEF DatesInv, StatusInv
<1>3. \/ current > Limit /\ status' = "expanded"
      \/ current <= Limit /\ examined' > MaxCandidates /\ status' = "raised"
  <2>1. dates' # Append(dates, current)
    <3>1. dates \in Seq(Nat) /\ current \in Nat
      BY <1>1, <1>2, NextDate DEF StatusInv
    <3> HIDE DEF current
    <3>2. Len(Append(dates, current)) = Len(dates) + 1 /\ Len(dates) \in Nat
      BY <3>1
    <3>3. QED BY <3>2
  <2> HIDE DEF current
  <2>2. QED BY <2>1 DEF Examine, current
<1>4. Yielded' = Yielded /\ Due' = Due /\ \A d, n : IsFirst(d, n)' = IsFirst(d, n)
  BY <1>1, SameRule DEF Yielded
<1>5. StatusInv' /\ YieldedInv'
  <2>1. Resolved'
    BY <1>1, <1>2 DEF Resolved
  <2>2. StatusInv'
    <3>1. ahead' \in SUBSET Nat
      BY <1>1, <1>2 DEF StatusInv
    <3>2. request' \in Requests /\ period' \in Nat /\ examined' \in Nat /\ dates' \in Seq(Nat)
      BY <1>1, <1>2 DEF StatusInv
    <3>3. QED BY <2>1, <3>1, <3>2 DEF StatusInv
  <2>3. QED BY <1>2, <1>4, <2>2 DEF YieldedInv
<1>6. CASE status' = "expanded"
  <2>1. AreTheRule
    BY <1>1, <1>2, <1>3, <1>6, PastTheLimit
  <2>2. AreTheRule'
    BY <1>1, <1>4, <2>1 DEF AreTheRule
  <2>3. QED BY <1>5, <1>6, <2>2 DEF DatesInv
<1>7. CASE status' = "raised"
  <2>1. Cardinality(Due) > MaxCandidates
    BY <1>1, <1>2, <1>3, <1>7, TooManyCandidates
  <2>2. QED BY <1>4, <1>5, <1>7, <2>1 DEF DatesInv
<1>8. QED BY <1>6, <1>7

\* The next date is yielded.
LEMMA YieldStep ==
    ASSUME DatesInv, Examine, dates' # dates
    PROVE  DatesInv'
<1> DEFINE current == Min(ahead)
           S == Yielded \cup {current}
           n == Len(dates)
<1>1. /\ status = "expanding" /\ ahead # {} /\ ahead' = ahead \ {current} /\ examined' = examined + 1
      /\ current <= Limit /\ examined' <= MaxCandidates
      /\ dates' = Append(dates, current)
      /\ status' = IF rule.count # None /\ Len(dates') >= rule.count THEN "expanded" ELSE "expanding"
      /\ UNCHANGED <<request, rule, period>>
  BY DEF Examine, CountReached
<1>2. StatusInv /\ YieldedInv /\ ExpandingInv /\ Resolved
  BY <1>1 DEF DatesInv, StatusInv
<1>3. current \in ahead /\ current \in Nat /\ \A e \in ahead : current <= e
  BY <1>1, <1>2, NextDate DEF StatusInv
<1>4. /\ S \subseteq Due /\ current \notin Yielded
      /\ IsFiniteSet(S) /\ Cardinality(S) = n + 1
  BY <1>1, <1>2, OneMore
<1>5. rule.count # None /\ n + 1 >= rule.count
        => S = {date \in Due : rule.count # None => IsFirst(date, rule.count)}
  BY <1>1, <1>2, CountIsReached
<1>6. Due' = Due /\ Resolved' = Resolved /\ \A d, k : IsFirst(d, k)' = IsFirst(d, k)
  BY <1>1, SameRule
<1>7. dates \in Seq(Nat) /\ n \in Nat /\ examined \in Nat /\ ahead \in SUBSET Nat
  BY <1>2 DEF StatusInv
<1> HIDE DEF current, S
<1>8. /\ dates' \in Seq(Nat) /\ Len(dates') = n + 1 /\ DOMAIN dates' = 1 .. n + 1
      /\ DOMAIN dates = 1 .. n
      /\ dates'[n + 1] = current /\ \A i \in 1 .. n : dates'[i] = dates[i]
  BY <1>1, <1>3, <1>7
<1> HIDE DEF n
<1>9. Yielded' = S
  <2>1. \A d : d \in Yielded' <=> \E i \in 1 .. n + 1 : d = dates'[i]
    BY <1>8 DEF Yielded
  <2>2. \A d : d \in Yielded <=> \E i \in 1 .. n : d = dates[i]
    BY <1>8 DEF Yielded
  <2>3. \A i \in 1 .. n + 1 : i = n + 1 \/ i \in 1 .. n
    BY <1>7
  <2>4. n + 1 \in 1 .. n + 1 /\ \A i \in 1 .. n : i \in 1 .. n + 1
    BY <1>7
  <2>5. ASSUME NEW d PROVE d \in Yielded' <=> d \in Yielded \/ d = current
    BY <1>8, <2>1, <2>2, <2>3, <2>4
  <2>6. QED BY <2>5 DEF S
<1>10. StatusInv'
  <2>1. ahead' \in SUBSET Nat /\ examined' \in Nat
    <3>1. ahead' \subseteq ahead
      BY <1>1
    <3>2. examined' = examined + 1
      BY <1>1
    <3>3. QED BY <1>7, <3>1, <3>2
  <2>2. request' \in Requests /\ period' \in Nat
    BY <1>1, <1>2 DEF StatusInv
  <2>3. status' \in {"expanding", "expanded"}
    BY <1>1
  <2>4. QED BY <1>2, <1>6, <1>8, <2>1, <2>2, <2>3 DEF StatusInv
<1>11. YieldedInv'
  <2>1. ASSUME NEW i \in 1 .. n + 1, NEW j \in 1 .. n + 1, i < j PROVE dates'[i] < dates'[j]
    <3>1. i \in 1 .. n /\ dates'[i] = dates[i]
      BY <1>7, <1>8, <2>1
    <3>2. CASE j = n + 1
      <4>1. dates[i] \in Yielded
        BY <1>8, <3>1 DEF Yielded
      <4>2. QED BY <1>2, <1>3, <1>8, <3>1, <3>2, <4>1 DEF ExpandingInv
    <3>3. CASE j # n + 1
      <4>1. j \in 1 .. n /\ dates'[j] = dates[j]
        BY <1>7, <1>8, <3>3
      <4>2. QED BY <1>2, <1>8, <2>1, <3>1, <4>1 DEF YieldedInv
    <3>4. QED BY <3>2, <3>3
  <2>2. QED BY <1>4, <1>6, <1>8, <1>9, <2>1 DEF YieldedInv
<1>12. CASE rule.count # None /\ n + 1 >= rule.count
  <2>1. status' = "expanded"
    BY <1>1, <1>8, <1>12
  <2>2. AreTheRule'
    BY <1>1, <1>5, <1>6, <1>9, <1>12 DEF AreTheRule
  <2>3. QED BY <1>10, <1>11, <2>1, <2>2 DEF DatesInv
<1>13. CASE ~ (rule.count # None /\ n + 1 >= rule.count)
  <2>1. status' = "expanding"
    BY <1>1, <1>8, <1>13
  <2>2. ASSUME NEW d PROVE d \in Yielded' \cup ahead' <=> Produced(d)'
    <3>1. Produced(d)' <=> Produced(d)
      BY <1>1, SameRule DEF Produced
    <3>2. d \in Yielded' \cup ahead' <=> d \in Yielded \cup ahead
      BY <1>1, <1>3, <1>9 DEF S
    <3>3. QED BY <1>2, <3>1, <3>2 DEF ExpandingInv
  <2>3. ASSUME NEW d \in Yielded', NEW e \in ahead' PROVE d < e
    <3>1. e \in ahead /\ e # current
      BY <1>1, <2>3
    <3>2. d \in Yielded \/ d = current
      BY <1>9, <2>3 DEF S
    <3>3. d = current => d < e
      BY <1>3, <1>7, <3>1
    <3>4. QED BY <1>2, <3>1, <3>2, <3>3 DEF ExpandingInv
  <2>4. examined' = Len(dates') /\ examined' <= MaxCandidates
    BY <1>1, <1>2, <1>8 DEF ExpandingInv, n
  <2>5. rule'.count # None => Len(dates') < rule'.count
    <3>1. rule.count \in Int
      BY <1>2, BuiltOnce DEF Resolved, Arguments
    <3>2. QED BY <1>1, <1>7, <1>8, <1>13, <3>1
  <2>6. ExpandingInv'
    BY <2>2, <2>3, <2>4, <2>5 DEF ExpandingInv
  <2>7. QED BY <1>10, <1>11, <2>1, <2>6 DEF DatesInv
<1>14. QED BY <1>12, <1>13

\* Every step keeps the invariant.
LEMMA DatesStep == DatesInv /\ [RulesNext]_rulesVars => DatesInv'
<1> SUFFICES ASSUME DatesInv, [RulesNext]_rulesVars PROVE DatesInv'
  OBVIOUS
<1>1. CASE Build
  BY <1>1, BuildStep
<1>2. CASE NextPeriod
  BY <1>2, PeriodStep
<1>3. CASE Examine
  <2>1. dates' = dates => status' \in {"expanded", "raised"}
    <3>1. status = "expanding" /\ ahead # {}
      BY <1>3 DEF Examine
    <3>2. dates \in Seq(Nat) /\ Min(ahead) \in Nat
      BY <3>1, NextDate DEF DatesInv, StatusInv
    <3>3. dates # Append(dates, Min(ahead))
      <4>1. Len(Append(dates, Min(ahead))) = Len(dates) + 1 /\ Len(dates) \in Nat
        BY <3>2
      <4>2. QED BY <4>1
    <3>4. QED BY <1>3, <3>3 DEF Examine
  <2>2. QED BY <1>3, <2>1, LastStep, YieldStep
<1>4. CASE UNCHANGED rulesVars
  <2>1. UNCHANGED <<request, rule, status, period, ahead, examined, dates>>
    BY <1>4 DEF rulesVars
  <2>2. Due' = Due /\ Resolved' = Resolved /\ Yielded' = Yielded
    BY <2>1, SameRule DEF Yielded
  <2>3. StatusInv'
    BY <2>1, <2>2 DEF DatesInv, StatusInv
  <2>4. YieldedInv'
    BY <2>1, <2>2 DEF DatesInv, YieldedInv
  <2>5. ExpandingInv => ExpandingInv'
    <3>1. \A d : Produced(d)' <=> Produced(d)
      BY <2>1, SameRule DEF Produced
    <3>2. QED BY <2>1, <2>2, <3>1 DEF ExpandingInv
  <2>6. AreTheRule => AreTheRule'
    <3>1. \A d, n : IsFirst(d, n)' = IsFirst(d, n)
      BY <2>1, SameRule
    <3>2. QED BY <2>1, <2>2, <3>1 DEF AreTheRule
  <2>7. QED BY <2>1, <2>2, <2>3, <2>4, <2>5, <2>6 DEF DatesInv
<1>5. QED BY <1>1, <1>2, <1>3, <1>4 DEF RulesNext

\* So it holds throughout.
LEMMA DatesInvariant == RulesSpec => []DatesInv
BY DatesInit, DatesStep, PTL DEF RulesSpec

\* For any arguments and any limits: the dates are ascending; when the
\* expansion ends they are those of the rule up to the limit, or the first
\* `count` of them; it raises only when the rule has more dates than
\* MAX_CANDIDATES; and the template that is logged is built again unchanged.
THEOREM DatesAreTheRuleCorrect == RulesSpec => []DatesAreTheRule
<1>1. DatesInv => DatesAreTheRule
  <2> SUFFICES ASSUME DatesInv PROVE DatesAreTheRule
    OBVIOUS
  <2>1. \A i \in 1 .. Len(dates) - 1 : dates[i] < dates[i + 1]
    <3>1. dates \in Seq(Nat) /\ DOMAIN dates = 1 .. Len(dates) /\ Len(dates) \in Nat
      BY DEF DatesInv, StatusInv
    <3>2. \A i \in 1 .. Len(dates) - 1 : i \in DOMAIN dates /\ i + 1 \in DOMAIN dates /\ i < i + 1
      BY <3>1
    <3>3. QED BY <3>2 DEF DatesInv, YieldedInv
  <2>2. status = "expanded" =>
          {dates[i] : i \in DOMAIN dates} =
              {date \in Due : rule.count # None => IsFirst(date, rule.count)}
    BY DEF DatesInv, AreTheRule, Yielded
  <2>3. status = "raised" => Cardinality(Due) > MaxCandidates
    BY DEF DatesInv
  <2>4. status \in {"expanding", "expanded", "raised"} => Acceptable(rule) /\ Built(rule) = rule
    BY BuiltOnce DEF DatesInv, StatusInv, Resolved
  <2>5. QED BY <2>1, <2>2, <2>3, <2>4 DEF DatesAreTheRule
<1>2. QED BY <1>1, DatesInvariant, PTL

-----------------------------------------------------------------------------
(* The windows                                                              *)

\* The instants at which the zone's clock shows the reading.
Shows(reading) ==
    {u \in reading - 2 * DayLength .. reading + 2 * DayLength : u + OffsetAt(u) = reading}

ReadsTheClock(reading) ==
    LET start == reading - OffsetOfReading(reading)
    IN  /\ Shows(reading) # {} =>
              start = Min(Shows(reading)) /\ start + OffsetAt(start) = reading
        /\ Shows(reading) = {} =>
              /\ start = reading - rule.zone.before
              /\ start + OffsetAt(start) = reading + rule.zone.after - rule.zone.before

\* The zone of a template that was accepted is a known one.
LEMMA ZoneType ==
    ASSUME Resolved
    PROVE  /\ DayLength \in Nat /\ rule.startTime \in Nat
           /\ rule.zone.at \in Int /\ rule.zone.before \in Int /\ rule.zone.after \in Int
           /\ rule.zone.before \in 1 - DayLength .. DayLength - 1
           /\ rule.zone.after \in 1 - DayLength .. DayLength - 1
<1>1. rule \in Arguments /\ rule.zone \in Zones
  BY BuiltOnce DEF Resolved, Acceptable
<1>2. rule.zone \in [at : Int, before : Int, after : Int] /\ rule.startTime \in 0 .. DayLength - 1
  BY <1>1 DEF Arguments
<1>3. QED BY <1>1, <1>2, ZonesAssumption

\* A reading is taken with the offset before the transition, until the clock
\* can only show it after it.
LEMMA OffsetIs ==
    ASSUME Resolved, NEW reading \in Int
    PROVE  LET b == rule.zone.before
               a == rule.zone.after
           IN  OffsetOfReading(reading)
                   = IF reading < rule.zone.at + (IF b >= a THEN b ELSE a) THEN b ELSE a
<1> DEFINE b == rule.zone.before
           a == rule.zone.after
           m == IF b >= a THEN b ELSE a
<1>1. a \in Int /\ b \in Int
  BY ZoneType
<1>2. Max({b, a}) = m
  <2>1. m \in {b, a} /\ \A y \in {b, a} : m >= y
    BY <1>1
  <2>2. Max({b, a}) \in {b, a} /\ \A y \in {b, a} : Max({b, a}) >= y
    BY <2>1 DEF Max
  <2>3. QED BY <1>1, <2>1, <2>2
<1>3. QED BY <1>2 DEF OffsetOfReading

\* A reading is the first one that the clock shows, or it lies in a gap that
\* the clock skips.
LEMMA ReadingResolved ==
    ASSUME Resolved, NEW reading \in Int
    PROVE  ReadsTheClock(reading)
<1> DEFINE at == rule.zone.at
           b == rule.zone.before
           a == rule.zone.after
           start == reading - OffsetOfReading(reading)
<1>1. /\ DayLength \in Nat /\ at \in Int /\ b \in Int /\ a \in Int
      /\ b \in 1 - DayLength .. DayLength - 1 /\ a \in 1 - DayLength .. DayLength - 1
  BY ZoneType
<1>3. OffsetOfReading(reading) = IF reading < at + (IF b >= a THEN b ELSE a) THEN b ELSE a
  BY OffsetIs
<1>4. \A u : OffsetAt(u) = IF u < at THEN b ELSE a
  BY DEF OffsetAt
<1>5. start = reading - (IF reading < at + (IF b >= a THEN b ELSE a) THEN b ELSE a)
  BY <1>3
<1> HIDE DEF at, b, a, start
<1>6. start \in Int
  BY <1>1, <1>5
<1>7. ASSUME NEW u \in Int
      PROVE  u \in Shows(reading) <=> \/ u < at /\ u + b = reading
                                      \/ u >= at /\ u + a = reading
  <2>1. u \in Shows(reading)
          <=> /\ reading - 2 * DayLength <= u /\ u <= reading + 2 * DayLength
              /\ u + OffsetAt(u) = reading
    BY <1>1 DEF Shows
  <2>2. CASE u < at
    <3>1. OffsetAt(u) = b
      BY <1>4, <2>2
    <3>2. QED BY <1>1, <2>1, <2>2, <3>1
  <2>3. CASE ~ (u < at)
    <3>1. OffsetAt(u) = a
      BY <1>4, <2>3
    <3>2. QED BY <1>1, <2>1, <2>3, <3>1
  <2>4. QED BY <2>2, <2>3
<1>8. Shows(reading) \subseteq Int
  BY DEF Shows
<1>9. CASE reading < at + b \/ reading >= at + a
  <2>1. start \in Shows(reading)
    BY <1>1, <1>5, <1>6, <1>7, <1>9
  <2>2. ASSUME NEW u \in Shows(reading) PROVE start <= u
    BY <1>1, <1>5, <1>6, <1>7, <1>8, <1>9
  <2>3. start = Min(Shows(reading))
    BY <1>8, <2>1, <2>2, MinIs
  <2>4. start + OffsetAt(start) = reading
    BY <2>1 DEF Shows
  <2>5. QED BY <2>1, <2>3, <2>4 DEF ReadsTheClock, start
<1>10. CASE ~ (reading < at + b \/ reading >= at + a)
  <2>1. Shows(reading) = {}
    BY <1>1, <1>7, <1>8, <1>10
  <2>2. start = reading - b /\ ~ (start < at)
    BY <1>1, <1>5, <1>6, <1>10
  <2>3. start + OffsetAt(start) = reading + a - b
    BY <1>1, <1>4, <1>6, <2>2
  <2>4. QED BY <2>1, <2>2, <2>3 DEF ReadsTheClock, start, a, b
<1>11. QED BY <1>9, <1>10

\* For any zone and any start time: an occurrence starts when the zone's clock
\* first shows the start time, or, when the clock skips it, at that reading of
\* the clock before the transition; and it lasts for its duration.
THEOREM WindowReadsTheClockCorrect == RulesSpec => []WindowReadsTheClock
<1>1. DatesInv => WindowReadsTheClock
  <2> SUFFICES ASSUME DatesInv, NEW i \in DOMAIN dates
               PROVE  LET window == Window(dates[i])
                          reading == Reading(dates[i])
                          shows == {u \in reading - 2 * DayLength .. reading + 2 * DayLength :
                                      u + OffsetAt(u) = reading}
                      IN  /\ shows # {} => window.start = Min(shows) /\ window.shown = reading
                          /\ shows = {} =>
                                /\ window.start = reading - rule.zone.before
                                /\ window.shown = reading + rule.zone.after - rule.zone.before
                          /\ rule.duration # None => window.end = window.start + rule.duration
    BY DEF WindowReadsTheClock
  <2> DEFINE reading == Reading(dates[i])
             start == reading - OffsetOfReading(reading)
             window == Window(dates[i])
  <2>1. Resolved /\ dates[i] \in Nat
    <3>1. dates \in Seq(Nat) /\ dates # <<>>
      BY DEF DatesInv, StatusInv
    <3>2. QED BY <3>1 DEF DatesInv, StatusInv
  <2>2. reading \in Int
    <3>1. rule \in Arguments
      BY <2>1, BuiltOnce DEF Resolved
    <3>2. QED BY <2>1, <3>1, ZonesAssumption DEF Reading, Arguments
  <2>3. /\ window.start = start /\ window.shown = start + OffsetAt(start)
        /\ rule.duration # None => window.end = window.start + rule.duration
    BY DEF Window
  <2> HIDE DEF window, reading
  <2>4. ReadsTheClock(reading)
    BY <2>1, <2>2, ReadingResolved
  <2>5. /\ Shows(reading) # {} => window.start = Min(Shows(reading)) /\ window.shown = reading
        /\ Shows(reading) = {} =>
              /\ window.start = reading - rule.zone.before
              /\ window.shown = reading + rule.zone.after - rule.zone.before
    BY <2>3, <2>4 DEF ReadsTheClock
  <2>6. QED BY <2>3, <2>5 DEF Shows, window, reading
<1>2. QED BY <1>1, DatesInvariant, PTL

\* The start of a later date is not earlier, and at the start the zone's clock
\* shows the date, or is past it: what Occurrences assumes of a template
\* (StartsAssumption), for a zone whose clock moves by at most a day.  The starts
\* of two dates are the same when the clock skips the day of the first.
THEOREM StartsAreInOrder ==
    ASSUME Resolved, NEW d \in Nat, NEW e \in Nat, d < e,
           rule.zone.after - rule.zone.before \in -DayLength .. DayLength
    PROVE  /\ Window(d).start <= Window(e).start
           /\ Window(d).shown >= d * DayLength
<1> DEFINE at == rule.zone.at
           b == rule.zone.before
           a == rule.zone.after
           x == Reading(d)
           y == Reading(e)
           m == IF b >= a THEN b ELSE a
<1>1. /\ DayLength \in Nat /\ at \in Int /\ b \in Int /\ a \in Int
      /\ rule.startTime \in Nat
  BY ZoneType
<1>2. /\ d * DayLength \in Nat /\ e * DayLength \in Nat
      /\ d * DayLength + DayLength <= e * DayLength
  <2>1. (d + 1) * DayLength <= e * DayLength /\ (d + 1) * DayLength = d * DayLength + DayLength
    BY <1>1
  <2>2. QED BY <1>1, <2>1
<1>3. x \in Int /\ y \in Int /\ x >= d * DayLength /\ x + DayLength <= y
  BY <1>1, <1>2 DEF Reading
<1>4. /\ OffsetOfReading(x) = IF x < at + m THEN b ELSE a
      /\ OffsetOfReading(y) = IF y < at + m THEN b ELSE a
  <2> HIDE DEF x, y
  <2>1. QED BY <1>3, OffsetIs
<1>5. /\ Window(d).start = x - (IF x < at + m THEN b ELSE a)
      /\ Window(e).start = y - (IF y < at + m THEN b ELSE a)
      /\ Window(d).shown = Window(d).start
                              + (IF Window(d).start < at THEN b ELSE a)
  BY <1>4 DEF Window, OffsetAt
<1>6. a - b <= DayLength /\ b - a <= DayLength
  BY <1>1
<1>7. m \in Int /\ m >= a /\ m >= b /\ (m = a \/ m = b)
  BY <1>1
<1>8. d * DayLength \in Int
  BY <1>2
<1> DEFINE s == Window(d).start
           late == Window(e).start
           day == d * DayLength
<1> HIDE DEF at, b, a, x, y, m, s, late, day
<1>9. s = x - (IF x < at + m THEN b ELSE a) /\ late = y - (IF y < at + m THEN b ELSE a)
  BY <1>5 DEF s, late
<1>10. s <= late
  BY <1>1, <1>3, <1>6, <1>7, <1>9
<1>11. s + (IF s < at THEN b ELSE a) >= x
  BY <1>1, <1>3, <1>7, <1>9
<1>12. s + (IF s < at THEN b ELSE a) >= day
  BY <1>1, <1>3, <1>8, <1>9, <1>11 DEF day
<1>13. QED BY <1>5, <1>10, <1>12 DEF s, late, day

-----------------------------------------------------------------------------
(* The last of a bounded set of dates                                       *)

\* A non-empty set of dates has a last one: last_skipped exists.
LEMMA LastExists ==
    ASSUME NEW S \in SUBSET Dates, S # {}
    PROVE  \E d \in S : \A e \in S : e <= d
BY TemplateAssumption, GreatestExists DEF Dates

-----------------------------------------------------------------------------
(* What one template's generation does                                      *)

\* The gap only moves forward, to the last skipped date.
LEMMA GapMoves ==
    ASSUME TypeOK, NEW t \in Template, NEW now \in Int
    PROVE  /\ GapAfter(t, now) \in Dates \cup {NoDate}
           /\ view.gapThrough[t] <= GapAfter(t, now)
           /\ \A d \in Skipped(t, now) : d <= GapAfter(t, now)
           /\ GapAfter(t, now) # view.gapThrough[t] => GapAfter(t, now) \in Skipped(t, now)
<1> DEFINE gap == view.gapThrough[t]
<1>1. /\ Skipped(t, now) \subseteq Dates
      /\ \A d \in Skipped(t, now) : d > gap
      /\ gap \in Dates \cup {NoDate}
  BY TemplateAssumption DEF TypeOK, Views, Skipped, Considered, Expanded
<1>2. CASE Skipped(t, now) = {}
  BY <1>1, <1>2, TemplateAssumption DEF GapAfter, Dates, NoDate
<1>3. CASE Skipped(t, now) # {}
  <2> DEFINE last == CHOOSE d \in Skipped(t, now) : \A e \in Skipped(t, now) : e <= d
  <2>1. \E d \in Skipped(t, now) : \A e \in Skipped(t, now) : e <= d
    BY <1>1, <1>3, LastExists
  <2>2. last \in Skipped(t, now) /\ \A e \in Skipped(t, now) : e <= last
    BY <2>1
  <2>3. GapAfter(t, now) = last
    BY <1>3 DEF GapAfter
  <2> HIDE DEF last, gap
  <2>4. gap <= last
    BY <1>1, <2>2, TemplateAssumption DEF Dates, NoDate
  <2>5. QED BY <1>1, <2>2, <2>3, <2>4 DEF gap
<1>4. QED BY <1>2, <1>3

-----------------------------------------------------------------------------
(* The index, the tasks and the view                                        *)

\* The index and the tasks that were made agree.
MadeIsMaterialized ==
    \A o \in Occurrence : made[o] = IF o \in materialized THEN 1 ELSE 0

Applied == {t \in Template : decision[t] = "applied"}

\* No transaction is open, and the view has what was committed.
ViewIsTheLog ==
    /\ creating = NoCreation
    /\ view.templates = templates /\ view.seen = Applied /\ view.tasks = materialized

\* The open transaction has put its template and its key into the view, and at
\* its second stage the tasks of the others, which its commit will record.
ViewIsAhead ==
    /\ creating \in Creations
    /\ decision[creating.template] # "applied"
    /\ view.templates = [templates EXCEPT ![creating.template] = "live"]
    /\ view.seen = Applied \cup {creating.template}
    /\ view.tasks = materialized \cup
         IF creating.stage = "decided" THEN {}
         ELSE NewOccurrences(Generated(LiveTemplates \ {creating.template}, creating.now),
                             creating.now)

\* The indexes change when the log does.
ViewInv ==
    /\ view.materialized = materialized /\ view.gapThrough = gapThrough
    /\ ViewIsTheLog \/ ViewIsAhead

OnceInv == TypeOK /\ MadeIsMaterialized /\ ViewInv

\* An open transaction is told from none by its stage.
LEMMA OpenIsNotNone == NoCreation \notin Creations /\ NoCreation.stage = "none"
<1>1. NoCreation.stage = "none"
  BY DEF NoCreation
<1>2. \A c \in Creations : c.stage # "none"
  BY DEF Creations
<1>3. QED BY <1>1, <1>2

\* What is new is not in the index.
LEMMA NewIsNew ==
    ASSUME NEW ts \in SUBSET Template, NEW now \in Int
    PROVE  /\ NewOccurrences(ts, now) \subseteq Occurrence
           /\ NewOccurrences(ts, now) \cap view.materialized = {}
<1>1. ASSUME NEW o \in NewOccurrences(ts, now)
      PROVE  o \in Occurrence /\ o \notin view.materialized
  <2>1. PICK t \in ts : o \in {t} \X (Considered(t, now) \ Skipped(t, now))
    BY DEF NewOccurrences
  <2>2. PICK d \in Considered(t, now) : o = <<t, d>>
    BY <2>1
  <2>3. d \in DatesOf[t] /\ <<t, d>> \notin view.materialized
    BY <2>2 DEF Considered, Expanded
  <2>4. d \in Dates
    BY <2>3, TemplateAssumption
  <2>5. QED BY <2>2, <2>3, <2>4 DEF Occurrence
<1>2. QED BY <1>1

\* What the generation of some templates makes, that of more of them makes too.
LEMMA NewOfMore ==
    ASSUME NEW ts \in SUBSET Template, NEW us \in SUBSET ts, NEW now
    PROVE  /\ NewOccurrences(Generated(us, now), now)
                \subseteq NewOccurrences(Generated(ts, now), now)
           /\ Generated(ts, now) \in SUBSET Template
<1>1. Generated(us, now) \subseteq Generated(ts, now) /\ Generated(ts, now) \in SUBSET Template
  BY DEF Generated
<1>2. QED BY <1>1 DEF NewOccurrences

\* A generation of any templates at any time keeps the types and the indexes
\* right, in the log and in the view.
LEMMA MaterializeOnce ==
    ASSUME OnceInv, NEW ts \in SUBSET Template, NEW now \in Int, Materialize(ts, now)
    PROVE  /\ materialized' = materialized \cup NewOccurrences(ts, now)
           /\ materialized' \subseteq Occurrence
           /\ made' \in [Occurrence -> Nat]
           /\ gapThrough' \in [Template -> Dates \cup {NoDate}]
           /\ now \in 0 .. MaxInstant => asOf' \in [Template -> 0 .. MaxInstant]
           /\ MadeIsMaterialized'
           /\ view' \in Views
           /\ view'.templates = view.templates /\ view'.seen = view.seen
           /\ view'.tasks = view.tasks \cup NewOccurrences(ts, now)
           /\ view'.materialized = materialized' /\ view'.gapThrough = gapThrough'
<1> DEFINE new == NewOccurrences(ts, now)
<1>1. new \subseteq Occurrence /\ \A o \in new : o \notin materialized
  BY NewIsNew DEF OnceInv, ViewInv
<1>2. /\ materialized' = materialized \cup new
      /\ made' = [o \in Occurrence |-> IF o \in new THEN made[o] + 1 ELSE made[o]]
      /\ gapThrough' = [t \in Template |-> IF t \in ts THEN GapAfter(t, now) ELSE gapThrough[t]]
      /\ asOf' = [t \in Template |-> IF t \in ts THEN Later(asOf[t], now) ELSE asOf[t]]
      /\ view' = [view EXCEPT !.tasks = @ \cup new, !.materialized = @ \cup new,
                              !.gapThrough = gapThrough']
  BY DEF Materialize
<1> HIDE DEF new
<1>3. gapThrough' \in [Template -> Dates \cup {NoDate}]
  <2>1. \A t \in Template : GapAfter(t, now) \in Dates \cup {NoDate}
    BY GapMoves DEF OnceInv
  <2>2. QED BY <1>2, <2>1 DEF OnceInv, TypeOK
<1>4. now \in 0 .. MaxInstant => asOf' \in [Template -> 0 .. MaxInstant]
  <2>1. ASSUME now \in 0 .. MaxInstant, NEW t \in Template
        PROVE  Later(asOf[t], now) \in 0 .. MaxInstant /\ asOf[t] \in 0 .. MaxInstant
    BY <2>1 DEF OnceInv, TypeOK, Later
  <2>2. QED BY <1>2, <2>1
<1>5. /\ view \in Views /\ view.materialized = materialized
      /\ materialized \subseteq Occurrence
  BY DEF OnceInv, TypeOK, ViewInv
<1>6. /\ view' \in Views
      /\ view'.templates = view.templates /\ view'.seen = view.seen
      /\ view'.tasks = view.tasks \cup new
      /\ view'.materialized = materialized' /\ view'.gapThrough = gapThrough'
  BY <1>1, <1>2, <1>3, <1>5 DEF Views
<1>7. /\ materialized' \subseteq Occurrence
      /\ made' \in [Occurrence -> Nat]
      /\ MadeIsMaterialized'
  BY <1>1, <1>2 DEF OnceInv, TypeOK, MadeIsMaterialized
<1>8. QED BY <1>2, <1>3, <1>4, <1>6, <1>7 DEF new

\* Nothing was made yet.
LEMMA OnceInit == Init => OnceInv
<1> SUFFICES ASSUME Init PROVE OnceInv
  OBVIOUS
<1>1. /\ made = [o \in Occurrence |-> 0] /\ materialized = {}
      /\ decision = [t \in Template |-> "none"]
      /\ templates = [t \in Template |-> "absent"]
      /\ gapThrough = [t \in Template |-> NoDate]
      /\ creating = NoCreation
      /\ view.templates = templates /\ view.seen = Applied /\ view.materialized = {}
      /\ view.gapThrough = gapThrough
      /\ view.tasks = {o \in Occurrence : made[o] > 0}
  BY DEF Init, Replayed, Applied
<1>2. view.tasks = {} /\ Applied = {}
  BY <1>1 DEF Applied
<1>3. view \in Views
  BY <1>1, <1>2 DEF Init, Replayed, Views
<1>4. TypeOK /\ MadeIsMaterialized
  BY <1>1, <1>3, WindowAssumption, TemplateAssumption
  DEF Init, TypeOK, MadeIsMaterialized, Occurrence, Dates, NoDate
<1>5. QED BY <1>1, <1>2, <1>4 DEF OnceInv, ViewInv, ViewIsTheLog

\* The view is read anew: it has what was committed.
LEMMA ReplayedIsTheLog ==
    ASSUME OnceInv
    PROVE  /\ Replayed \in Views
           /\ Replayed.templates = templates /\ Replayed.seen = Applied
           /\ Replayed.tasks = materialized
           /\ Replayed.materialized = materialized /\ Replayed.gapThrough = gapThrough
<1>1. {o \in Occurrence : made[o] > 0} = materialized
  BY DEF OnceInv, TypeOK, MadeIsMaterialized
<1>2. QED BY <1>1 DEF Replayed, Applied, Views, OnceInv, TypeOK

\* After a failure or a crash inside a creation, the view is the log again.
LEMMA RolledBack ==
    ASSUME OnceInv, RollBack, creating # NoCreation, view' = Replayed
    PROVE  OnceInv'
<1>1. creating \in Creations /\ ViewIsAhead
  BY DEF OnceInv, TypeOK, ViewInv, ViewIsTheLog
<1>2. /\ creating.template \in Template
      /\ decision' = [decision EXCEPT ![creating.template] = "lost"]
      /\ decision[creating.template] # "applied"
      /\ creating' = NoCreation
      /\ UNCHANGED <<clock, stepsBack, templates, materialized, gapThrough, finished, made, asOf>>
  BY <1>1 DEF RollBack, Creations, ViewIsAhead
<1>3. Applied' = Applied /\ decision' \in [Template -> {"none", "applied", "rejected", "lost"}]
  BY <1>2 DEF Applied, OnceInv, TypeOK
<1>4. ViewInv' /\ view' \in Views
  BY <1>2, <1>3, ReplayedIsTheLog DEF ViewInv, ViewIsTheLog
<1>5. QED BY <1>2, <1>3, <1>4 DEF OnceInv, TypeOK, MadeIsMaterialized

\* A creation puts its template and its key into the view, and nothing else.
LEMMA OnceCreate ==
    ASSUME OnceInv, NEW t \in Template, NEW now \in 0 .. clock, Create(t, now)
    PROVE  OnceInv'
<1>1. /\ creating = NoCreation /\ t \notin view.seen
      /\ creating' = [stage |-> "decided", template |-> t, now |-> now]
      /\ view' = [view EXCEPT !.templates[t] = "live", !.seen = @ \cup {t}]
      /\ UNCHANGED <<clock, stepsBack, templates, decision, materialized, gapThrough, finished,
                     made, asOf>>
  BY DEF Create
<1>2. ViewIsTheLog
  BY <1>1, OpenIsNotNone DEF OnceInv, ViewInv, ViewIsAhead
<1>3. now \in 0 .. MaxInstant
  BY WindowAssumption DEF OnceInv, TypeOK
<1>4. creating' \in Creations /\ creating'.template = t /\ creating'.stage = "decided"
  BY <1>1, <1>3 DEF Creations
<1>5. /\ view' \in Views
      /\ view'.templates = [view.templates EXCEPT ![t] = "live"]
      /\ view'.seen = view.seen \cup {t} /\ view'.tasks = view.tasks
      /\ view'.materialized = view.materialized /\ view'.gapThrough = view.gapThrough
  BY <1>1 DEF OnceInv, TypeOK, Views
<1>6. decision[t] # "applied"
  BY <1>1, <1>2 DEF ViewIsTheLog, Applied
<1>7. Applied' = Applied
  BY <1>1 DEF Applied
<1>8. ViewInv'
  BY <1>1, <1>2, <1>4, <1>5, <1>6, <1>7 DEF OnceInv, ViewInv, ViewIsTheLog, ViewIsAhead
<1>9. QED BY <1>1, <1>4, <1>5, <1>8 DEF OnceInv, TypeOK, MadeIsMaterialized

\* The tasks of the other templates come into the view before anything is appended.
LEMMA OnceGenerates == OnceInv /\ CreateGenerates => OnceInv'
<1> SUFFICES ASSUME OnceInv, CreateGenerates PROVE OnceInv'
  OBVIOUS
<1> DEFINE t == creating.template
           now == creating.now
           new == NewOccurrences(Generated(LiveTemplates \ {t}, now), now)
<1>1. /\ creating.stage = "decided"
      /\ creating' = [creating EXCEPT !.stage = "others"]
      /\ view' = [view EXCEPT !.tasks = @ \cup new]
      /\ UNCHANGED <<clock, stepsBack, templates, decision, materialized, gapThrough, finished,
                     made, asOf>>
  BY DEF CreateGenerates
<1>2. creating \in Creations /\ ViewIsAhead
  BY <1>1, OpenIsNotNone DEF OnceInv, ViewInv, ViewIsTheLog, ViewIsAhead
<1>3. /\ creating' \in Creations /\ creating'.stage = "others"
      /\ creating'.template = t /\ creating'.now = now
      /\ t \in Template /\ now \in 0 .. MaxInstant
  BY <1>1, <1>2 DEF Creations
<1>4. new \subseteq Occurrence
  <2>1. Generated(LiveTemplates \ {t}, now) \in SUBSET Template /\ now \in Int
    BY <1>3, WindowAssumption DEF Generated, LiveTemplates
  <2>2. QED BY <2>1, NewIsNew
<1> HIDE DEF new
<1>5. /\ view' \in Views
      /\ view'.templates = view.templates /\ view'.seen = view.seen
      /\ view'.tasks = view.tasks \cup new
      /\ view'.materialized = view.materialized /\ view'.gapThrough = view.gapThrough
  BY <1>1, <1>4 DEF OnceInv, TypeOK, Views
<1>6. NewOccurrences(Generated(LiveTemplates \ {t}, now), now)' = new
  BY <1>3, <1>5
  DEF new, NewOccurrences, Generated, LiveTemplates, Considered, Skipped, Expanded, Breaks
<1>7. Applied' = Applied
  BY <1>1 DEF Applied
<1>8. ViewInv'
  BY <1>1, <1>2, <1>3, <1>5, <1>6, <1>7 DEF OnceInv, ViewInv, ViewIsAhead
<1>9. QED BY <1>1, <1>3, <1>5, <1>8 DEF OnceInv, TypeOK, MadeIsMaterialized

\* What the commit of a creation adds to the log.
LEMMA CommitAdds ==
    ASSUME OnceInv, CreateCommits
    PROVE  LET n   == creating.template
               now == creating.now
               ts  == Generated(LiveTemplates, now) IN
           /\ n \in Template /\ now \in 0 .. MaxInstant /\ n \in ts
           /\ ts \in SUBSET Template /\ ts \subseteq Established \cup {n}
           /\ Materialize(ts, now)
           /\ decision[n] # "applied"
           /\ decision' = [decision EXCEPT ![n] = "applied"]
           /\ templates' = [templates EXCEPT ![n] = "live"]
           /\ ViewIsAhead /\ creating.stage = "others" /\ creating' = NoCreation
           /\ UNCHANGED <<clock, stepsBack, finished>>
<1> DEFINE n == creating.template
           now == creating.now
           ts == Generated(LiveTemplates, now)
<1>1. /\ creating.stage = "others" /\ ~Breaks(n, now)
      /\ Materialize(ts, now)
      /\ decision' = [decision EXCEPT ![n] = "applied"]
      /\ templates' = [templates EXCEPT ![n] = "live"]
      /\ creating' = NoCreation
      /\ UNCHANGED <<clock, stepsBack, finished>>
  BY DEF CreateCommits
<1>2. creating \in Creations /\ ViewIsAhead
  BY <1>1, OpenIsNotNone DEF OnceInv, ViewInv, ViewIsTheLog, ViewIsAhead
<1>3. n \in Template /\ now \in 0 .. MaxInstant
  BY <1>2 DEF Creations
<1>4. LiveTemplates = Established \cup {n}
  BY <1>2, <1>3 DEF ViewIsAhead, LiveTemplates, Established, OnceInv, TypeOK
<1>5. ts \in SUBSET Template /\ ts \subseteq Established \cup {n} /\ n \in ts
  BY <1>1, <1>3, <1>4 DEF Generated, Established
<1>6. decision[n] # "applied"
  BY <1>2 DEF ViewIsAhead
<1>7. QED BY <1>1, <1>2, <1>3, <1>5, <1>6

\* When a creation commits, the log has all that the view had already.
LEMMA OnceCommits == OnceInv /\ CreateCommits => OnceInv'
<1> SUFFICES ASSUME OnceInv, CreateCommits PROVE OnceInv'
  OBVIOUS
<1> DEFINE n == creating.template
           now == creating.now
           ts == Generated(LiveTemplates, now)
           new == NewOccurrences(ts, now)
           others == NewOccurrences(Generated(LiveTemplates \ {n}, now), now)
<1>1. /\ n \in Template /\ now \in 0 .. MaxInstant
      /\ ts \in SUBSET Template /\ Materialize(ts, now)
      /\ decision[n] # "applied"
      /\ decision' = [decision EXCEPT ![n] = "applied"]
      /\ templates' = [templates EXCEPT ![n] = "live"]
      /\ ViewIsAhead /\ creating.stage = "others" /\ creating' = NoCreation
      /\ UNCHANGED <<clock, stepsBack, finished>>
  BY CommitAdds
<1>2. others \subseteq new
  BY NewOfMore DEF LiveTemplates
<1>3. /\ materialized' = materialized \cup new
      /\ materialized' \subseteq Occurrence
      /\ made' \in [Occurrence -> Nat]
      /\ gapThrough' \in [Template -> Dates \cup {NoDate}]
      /\ asOf' \in [Template -> 0 .. MaxInstant]
      /\ MadeIsMaterialized'
      /\ view' \in Views
      /\ view'.templates = view.templates /\ view'.seen = view.seen
      /\ view'.tasks = view.tasks \cup new
      /\ view'.materialized = materialized' /\ view'.gapThrough = gapThrough'
  <2>1. now \in Int
    BY <1>1, WindowAssumption
  <2> HIDE DEF ts, now
  <2>2. QED BY <1>1, <2>1, MaterializeOnce
<1>4. view.tasks = materialized \cup others
  BY <1>1 DEF ViewIsAhead
<1> HIDE DEF new, others, ts
<1>5. /\ view.templates = [templates EXCEPT ![n] = "live"]
      /\ view.seen = Applied \cup {n}
  BY <1>1 DEF ViewIsAhead
<1>6. Applied' = Applied \cup {n}
  BY <1>1 DEF Applied, OnceInv, TypeOK
<1>7. view'.tasks = materialized'
  BY <1>2, <1>3, <1>4
<1>8. ViewInv'
  BY <1>1, <1>3, <1>5, <1>6, <1>7 DEF ViewInv, ViewIsTheLog
<1>9. /\ templates' \in [Template -> {"absent", "live", "ended"}]
      /\ decision' \in [Template -> {"none", "applied", "rejected", "lost"}]
  BY <1>1 DEF OnceInv, TypeOK
<1>10. QED BY <1>1, <1>3, <1>8, <1>9 DEF OnceInv, TypeOK

\* With no transaction open the view is the log.
LEMMA ClosedIsTheLog ==
    ASSUME OnceInv, creating = NoCreation
    PROVE  ViewIsTheLog /\ LiveTemplates = Established
<1>1. ViewIsTheLog
  BY OpenIsNotNone DEF OnceInv, ViewInv, ViewIsAhead
<1>2. QED BY <1>1 DEF ViewIsTheLog, LiveTemplates, Established

\* A pass writes to the log and to the view alike.
LEMMA OncePass == OnceInv /\ Pass => OnceInv'
<1> SUFFICES ASSUME OnceInv, Pass PROVE OnceInv'
  OBVIOUS
<1> DEFINE ts == Generated(LiveTemplates, clock)
<1>1. /\ ts \in SUBSET Template /\ clock \in 0 .. MaxInstant /\ clock \in Int
      /\ Materialize(ts, clock) /\ ViewIsTheLog
      /\ UNCHANGED <<clock, stepsBack, templates, decision, finished, creating>>
  BY ClosedIsTheLog, WindowAssumption DEF Pass, Generated, LiveTemplates, OnceInv, TypeOK
<1> HIDE DEF ts
<1>2. Applied' = Applied
  BY <1>1 DEF Applied
<1>3. ViewInv'
  BY <1>1, <1>2, MaterializeOnce DEF ViewInv, ViewIsTheLog
<1>4. QED BY <1>1, <1>3, MaterializeOnce DEF OnceInv, TypeOK

\* A refusal is the log's; the end of a template is the log's and the view's.
LEMMA OnceRefusedOrEnded ==
    ASSUME OnceInv, NEW t \in Template, NEW now \in 0 .. clock, CreateRefused(t, now) \/ End(t)
    PROVE  OnceInv'
<1>1. creating = NoCreation /\ ViewIsTheLog
  BY ClosedIsTheLog DEF CreateRefused, End
<1>2. CASE CreateRefused(t, now)
  <2>1. /\ decision' = [decision EXCEPT ![t] = "rejected"] /\ t \notin Applied
        /\ UNCHANGED <<clock, stepsBack, templates, materialized, gapThrough, finished,
                       view, creating, made, asOf>>
    BY <1>1, <1>2 DEF CreateRefused, ViewIsTheLog
  <2>2. Applied' = Applied
    BY <2>1 DEF Applied, OnceInv, TypeOK
  <2>3. QED BY <1>1, <2>1, <2>2 DEF OnceInv, TypeOK, MadeIsMaterialized, ViewInv, ViewIsTheLog
<1>3. CASE End(t)
  <2>1. /\ templates' = [templates EXCEPT ![t] = "ended"]
        /\ view' = [view EXCEPT !.templates[t] = "ended"]
        /\ UNCHANGED <<clock, stepsBack, decision, materialized, gapThrough, finished,
                       creating, made, asOf>>
    BY <1>3 DEF End
  <2>2. /\ view' \in Views
        /\ view'.templates = [view.templates EXCEPT ![t] = "ended"]
        /\ view'.seen = view.seen /\ view'.tasks = view.tasks
        /\ view'.materialized = view.materialized /\ view'.gapThrough = view.gapThrough
    BY <2>1 DEF OnceInv, TypeOK, Views
  <2>3. Applied' = Applied /\ templates' \in [Template -> {"absent", "live", "ended"}]
    BY <2>1 DEF Applied, OnceInv, TypeOK
  <2>4. QED BY <1>1, <2>1, <2>2, <2>3
            DEF OnceInv, TypeOK, MadeIsMaterialized, ViewInv, ViewIsTheLog
<1>4. QED BY <1>2, <1>3

\* Nothing else touches the log's templates, its index or the view.
LEMMA OnceElse ==
    ASSUME OnceInv, finished' \subseteq Occurrence,
           clock' \in 0 .. MaxInstant, stepsBack' \in 0 .. MaxStepsBack,
           UNCHANGED <<templates, decision, materialized, gapThrough, view, creating, made, asOf>>
    PROVE  OnceInv'
<1>1. Applied' = Applied
  BY DEF Applied
<1>2. ViewIsAhead => ViewIsAhead'
  BY <1>1
  DEF ViewIsAhead, NewOccurrences, Generated, LiveTemplates, Considered, Skipped, Expanded, Breaks
<1>3. ViewInv'
  BY <1>1, <1>2 DEF OnceInv, ViewInv, ViewIsTheLog
<1>4. QED BY <1>3 DEF OnceInv, TypeOK, MadeIsMaterialized

\* Only a generation makes tasks, and it makes what the index does not have.
LEMMA OnceStep == OnceInv /\ [Next]_vars => OnceInv'
<1> SUFFICES ASSUME OnceInv, [Next]_vars PROVE OnceInv'
  OBVIOUS
<1>0. clock \in 0 .. MaxInstant /\ stepsBack \in 0 .. MaxStepsBack /\ finished \subseteq Occurrence
  BY DEF OnceInv, TypeOK
<1>1. CASE Pass
  BY <1>1, OncePass
<1>2. ASSUME NEW t \in Template, NEW now \in 0 .. clock,
             Create(t, now) \/ CreateRefused(t, now)
      PROVE  OnceInv'
  BY <1>2, OnceCreate, OnceRefusedOrEnded
<1>3. ASSUME NEW t \in Template, End(t)
      PROVE  OnceInv'
  <2>1. 0 \in 0 .. clock
    BY <1>0, WindowAssumption
  <2>2. QED BY <1>3, <2>1, OnceRefusedOrEnded
<1>4. CASE Creation
  <2>1. CASE CreateRaises
    <3>1. creating # NoCreation
      BY <2>1, OpenIsNotNone DEF CreateRaises
    <3>2. QED BY <2>1, <3>1, RolledBack DEF CreateRaises, ViewAfterFailure
  <2>2. QED BY <1>4, <2>1, OnceGenerates, OnceCommits DEF Creation
<1>5. CASE Killed
  BY <1>5, RolledBack DEF Killed
<1>6. ASSUME NEW o \in Occurrence, Finish(o) PROVE OnceInv'
  BY <1>0, <1>6, OnceElse DEF Finish
<1>7. CASE ClockAdvances \/ ClockSteppedBack
  <2>1. clock' \in 0 .. MaxInstant /\ stepsBack' \in 0 .. MaxStepsBack
    BY <1>0, <1>7, WindowAssumption DEF ClockAdvances, ClockSteppedBack
  <2>2. QED BY <1>0, <1>7, <2>1, OnceElse DEF ClockAdvances, ClockSteppedBack
<1>8. CASE UNCHANGED vars
  BY <1>0, <1>8, OnceElse DEF vars
<1>9. QED BY <1>1, <1>2, <1>3, <1>4, <1>5, <1>6, <1>7, <1>8 DEF Next

\* Whatever happens, every variable keeps its type.
THEOREM TypeCorrect == Spec => []TypeOK
<1>1. OnceInv => TypeOK
  BY DEF OnceInv
<1>2. QED BY OnceInit, OnceStep, <1>1, PTL DEF Spec

-----------------------------------------------------------------------------
(* Nothing due is missing, and nothing refused is there                     *)

\* What is known of one date of a template: it was skipped only when it was too
\* old for the latest time the template was generated at, and for a template
\* that exists, every other date within the horizon of that time was made.
DateInv(t, d) ==
    /\ d <= gapThrough[t] /\ <<t, d>> \notin materialized
         => StartAt[t][d] < asOf[t] - Lookback
    /\ t \in Established =>
         /\ /\ StartAt[t][d] >= asOf[t] - Lookback
            /\ DayBegins[t][d] <= asOf[t] + Horizon
            => <<t, d>> \in materialized
         /\ StartAt[t][d] < asOf[t] - Lookback
            => <<t, d>> \in materialized \/ d <= gapThrough[t]

\* The log has nothing of a template whose creation was not committed.
RefusedIsNotInTheLog ==
    \A t \in Template : decision[t] # "applied" =>
        /\ templates[t] = "absent" /\ gapThrough[t] = NoDate /\ asOf[t] = 0
        /\ \A d \in Dates : <<t, d>> \notin materialized

DueInv ==
    /\ OnceInv /\ RefusedIsNotInTheLog
    /\ \A t \in Template : \A d \in DatesOf[t] : DateInv(t, d)

\* What a generation of the templates ts at now does to one date of one of them.
LEMMA MaterializeDate ==
    ASSUME OnceInv, NEW ts \in SUBSET Template, NEW now \in Int, Materialize(ts, now),
           NEW t \in ts, NEW d \in DatesOf[t], DateInv(t, d),
           t \in Established \/ asOf[t] <= now
    PROVE  /\ d <= gapThrough'[t] /\ <<t, d>> \notin materialized'
                => StartAt[t][d] < asOf'[t] - Lookback
           /\ /\ StartAt[t][d] >= asOf'[t] - Lookback
              /\ DayBegins[t][d] <= asOf'[t] + Horizon
              => <<t, d>> \in materialized'
           /\ StartAt[t][d] < asOf'[t] - Lookback
              => <<t, d>> \in materialized' \/ d <= gapThrough'[t]
<1> DEFINE new == NewOccurrences(ts, now)
           gap == gapThrough[t]
           after == GapAfter(t, now)
           start == StartAt[t][d]
           begins == DayBegins[t][d]
           last == asOf[t]
<1>1. /\ Lookback \in Nat /\ Horizon \in Nat /\ last \in Int
      /\ d \in Dates /\ d \in Nat /\ LastDate \in Nat
      /\ start \in Int /\ begins \in Int /\ begins <= start
      /\ gap \in Dates \cup {NoDate} /\ gap \in Int
  BY SMTT(30), WindowAssumption, TemplateAssumption, StartsAssumption DEF OnceInv, TypeOK, Dates, NoDate
<1>2. /\ materialized' = materialized \cup new
      /\ gapThrough'[t] = after
      /\ asOf'[t] = IF last < now THEN now ELSE last
  BY DEF Materialize, Later
<1>3. /\ after \in Dates \cup {NoDate} /\ gap <= after
      /\ \A e \in Skipped(t, now) : e <= after
      /\ after # gap => after \in Skipped(t, now)
  BY GapMoves DEF OnceInv, ViewInv
<1>4. after \in Int
  BY <1>1, <1>3 DEF Dates, NoDate
<1>5. d \in Considered(t, now) \ Skipped(t, now) => <<t, d>> \in new
  BY DEF NewOccurrences
<1>6. d \in Considered(t, now) <=>
        begins <= now + Horizon /\ <<t, d>> \notin materialized /\ d > gap
  BY DEF Considered, Expanded, OnceInv, ViewInv
<1>7. d \in Skipped(t, now) <=> d \in Considered(t, now) /\ start < now - Lookback
  BY DEF Skipped
<1>8. ASSUME gap < d, d <= after PROVE start < now - Lookback
  <2>1. after \in DatesOf[t] /\ StartAt[t][after] < now - Lookback
    BY <1>1, <1>3, <1>4, <1>8 DEF Skipped, Considered, Expanded
  <2>2. after \in Nat /\ StartAt[t][after] \in Int
    BY <1>1, <2>1, TemplateAssumption DEF Dates
  <2>3. d < after => start <= StartAt[t][after]
    BY <2>1, StartsAssumption
  <2>4. QED BY <1>1, <1>8, <2>1, <2>2, <2>3
<1>9. /\ d <= gap /\ <<t, d>> \notin materialized => start < last - Lookback
      /\ last <= now \/
           /\ start >= last - Lookback /\ begins <= last + Horizon => <<t, d>> \in materialized
           /\ start < last - Lookback => <<t, d>> \in materialized \/ d <= gap
  BY <1>1 DEF DateInv
<1> HIDE DEF new, gap, after, start, begins, last
<1>10. d <= gapThrough'[t] /\ <<t, d>> \notin materialized' => start < asOf'[t] - Lookback
  BY <1>1, <1>2, <1>4, <1>8, <1>9
<1>11. /\ start >= asOf'[t] - Lookback
       /\ begins <= asOf'[t] + Horizon
       => <<t, d>> \in materialized'
  BY <1>1, <1>2, <1>5, <1>6, <1>7, <1>9
<1>12. start < asOf'[t] - Lookback => <<t, d>> \in materialized' \/ d <= gapThrough'[t]
  BY <1>1, <1>2, <1>3, <1>4, <1>6, <1>7, <1>9
<1>13. QED BY <1>10, <1>11, <1>12 DEF start, begins

\* What it leaves of the other templates.
LEMMA OthersKeep ==
    ASSUME NEW ts \in SUBSET Template, NEW now \in Int, Materialize(ts, now),
           NEW t \in Template, t \notin ts
    PROVE  /\ gapThrough'[t] = gapThrough[t] /\ asOf'[t] = asOf[t]
           /\ \A d : <<t, d>> \in materialized' <=> <<t, d>> \in materialized
<1>1. gapThrough'[t] = gapThrough[t] /\ asOf'[t] = asOf[t]
  BY DEF Materialize
<1>2. \A d : <<t, d>> \notin NewOccurrences(ts, now)
  BY DEF NewOccurrences
<1>3. QED BY <1>1, <1>2 DEF Materialize

\* No template is there yet.
LEMMA DueInit == Init => DueInv
<1> SUFFICES ASSUME Init PROVE DueInv
  OBVIOUS
<1>1. OnceInv
  BY OnceInit
<1>2. RefusedIsNotInTheLog
  BY DEF Init, RefusedIsNotInTheLog
<1>3. ASSUME NEW t \in Template, NEW d \in DatesOf[t] PROVE DateInv(t, d)
  <2>1. d \in Nat
    BY TemplateAssumption DEF Dates
  <2>2. QED BY <2>1 DEF Init, DateInv, Established, NoDate
<1>4. QED BY <1>1, <1>2, <1>3 DEF DueInv

\* A pass generates templates that are in the log.
LEMMA DuePass == DueInv /\ Pass => DueInv'
<1> SUFFICES ASSUME DueInv, Pass PROVE DueInv'
  OBVIOUS
<1> DEFINE ts == Generated(LiveTemplates, clock)
<1>0. OnceInv /\ OnceInv' /\ clock \in Int
  BY OncePass, WindowAssumption DEF DueInv, OnceInv, TypeOK
<1>1. /\ ts \in SUBSET Template /\ ts \subseteq Established /\ Materialize(ts, clock)
      /\ UNCHANGED <<templates, decision>>
  BY <1>0, ClosedIsTheLog DEF Pass, Generated, Established
<1> HIDE DEF ts
<1>2. \A t \in Template : t \in ts => decision[t] = "applied"
  BY <1>1 DEF DueInv, RefusedIsNotInTheLog, Established
<1>3. RefusedIsNotInTheLog'
  BY <1>0, <1>1, <1>2, OthersKeep DEF DueInv, RefusedIsNotInTheLog
<1>4. ASSUME NEW t \in Template, NEW d \in DatesOf[t] PROVE DateInv(t, d)'
  <2>1. DateInv(t, d) /\ Established' = Established
    BY <1>1 DEF DueInv, Established
  <2>2. CASE t \in ts
    BY <1>0, <1>1, <2>1, <2>2, MaterializeDate DEF DateInv
  <2>3. CASE t \notin ts
    BY <1>0, <1>1, <2>1, <2>3, OthersKeep DEF DateInv
  <2>4. QED BY <2>2, <2>3
<1>5. QED BY <1>0, <1>3, <1>4 DEF DueInv

\* A creation that commits brings its template into the log together with the
\* occurrences that are due.
LEMMA DueCommits == DueInv /\ CreateCommits => DueInv'
<1> SUFFICES ASSUME DueInv, CreateCommits PROVE DueInv'
  OBVIOUS
<1> DEFINE n == creating.template
           now == creating.now
           ts == Generated(LiveTemplates, now)
<1>0. OnceInv /\ OnceInv'
  BY OnceCommits DEF DueInv
<1>1. /\ n \in Template /\ now \in 0 .. MaxInstant /\ n \in ts
      /\ ts \in SUBSET Template /\ ts \subseteq Established \cup {n}
      /\ Materialize(ts, now)
      /\ decision[n] # "applied"
      /\ decision' = [decision EXCEPT ![n] = "applied"]
      /\ templates' = [templates EXCEPT ![n] = "live"]
  BY <1>0, CommitAdds
<1> HIDE DEF ts, n, now
<1>2. /\ now \in Int /\ asOf[n] <= now
      /\ templates \in [Template -> {"absent", "live", "ended"}]
      /\ decision \in [Template -> {"none", "applied", "rejected", "lost"}]
  BY <1>1, WindowAssumption DEF DueInv, RefusedIsNotInTheLog, OnceInv, TypeOK
<1>3. \A t \in Template : t \in ts => decision'[t] = "applied"
  BY <1>1, <1>2 DEF DueInv, RefusedIsNotInTheLog, Established
<1>4. \A t \in Template : t # n => templates'[t] = templates[t] /\ decision'[t] = decision[t]
  BY <1>1, <1>2
<1>5. RefusedIsNotInTheLog'
  <2>1. ASSUME NEW t \in Template, decision'[t] # "applied"
        PROVE  t \notin ts /\ t # n /\ templates'[t] = templates[t] /\ decision[t] # "applied"
    BY <1>1, <1>3, <1>4, <2>1
  <2>2. QED BY <1>1, <1>2, <2>1, OthersKeep DEF DueInv, RefusedIsNotInTheLog
<1>6. ASSUME NEW t \in Template, NEW d \in DatesOf[t] PROVE DateInv(t, d)'
  <2>1. DateInv(t, d) /\ (t # n => (t \in Established' <=> t \in Established))
    BY <1>4 DEF DueInv, Established
  <2>2. CASE t \in ts
    <3>1. t \in Established \/ asOf[t] <= now
      BY <1>1, <1>2, <2>2
    <3>2. QED BY <1>0, <1>1, <1>2, <2>1, <2>2, <3>1, MaterializeDate DEF DateInv
  <2>3. CASE t \notin ts
    <3>1. t # n
      BY <1>1, <2>3
    <3>2. QED BY <1>0, <1>1, <1>2, <2>1, <2>3, <3>1, OthersKeep DEF DateInv
  <2>4. QED BY <2>2, <2>3
<1>7. QED BY <1>0, <1>5, <1>6 DEF DueInv

\* Only a generation at a time that is later than all before it makes dates due,
\* and it makes or reports them.
LEMMA DueStep == DueInv /\ [Next]_vars => DueInv'
<1> SUFFICES ASSUME DueInv, [Next]_vars PROVE DueInv'
  OBVIOUS
<1>0. OnceInv /\ OnceInv'
  BY OnceStep DEF DueInv
<1>1. CASE Pass
  BY <1>1, DuePass
<1>2. CASE CreateCommits
  BY <1>2, DueCommits
<1>3. CASE CreateRaises \/ Killed \/ \E t \in Template : \E now \in 0 .. clock : CreateRefused(t, now)
  <2>1. CASE CreateRaises \/ Killed
    <3>1. /\ creating # NoCreation
          /\ decision' = [decision EXCEPT ![creating.template] = "lost"]
          /\ UNCHANGED <<templates, materialized, gapThrough, asOf>>
      BY <2>1, OpenIsNotNone DEF CreateRaises, Killed, RollBack
    <3>2. decision[creating.template] # "applied"
      BY <1>0, <3>1 DEF OnceInv, ViewInv, ViewIsTheLog, ViewIsAhead
    <3>3. \A u \in Template : decision'[u] # "applied" => decision[u] # "applied"
      BY <1>0, <3>1, <3>2 DEF OnceInv, TypeOK
    <3>4. QED BY <1>0, <3>1, <3>3 DEF DueInv, RefusedIsNotInTheLog, DateInv, Established
  <2>2. ASSUME NEW t \in Template, NEW now \in 0 .. clock, CreateRefused(t, now)
        PROVE  DueInv'
    <3>1. /\ creating = NoCreation /\ t \notin view.seen
          /\ decision' = [decision EXCEPT ![t] = "rejected"]
          /\ UNCHANGED <<templates, materialized, gapThrough, asOf>>
      BY <2>2 DEF CreateRefused
    <3>2. decision[t] # "applied"
      BY <1>0, <3>1, ClosedIsTheLog DEF ViewIsTheLog, Applied
    <3>3. \A u \in Template : decision'[u] # "applied" => decision[u] # "applied"
      BY <1>0, <3>1, <3>2 DEF OnceInv, TypeOK
    <3>4. QED BY <1>0, <3>1, <3>3 DEF DueInv, RefusedIsNotInTheLog, DateInv, Established
  <2>3. QED BY <1>3, <2>1, <2>2
<1>4. ASSUME NEW t \in Template, End(t) PROVE DueInv'
  <2>1. /\ UNCHANGED <<decision, materialized, gapThrough, asOf>>
        /\ templates' = [templates EXCEPT ![t] = "ended"] /\ t \in Established
    BY <1>0, <1>4, ClosedIsTheLog DEF End
  <2>2. \A u \in Template : /\ u \in Established' => u \in Established
                            /\ templates[u] = "absent" => templates'[u] = "absent"
    BY <1>0, <2>1 DEF Established, OnceInv, TypeOK
  <2>3. QED BY <1>0, <2>1, <2>2 DEF DueInv, RefusedIsNotInTheLog, DateInv
<1>5. CASE \/ \E t \in Template : \E now \in 0 .. clock : Create(t, now)
           \/ CreateGenerates
           \/ \E o \in Occurrence : Finish(o)
           \/ ClockAdvances \/ ClockSteppedBack \/ UNCHANGED vars
  <2>1. UNCHANGED <<templates, decision, materialized, gapThrough, asOf>>
    BY <1>5 DEF Create, CreateGenerates, Finish, ClockAdvances, ClockSteppedBack, vars
  <2>2. QED BY <1>0, <2>1 DEF DueInv, RefusedIsNotInTheLog, DateInv, Established
<1>6. QED BY <1>1, <1>2, <1>3, <1>4, <1>5 DEF Next, Creation

\* Of the dates up to the horizon of the latest time a template was generated at,
\* each was made, or was older than the lookback and is covered by the recorded
\* gap: whatever the downtime, the steps of the clock and the other templates.
THEOREM OccurrencesMadeOrReported == Spec => []MadeOrReported
<1>1. ASSUME DueInv, NEW t \in Established, NEW d \in DatesOf[t],
             DayBegins[t][d] <= asOf[t] + Horizon
      PROVE  \/ <<t, d>> \in materialized
             \/ StartAt[t][d] < asOf[t] - Lookback /\ d <= gapThrough[t]
  <2>1. t \in Template /\ DateInv(t, d)
    BY <1>1 DEF DueInv, Established
  <2>2. /\ d \in Dates /\ StartAt[t][d] \in Int
        /\ asOf[t] - Lookback \in Int
    BY <1>1, <2>1, TemplateAssumption, WindowAssumption DEF DueInv, OnceInv, TypeOK
  <2>3. QED BY <1>1, <2>1, <2>2 DEF DateInv
<1>2. DueInv => MadeOrReported
  BY <1>1 DEF MadeOrReported
<1>3. QED BY DueInit, DueStep, <1>2, PTL DEF Spec

\* An occurrence is made at most once, at any time and in any order of
\* transactions, and even when the clock goes back; only of a template whose
\* creation was committed; and between transactions the view has exactly the
\* tasks that were committed, although a creation that raised or died had put
\* tasks of other templates into it.
THEOREM OccurrencesMadeOnce == Spec => []MadeOnce
<1>1. ASSUME DueInv PROVE MadeOnce
  <2>1. \A o \in Occurrence : made[o] = IF o \in materialized THEN 1 ELSE 0
    BY <1>1 DEF DueInv, OnceInv, MadeIsMaterialized
  <2>2. ASSUME NEW o \in Occurrence, made[o] = 1 PROVE decision[o[1]] = "applied"
    <3>1. /\ o[1] \in Template /\ o[2] \in Dates /\ <<o[1], o[2]>> \in materialized
      BY <2>1, <2>2 DEF Occurrence
    <3>2. QED BY <1>1, <3>1 DEF DueInv, RefusedIsNotInTheLog
  <2>3. ASSUME creating = NoCreation PROVE view.tasks = {o \in Occurrence : made[o] = 1}
    <3>1. view.tasks = materialized /\ materialized \subseteq Occurrence
      BY <1>1, <2>3, ClosedIsTheLog DEF DueInv, OnceInv, TypeOK, ViewIsTheLog
    <3>2. QED BY <2>1, <3>1
  <2>4. QED BY <2>1, <2>2, <2>3 DEF MadeOnce
<1>2. QED BY DueInit, DueStep, <1>1, PTL DEF Spec

\* A creation that was refused, that raised after its transaction had changed
\* the view, or that died with its process, has left nothing: the log has no
\* template, gap or occurrence of it, and between transactions the view has no
\* template, key, gap, occurrence or task of it either.
THEOREM RefusalLeavesNothing == Spec => []RefusedLeavesNothing
<1>1. ASSUME DueInv PROVE RefusedLeavesNothing
  <2>1. ASSUME NEW t \in Template, decision[t] # "applied"
        PROVE  /\ templates[t] = "absent" /\ gapThrough[t] = NoDate
               /\ \A d \in Dates : <<t, d>> \notin materialized
    BY <1>1, <2>1 DEF DueInv, RefusedIsNotInTheLog
  <2>2. creating = NoCreation =>
          /\ view.templates = templates /\ view.seen = Applied /\ view.tasks = materialized
          /\ view.materialized = materialized /\ view.gapThrough = gapThrough
    BY <1>1, ClosedIsTheLog DEF DueInv, OnceInv, ViewInv, ViewIsTheLog
  <2>3. QED BY <2>1, <2>2 DEF RefusedLeavesNothing, Applied
<1>2. QED BY DueInit, DueStep, <1>1, PTL DEF Spec

=============================================================================
