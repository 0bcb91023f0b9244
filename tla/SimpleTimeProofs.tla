--------------------------- MODULE SimpleTimeProofs ---------------------------
(***************************************************************************)
(* Proofs about SimpleTime, for every length of a day, an hour, a minute   *)
(* and a second, every width of the type and every set of points: the      *)
(* conversions agree with the Gregorian calendar at each moment the type   *)
(* can hold, intervals stay ordered, and distances add up.                 *)
(***************************************************************************)
EXTENDS SimpleTime, TLAPS

-----------------------------------------------------------------------------
(* Division, minimum and maximum. *)

LEMMA Quotient ==
  ASSUME NEW a \in Int, NEW b \in Nat \ {0}
  PROVE  /\ a \div b \in Int /\ a % b \in Int
         /\ a = (a \div b) * b + (a % b)
         /\ 0 <= a % b /\ a % b < b
  OBVIOUS

LEMMA QuotientOf ==
  ASSUME NEW q \in Int, NEW b \in Nat \ {0}, NEW r \in Int, 0 <= r, r < b
  PROVE  (q * b + r) \div b = q /\ (q * b + r) % b = r
  OBVIOUS

(* A quotient is the only number of times that fits. *)
LEMMA QuotientIs ==
  ASSUME NEW a \in Int, NEW b \in Nat \ {0}, NEW q \in Int,
         q * b <= a, a < q * b + b
  PROVE  a \div b = q /\ a % b = a - q * b
  <1>1. a = q * b + (a - q * b) /\ a - q * b \in Int /\ 0 <= a - q * b /\ a - q * b < b
    OBVIOUS
  <1>2. PICK r \in Int : r = a - q * b
    BY <1>1
  <1>3. a = q * b + r /\ 0 <= r /\ r < b
    BY <1>1, <1>2
  <1> QED
    BY <1>2, <1>3, QuotientOf

LEMMA MaxIs ==
  ASSUME NEW S \in SUBSET Int, NEW m \in S, \A n \in S : n <= m
  PROVE  Max(S) = m
  <1>1. \A n \in S : m >= n /\ n \in Int
    OBVIOUS
  <1>2. Max(S) \in S /\ \A n \in S : Max(S) >= n
    BY <1>1 DEF Max
  <1>3. PICK x \in S : x = Max(S)
    BY <1>2
  <1>4. x \in Int /\ m \in Int /\ x >= m /\ m >= x
    BY <1>1, <1>2, <1>3
  <1> QED
    BY <1>3, <1>4

LEMMA MinIs ==
  ASSUME NEW S \in SUBSET Int, NEW m \in S, \A n \in S : m <= n
  PROVE  Min(S) = m
  <1>1. \A n \in S : m <= n /\ n \in Int
    OBVIOUS
  <1>2. Min(S) \in S /\ \A n \in S : Min(S) <= n
    BY <1>1 DEF Min
  <1>3. PICK x \in S : x = Min(S)
    BY <1>2
  <1>4. x \in Int /\ m \in Int /\ x <= m /\ m <= x
    BY <1>1, <1>2, <1>3
  <1> QED
    BY <1>3, <1>4

LEMMA MinMaxOfTwo ==
  ASSUME NEW s \in Int, NEW t \in Int, s <= t
  PROVE  Min({s, t}) = s /\ Max({s, t}) = t
  <1>1. {s, t} \in SUBSET Int /\ s \in {s, t} /\ t \in {s, t}
    OBVIOUS
  <1>2. \A n \in {s, t} : s <= n /\ n <= t
    OBVIOUS
  <1> QED
    BY <1>1, <1>2, MinIs, MaxIs

(* What the type can hold is kept as it is. *)
LEMMA WrappedIs ==
  ASSUME NEW n \in Int, -Limit <= n, n < Limit
  PROVE  Wrapped(n) = n
  <1>1. Limit \in Nat \ {0}
    BY LimitAssumption
  <1>2. PICK a \in Int, b \in Nat \ {0} : a = n + Limit /\ b = 2 * Limit
    BY <1>1
  <1>3. 0 <= a /\ a < b
    BY <1>1, <1>2
  <1>4. PICK q \in Int : q = 0
    OBVIOUS
  <1>5. q * b + a = a /\ a \in Int
    BY <1>4
  <1>6. (q * b + a) % b = a
    BY <1>3, <1>5, QuotientOf
  <1> QED
    BY <1>1, <1>2, <1>5, <1>6 DEF Wrapped

LEMMA WrappedType ==
  ASSUME NEW n \in Int
  PROVE  Wrapped(n) \in Int /\ -Limit <= Wrapped(n) /\ Wrapped(n) < Limit
  <1>1. Limit \in Nat \ {0}
    BY LimitAssumption
  <1>2. 2 * Limit \in Nat \ {0} /\ n + Limit \in Int
    BY <1>1
  <1>3. PICK r \in Int : r = (n + Limit) % (2 * Limit) /\ 0 <= r /\ r < 2 * Limit
    BY <1>2, Quotient
  <1> QED
    BY <1>1, <1>3 DEF Wrapped

-----------------------------------------------------------------------------
(* Intervals and distances. *)

LEMMA InstantType ==
  ASSUME NEW s \in Instant
  PROVE  s \in Int /\ MinusInf <= s /\ s <= PlusInf
  BY LimitAssumption, InstantAssumption DEF MinusInf, PlusInf

(* The distance between two points takes the earlier to the later. *)
LEMMA DistanceTakes ==
  ASSUME NEW s \in Instant, NEW t \in Instant, 0 <= s, s <= t
  PROVE  Distance(s, t) >= 0 /\ Plus(s, Distance(s, t)) = t
  <1>1. /\ s \in Int /\ t \in Int /\ Limit \in Nat \ {0}
        /\ MinusInf < s /\ s <= PlusInf /\ t <= PlusInf
        /\ PlusInf = Limit - 1 /\ MinusInf = -Limit
    BY InstantType, LimitAssumption DEF MinusInf, PlusInf
  <1>2. Min({s, t}) = s /\ Max({s, t}) = t
    BY <1>1, MinMaxOfTwo
  <1>3. CASE s = t
    <2>1. Distance(s, t) = 0
      BY <1>2, <1>3 DEF Distance
    <2>2. Infinite(s) \/ Plus(s, 0) = Wrapped(s)
      <3>1. s + 0 = s /\ (PlusInf = 0 => s = PlusInf)
        BY <1>1
      <3> QED
        BY <3>1 DEF Plus, Infinite
    <2>3. Wrapped(s) = s
      BY <1>1, WrappedIs
    <2> QED
      BY <1>3, <2>1, <2>2, <2>3 DEF Plus
  <1>4. CASE s # t /\ t = PlusInf
    <2>1. Distance(s, t) = PlusInf
      BY <1>2, <1>4 DEF Distance
    <2>2. ~Infinite(s)
      BY <1>1, <1>4 DEF Infinite
    <2> QED
      BY <1>1, <1>4, <2>1, <2>2 DEF Plus
  <1>5. CASE s # t /\ t # PlusInf
    <2>1. Distance(s, t) = Wrapped(t - s)
      BY <1>1, <1>2, <1>5 DEF Distance
    <2>2. t - s \in Int /\ -Limit <= t - s /\ t - s < Limit /\ 0 <= t - s /\ t - s # PlusInf
      BY <1>1, <1>5
    <2>3. Distance(s, t) = t - s
      BY <2>1, <2>2, WrappedIs
    <2>4. ~Infinite(s) /\ s + (t - s) = t
      BY <1>1, <1>5 DEF Infinite
    <2>5. Plus(s, t - s) = Wrapped(t)
      BY <2>2, <2>4 DEF Plus
    <2>6. Wrapped(t) = t
      BY <1>1, WrappedIs
    <2> QED
      BY <2>2, <2>3, <2>5, <2>6
  <1> QED
    BY <1>3, <1>4, <1>5

(* The inductive invariant of the calculations. *)
CalculatedInv ==
  /\ interval \in [start : Int, end : Int]
  /\ Ordered
  /\ measured # {} =>
       \E s \in Instant : \E t \in Instant :
         measured = {s, t} /\ duration = Distance(s, t)

LEMMA DistanceOfPair ==
  ASSUME NEW s \in Instant, NEW t \in Instant, NEW p \in Instant, NEW q \in Instant,
         {s, t} = {p, q}, s <= t
  PROVE  Distance(p, q) = Distance(s, t)
  BY DEF Distance

LEMMA CalculatedImpliesIntervalInv == CalculatedInv => IntervalInv
  <1> SUFFICES ASSUME CalculatedInv
               PROVE  DistanceAddsUp
    BY DEF CalculatedInv, IntervalInv
  <1> SUFFICES ASSUME NEW s \in measured, NEW t \in measured,
                      0 <= s, s <= t, {s, t} = measured
               PROVE  duration >= 0 /\ Plus(s, duration) = t
    BY DEF DistanceAddsUp
  <1>1. PICK p \in Instant : \E q \in Instant :
               measured = {p, q} /\ duration = Distance(p, q)
    BY DEF CalculatedInv
  <1>2. PICK q \in Instant : measured = {p, q} /\ duration = Distance(p, q)
    BY <1>1
  <1>3. s \in Instant /\ t \in Instant /\ {s, t} = {p, q}
    BY <1>2
  <1>4. duration = Distance(s, t)
    BY <1>2, <1>3, DistanceOfPair
  <1> QED
    BY <1>3, <1>4, DistanceTakes

LEMMA StartSetKeeps ==
  ASSUME NEW i \in [start : Int, end : Int], i.start <= i.end, NEW s \in Int
  PROVE  /\ StartSet(i, s) \in [start : Int, end : Int]
         /\ StartSet(i, s).start <= StartSet(i, s).end
  BY DEF StartSet

LEMMA EndSetKeeps ==
  ASSUME NEW i \in [start : Int, end : Int], i.start <= i.end, NEW t \in Int
  PROVE  /\ EndSet(i, t) \in [start : Int, end : Int]
         /\ EndSet(i, t).start <= EndSet(i, t).end
  BY DEF EndSet

LEMMA InitCalculatedInv == Init => CalculatedInv
  BY InstantAssumption DEF Init, Fresh, CalculatedInv, Ordered

LEMMA StepCalculatedInv ==
  ASSUME CalculatedInv, [Next]_vars
  PROVE  CalculatedInv'
  <1> USE DEF CalculatedInv, Ordered
  <1>1. CASE Tick \/ UNCHANGED vars
    BY <1>1 DEF Tick, vars
  <1>2. ASSUME NEW s \in Instant, SetStart(s)
        PROVE  CalculatedInv'
    <2>1. s \in Int
      BY InstantType
    <2> QED
      BY <1>2, <2>1, StartSetKeeps DEF SetStart
  <1>3. ASSUME NEW t \in Instant, SetEnd(t)
        PROVE  CalculatedInv'
    <2>1. t \in Int
      BY InstantType
    <2> QED
      BY <1>3, <2>1, EndSetKeeps DEF SetEnd
  <1>4. ASSUME NEW s \in Instant, NEW t \in Instant, SetInterval(s, t)
        PROVE  CalculatedInv'
    <2>1. s \in Int /\ t \in Int /\ {s, t} = {t, s}
      BY InstantType
    <2>2. Min({s, t}) \in Int /\ Max({s, t}) \in Int
      <3>1. CASE s <= t
        BY <2>1, <3>1, MinMaxOfTwo
      <3>2. CASE t <= s
        <4>1. Min({t, s}) = t /\ Max({t, s}) = s
          BY <2>1, <3>2, MinMaxOfTwo
        <4> QED
          BY <2>1, <4>1
      <3> QED
        BY <2>1, <3>1, <3>2
    <2>3. PICK i : i = StartSet(interval, Min({s, t}))
      OBVIOUS
    <2>4. i \in [start : Int, end : Int] /\ i.start <= i.end
      BY <2>2, <2>3, StartSetKeeps
    <2>5. interval' = EndSet(i, Max({s, t}))
      BY <1>4, <2>3 DEF SetInterval
    <2> QED
      BY <1>4, <2>2, <2>4, <2>5, EndSetKeeps DEF SetInterval
  <1>5. ASSUME NEW s \in Instant, NEW t \in Instant, SetDuration(s, t)
        PROVE  CalculatedInv'
    BY <1>5 DEF SetDuration
  <1>6. CASE SetDurationOfInterval
    BY <1>6 DEF SetDurationOfInterval
  <1> QED
    BY <1>1, <1>2, <1>3, <1>4, <1>5, <1>6 DEF Next

(* Intervals stay ordered in whatever order their ends are set, and the
   distance of two points from 1900 on takes the earlier to the later
   (SimpleTimeInterval::setStart, setEnd and setInterval,
   SimpleTimeDuration::setDuration), infinities included. *)
THEOREM IntervalsOrderedDistancesAddUp == Spec => []IntervalInv
  <1>1. Spec => []CalculatedInv
    <2>1. CalculatedInv /\ [Next]_vars => CalculatedInv'
      BY StepCalculatedInv
    <2> QED
      BY <2>1, InitCalculatedInv, PTL DEF Spec
  <1> QED
    BY <1>1, CalculatedImpliesIntervalInv, PTL

-----------------------------------------------------------------------------
(* Dates and numbers of days. *)

Calendar ==
  [year : 1900 .. 2484, month : 1 .. 12, day : 1 .. 31, hour : 0 .. HoursPerDay - 1,
   min : 0 .. MinutesPerHour - 1, sec : 0 .. SecondsPerMinute - 1, ns : 0 .. NanosPerSecond - 1]

(* A date of the Gregorian calendar. *)
IsDate(d) == d \in Calendar /\ d.day <= DaysIn(d.year, d.month)

LeapDay(y) == IF IsLeap(y) THEN 1 ELSE 0

(* The days of a year before a month of it. *)
MonthStart(y, m) == DaysBefore[m] + (IF m < 3 THEN 0 ELSE LeapDay(y))

Days(d)  == DayNumber(d.year, d.month, d.day)
InDay(d) == d.hour * PerHour + d.min * PerMinute + d.sec * NanosPerSecond + d.ns
Nanos(d) == Days(d) * PerDay + InDay(d)

LEMMA LeapDaysGrow ==
  ASSUME NEW y \in Int
  PROVE  /\ LeapDays(y) \in Int /\ LeapDay(y) \in {0, 1}
         /\ LeapDays(y) = LeapDays(y - 1) + LeapDay(y)
  BY DEF LeapDays, LeapDay, IsLeap

LEMMA DaysBeforeIs ==
  /\ DaysBefore[1] = 0    /\ DaysBefore[2] = 31   /\ DaysBefore[3] = 59
  /\ DaysBefore[4] = 90   /\ DaysBefore[5] = 120  /\ DaysBefore[6] = 151
  /\ DaysBefore[7] = 181  /\ DaysBefore[8] = 212  /\ DaysBefore[9] = 243
  /\ DaysBefore[10] = 273 /\ DaysBefore[11] = 304 /\ DaysBefore[12] = 334
  BY DEF DaysBefore

LEMMA LeapYears ==
  ASSUME NEW year \in Int, year \in 1900 .. 2484
  PROVE  IsLeap(year - 1900) <=> DaysIn(year, 2) = 29
  BY DEF IsLeap, DaysIn

LEMMA DaysInType ==
  ASSUME NEW year \in Int, year \in 1900 .. 2484, NEW m \in Int, m \in 1 .. 12
  PROVE  DaysIn(year, m) \in 28 .. 31
  BY DEF DaysIn

(* The length of a month is what lies between its start and the next one's. *)
LEMMA MonthLength ==
  ASSUME NEW year \in Int, year \in 1900 .. 2484, NEW y \in Int, y = year - 1900,
         NEW m \in Int, m \in 1 .. 12
  PROVE  /\ MonthStart(y, m) \in Int /\ DaysIn(year, m) \in 28 .. 31
         /\ m < 12 => MonthStart(y, m + 1) = MonthStart(y, m) + DaysIn(year, m)
         /\ m = 12 => 365 + LeapDay(y) = MonthStart(y, m) + DaysIn(year, m)
  <1>1. LeapDay(y) = DaysIn(year, 2) - 28 /\ DaysIn(year, 2) \in {28, 29}
    BY LeapYears DEF LeapDay, DaysIn
  <1>2. DaysIn(year, m) = IF m = 2 THEN DaysIn(year, 2) ELSE IF m \in {4, 6, 9, 11} THEN 30 ELSE 31
    BY DEF DaysIn
  <1>3. PICK l \in {0, 1} : l = LeapDay(y)
    BY <1>1
  <1>4. MonthStart(y, 1) = 0 /\ MonthStart(y, 2) = 31
    BY DaysBeforeIs DEF MonthStart
  <1>5. /\ MonthStart(y, 3) = 59 + l   /\ MonthStart(y, 4) = 90 + l
        /\ MonthStart(y, 5) = 120 + l  /\ MonthStart(y, 6) = 151 + l
        /\ MonthStart(y, 7) = 181 + l  /\ MonthStart(y, 8) = 212 + l
        /\ MonthStart(y, 9) = 243 + l  /\ MonthStart(y, 10) = 273 + l
        /\ MonthStart(y, 11) = 304 + l /\ MonthStart(y, 12) = 334 + l
    BY <1>3, DaysBeforeIs DEF MonthStart
  <1>6. m \in {1, 2, 3, 4, 5, 6, 7, 8, 9, 10, 11, 12}
    OBVIOUS
  <1> QED
    BY <1>1, <1>2, <1>3, <1>4, <1>5, <1>6

(* The number of a day counts from the start of its year. *)
LEMMA DayOfYear ==
  ASSUME NEW year \in Int, year \in 1900 .. 2484, NEW y \in Int, y = year - 1900,
         NEW m \in Int, m \in 1 .. 12, NEW k \in Int
  PROVE  DayNumber(year, m, k) = 365 * y + LeapDays(y - 1) + MonthStart(y, m) + (k - 1)
  <1>1. y \in Int /\ LeapDays(y) \in Int /\ LeapDays(y) = LeapDays(y - 1) + LeapDay(y)
    BY LeapDaysGrow
  <1>2. DaysBefore[m] \in Int
    BY DaysBeforeIs
  <1>3. LeapDays(y - 1) \in Int
    BY <1>1, LeapDaysGrow
  <1> QED
    BY <1>1, <1>2, <1>3 DEF DayNumber, MonthStart, LeapDay

LEMMA PerDayType ==
  /\ NanosPerSecond \in Nat \ {0} /\ PerMinute \in Nat \ {0}
  /\ PerHour \in Nat \ {0} /\ PerDay \in Nat \ {0}
  <1>1. \A a \in Nat \ {0} : \A b \in Nat \ {0} : a * b \in Nat \ {0}
    OBVIOUS
  <1> QED
    BY <1>1, RadixAssumption DEF PerMinute, PerHour, PerDay

(* The fields of a date, as numbers. *)
LEMMA DateFields ==
  ASSUME NEW d, IsDate(d)
  PROVE  \E year \in Int : \E m \in Int : \E k \in Int : \E y \in Int :
           /\ year \in 1900 .. 2484 /\ m \in 1 .. 12 /\ k \in 1 .. 31 /\ y \in 0 .. 584
           /\ d.year = year /\ d.month = m /\ d.day = k /\ y = year - 1900
           /\ k <= DaysIn(year, m) /\ DaysIn(year, m) \in 28 .. 31
           /\ LeapDays(y - 1) \in Nat /\ MonthStart(y, m) \in Nat
           /\ Days(d) = 365 * y + LeapDays(y - 1) + MonthStart(y, m) + (k - 1)
           /\ Days(d) \in Nat
  <1>1. PICK year \in Int : year \in 1900 .. 2484 /\ d.year = year
    BY DEF IsDate, Calendar
  <1>2. PICK m \in Int : m \in 1 .. 12 /\ d.month = m
    BY DEF IsDate, Calendar
  <1>3. PICK k \in Int : k \in 1 .. 31 /\ d.day = k
    BY DEF IsDate, Calendar
  <1>4. PICK y \in Int : y \in 0 .. 584 /\ y = year - 1900
    BY <1>1
  <1>5. k <= DaysIn(year, m) /\ DaysIn(year, m) \in 28 .. 31
    BY <1>1, <1>2, <1>3, DaysInType DEF IsDate
  <1>6. DayNumber(year, m, k) = 365 * y + LeapDays(y - 1) + MonthStart(y, m) + (k - 1)
    BY <1>1, <1>2, <1>4, DayOfYear
  <1>7. Days(d) = 365 * y + LeapDays(y - 1) + MonthStart(y, m) + (k - 1)
    BY <1>1, <1>2, <1>3, <1>6 DEF Days
  <1>8. LeapDays(y - 1) \in Nat
    BY <1>4 DEF LeapDays
  <1>9. MonthStart(y, m) \in Nat
    <2>1. LeapDay(y) \in Nat
      BY DEF LeapDay
    <2>2. DaysBefore[m] \in Nat
      BY <1>2, DaysBeforeIs
    <2> QED
      BY <2>1, <2>2 DEF MonthStart
  <1>10. Days(d) \in Nat
    BY <1>3, <1>4, <1>7, <1>8, <1>9
  <1> QED
    BY <1>1, <1>2, <1>3, <1>4, <1>5, <1>7, <1>8, <1>9, <1>10

LEMMA InDayType ==
  ASSUME NEW d, IsDate(d)
  PROVE  InDay(d) \in 0 .. PerDay - 1
  <1>1. \A a \in Nat : \A b \in Nat \ {0} : \A q \in Nat : \A r \in Nat :
          q < a /\ r < b => q * b + r \in Nat /\ q * b + r < a * b
    <2> SUFFICES ASSUME NEW a \in Nat, NEW b \in Nat \ {0}, NEW q \in Nat, NEW r \in Nat,
                        q < a, r < b
                 PROVE  q * b + r \in Nat /\ q * b + r < a * b
      OBVIOUS
    <2>1. (q + 1) * b <= a * b /\ (q + 1) * b = q * b + b /\ q * b \in Nat
      OBVIOUS
    <2> QED
      BY <2>1
  <1>2. /\ d.hour \in Nat /\ d.hour < HoursPerDay /\ d.min \in Nat /\ d.min < MinutesPerHour
        /\ d.sec \in Nat /\ d.sec < SecondsPerMinute /\ d.ns \in Nat /\ d.ns < NanosPerSecond
    BY RadixAssumption DEF IsDate, Calendar
  <1>3. PICK s : s = d.sec * NanosPerSecond + d.ns
    OBVIOUS
  <1>4. s \in Nat /\ s < PerMinute
    BY <1>1, <1>2, <1>3, PerDayType, RadixAssumption DEF PerMinute
  <1>5. PICK m : m = d.min * PerMinute + s
    OBVIOUS
  <1>6. m \in Nat /\ m < PerHour
    BY <1>1, <1>2, <1>4, <1>5, PerDayType, RadixAssumption DEF PerHour
  <1>7. d.hour * PerHour + m \in Nat /\ d.hour * PerHour + m < PerDay
    BY <1>1, <1>2, <1>6, PerDayType, RadixAssumption DEF PerDay
  <1>8. d.hour * PerHour \in Nat /\ d.min * PerMinute \in Nat /\ d.sec * NanosPerSecond \in Nat
    BY <1>2, PerDayType
  <1>9. InDay(d) = d.hour * PerHour + m
    BY <1>2, <1>3, <1>5, <1>8 DEF InDay
  <1> QED
    BY <1>7, <1>9, PerDayType

FirstOfMonth(d, n) == [d EXCEPT !.day = 1, !.month = n]
FirstOfYear(d, n)  == [d EXCEPT !.day = 1, !.month = 1, !.year = n]

LEMMA SetMonth ==
  ASSUME NEW d \in Calendar, NEW n \in Int, n \in 1 .. 12
  PROVE  LET e == FirstOfMonth(d, n) IN
         /\ e \in Calendar /\ e.day = 1 /\ e.year = d.year /\ e.month = n
         /\ e.hour = d.hour /\ e.min = d.min /\ e.sec = d.sec /\ e.ns = d.ns
  <1> DEFINE f == [d EXCEPT !.day = 1]
             e == FirstOfMonth(d, n)
  <1>1. f \in Calendar
    BY DEF Calendar
  <1>2. /\ f.day = 1 /\ f.year = d.year
        /\ f.hour = d.hour /\ f.min = d.min /\ f.sec = d.sec /\ f.ns = d.ns
    BY DEF Calendar
  <1>3. e = [f EXCEPT !.month = n]
    BY DEF Calendar, FirstOfMonth
  <1> HIDE DEF f, e
  <1>4. /\ e \in Calendar /\ e.day = 1 /\ e.year = d.year /\ e.month = n
        /\ e.hour = d.hour /\ e.min = d.min /\ e.sec = d.sec /\ e.ns = d.ns
    BY <1>1, <1>2, <1>3 DEF Calendar
  <1> QED
    BY <1>4 DEF e

LEMMA SetYear ==
  ASSUME NEW d \in Calendar, NEW n \in Int, n \in 1900 .. 2484
  PROVE  LET e == FirstOfYear(d, n) IN
         /\ e \in Calendar /\ e.day = 1 /\ e.year = n /\ e.month = 1
         /\ e.hour = d.hour /\ e.min = d.min /\ e.sec = d.sec /\ e.ns = d.ns
  <1> DEFINE f == FirstOfMonth(d, 1)
             e == FirstOfYear(d, n)
  <1>1. 1 \in Int /\ 1 \in 1 .. 12
    OBVIOUS
  <1>2. e = [f EXCEPT !.year = n]
    BY DEF Calendar, FirstOfMonth, FirstOfYear
  <1>3. /\ f \in Calendar /\ f.day = 1 /\ f.year = d.year /\ f.month = 1
        /\ f.hour = d.hour /\ f.min = d.min /\ f.sec = d.sec /\ f.ns = d.ns
    BY <1>1, SetMonth
  <1> HIDE DEF f, e
  <1>4. /\ e \in Calendar /\ e.day = 1 /\ e.year = n /\ e.month = 1
        /\ e.hour = d.hour /\ e.min = d.min /\ e.sec = d.sec /\ e.ns = d.ns
    BY <1>2, <1>3 DEF Calendar
  <1> QED
    BY <1>4 DEF e

LEMMA SetDay ==
  ASSUME NEW d \in Calendar, NEW k \in Int, k \in 1 .. 31, d.day = k, k < 31
  PROVE  LET e == [d EXCEPT !.day = @ + 1] IN
         /\ e \in Calendar /\ e.day = k + 1 /\ e.year = d.year /\ e.month = d.month
         /\ e.hour = d.hour /\ e.min = d.min /\ e.sec = d.sec /\ e.ns = d.ns
  BY DEF Calendar

(* The number of a day whose fields are known. *)
LEMMA DaysAre ==
  ASSUME NEW e, NEW year \in Int, year \in 1900 .. 2484, NEW m \in Int, m \in 1 .. 12,
         NEW k \in Int, k \in 1 .. 31, NEW y \in Int,
         e.year = year, e.month = m, e.day = k, y = year - 1900
  PROVE  Days(e) = 365 * y + LeapDays(y - 1) + MonthStart(y, m) + (k - 1)
  <1>1. DayNumber(year, m, k) = 365 * y + LeapDays(y - 1) + MonthStart(y, m) + (k - 1)
    BY DayOfYear
  <1> QED
    BY <1>1 DEF Days

LEMMA NextDayIsNext ==
  ASSUME NEW d, IsDate(d), d.year < 2484 \/ d.month < 12 \/ d.day < 31
  PROVE  LET e == NextDay(d) IN
         /\ IsDate(e) /\ Days(e) = Days(d) + 1 /\ InDay(e) = InDay(d)
         /\ \/ e.year = d.year
            \/ e.year = d.year + 1 /\ d.month = 12 /\ e.month = 1 /\ e.day = 1
  <1>1. d \in Calendar
    BY DEF IsDate
  <1>2. PICK year \in Int, m \in Int, k \in Int, y \in Int :
           /\ year \in 1900 .. 2484 /\ m \in 1 .. 12 /\ k \in 1 .. 31 /\ y \in 0 .. 584
           /\ d.year = year /\ d.month = m /\ d.day = k /\ y = year - 1900
           /\ k <= DaysIn(year, m) /\ DaysIn(year, m) \in 28 .. 31
           /\ LeapDays(y - 1) \in Nat /\ MonthStart(y, m) \in Nat
           /\ Days(d) = 365 * y + LeapDays(y - 1) + MonthStart(y, m) + (k - 1)
           /\ Days(d) \in Nat
    BY DateFields
  <1>3. PICK e : e = NextDay(d)
    OBVIOUS
  <1>4. CASE k < DaysIn(year, m)
    <2>1. k < 31 /\ k + 1 \in 1 .. 31
      BY <1>2, <1>4
    <2>2. e = [d EXCEPT !.day = @ + 1]
      BY <1>2, <1>3, <1>4 DEF NextDay
    <2>3. /\ e \in Calendar /\ e.day = k + 1 /\ e.year = year /\ e.month = m
          /\ e.hour = d.hour /\ e.min = d.min /\ e.sec = d.sec /\ e.ns = d.ns
      BY <1>1, <1>2, <2>1, <2>2, SetDay
    <2>4. IsDate(e)
      BY <1>2, <1>4, <2>3 DEF IsDate
    <2>5. PICK k1 \in Int : k1 \in 1 .. 31 /\ k1 = k + 1
      BY <2>1
    <2>6. Days(e) = 365 * y + LeapDays(y - 1) + MonthStart(y, m) + (k1 - 1)
      BY <1>2, <2>3, <2>5, DaysAre
    <2>7. Days(e) = Days(d) + 1
      BY <1>2, <2>5, <2>6
    <2>8. InDay(e) = InDay(d)
      BY <2>3 DEF InDay
    <2> QED
      BY <1>2, <1>3, <2>3, <2>4, <2>7, <2>8
  <1>5. CASE k = DaysIn(year, m) /\ m < 12
    <2>1. PICK n \in Int : n \in 1 .. 12 /\ n = m + 1
      BY <1>2, <1>5
    <2>2. e = FirstOfMonth(d, n)
      BY <1>2, <1>3, <1>5, <2>1 DEF NextDay, FirstOfMonth
    <2>3. /\ e \in Calendar /\ e.day = 1 /\ e.year = year /\ e.month = n
          /\ e.hour = d.hour /\ e.min = d.min /\ e.sec = d.sec /\ e.ns = d.ns
      <3>1. /\ e \in Calendar /\ e.day = 1 /\ e.year = d.year /\ e.month = n
            /\ e.hour = d.hour /\ e.min = d.min /\ e.sec = d.sec /\ e.ns = d.ns
        BY <1>1, <2>1, <2>2, SetMonth
      <3> QED
        BY <1>2, <3>1
    <2>4. IsDate(e)
      <3>1. DaysIn(year, n) \in 28 .. 31
        BY <1>2, <2>1, DaysInType
      <3> QED
        BY <2>3, <2>1, <3>1 DEF IsDate
    <2>5. PICK k1 \in Int : k1 \in 1 .. 31 /\ k1 = 1
      OBVIOUS
    <2>6. Days(e) = 365 * y + LeapDays(y - 1) + MonthStart(y, n) + (k1 - 1)
      BY <1>2, <2>3, <2>1, <2>5, DaysAre
    <2>7. MonthStart(y, m + 1) = MonthStart(y, m) + DaysIn(year, m)
      BY <1>2, <1>5, MonthLength
    <2>8. Days(e) = Days(d) + 1
      BY <1>2, <1>5, <2>1, <2>5, <2>6, <2>7
    <2>9. InDay(e) = InDay(d)
      BY <2>3 DEF InDay
    <2> QED
      BY <1>2, <1>3, <2>3, <2>4, <2>8, <2>9
  <1>6. CASE k = DaysIn(year, m) /\ m = 12
    <2>1. k = 31 /\ year < 2484
      BY <1>2, <1>6 DEF DaysIn
    <2>2. PICK next \in Int, z \in Int, m1 \in Int, k1 \in Int :
            next \in 1900 .. 2484 /\ m1 \in 1 .. 12 /\ k1 \in 1 .. 31 /\
            next = year + 1 /\ z = y + 1 /\ m1 = 1 /\ k1 = 1
      BY <1>2, <2>1
    <2>3. e = FirstOfYear(d, next)
      BY <1>2, <1>3, <1>6, <2>2 DEF NextDay, FirstOfYear
    <2>4. /\ e \in Calendar /\ e.day = 1 /\ e.year = next /\ e.month = 1
          /\ e.hour = d.hour /\ e.min = d.min /\ e.sec = d.sec /\ e.ns = d.ns
      BY <1>1, <2>2, <2>3, SetYear
    <2>5. IsDate(e)
      BY <2>4 DEF IsDate, DaysIn
    <2>6. z = next - 1900 /\ z - 1 = y
      BY <1>2, <2>2
    <2>7. Days(e) = 365 * z + LeapDays(z - 1) + MonthStart(z, m1) + (k1 - 1)
      BY <2>2, <2>4, <2>6, DaysAre
    <2>8. MonthStart(z, m1) = 0
      BY <2>2, DaysBeforeIs DEF MonthStart
    <2>9. LeapDays(y) = LeapDays(y - 1) + LeapDay(y) /\ LeapDay(y) \in Int
      <3>1. y \in Int
        OBVIOUS
      <3> QED
        BY <3>1, LeapDaysGrow
    <2>10. 365 + LeapDay(y) = MonthStart(y, m) + DaysIn(year, m)
      BY <1>2, <1>6, MonthLength
    <2>11. Days(e) = Days(d) + 1
      BY <1>2, <1>6, <2>1, <2>2, <2>6, <2>7, <2>8, <2>9, <2>10
    <2>12. InDay(e) = InDay(d)
      BY <2>4 DEF InDay
    <2> QED
      BY <1>2, <1>3, <1>6, <2>2, <2>4, <2>5, <2>11, <2>12
  <1>7. k < DaysIn(year, m) \/ (k = DaysIn(year, m) /\ m < 12) \/ (k = DaysIn(year, m) /\ m = 12)
    BY <1>2
  <1> QED
    BY <1>4, <1>5, <1>6, <1>7

-----------------------------------------------------------------------------
(* The clock. *)

WithNs(d, n)   == [d EXCEPT !.ns = n]
WithSec(d, n)  == [d EXCEPT !.sec = n]
WithMin(d, n)  == [d EXCEPT !.min = n]
WithHour(d, n) == [d EXCEPT !.hour = n]

SameDay(d, e) ==
  e \in Calendar /\ e.year = d.year /\ e.month = d.month /\ e.day = d.day

LEMMA SetNs ==
  ASSUME NEW d \in Calendar, NEW n \in Int, n \in 0 .. NanosPerSecond - 1
  PROVE  LET e == WithNs(d, n) IN
         SameDay(d, e) /\ e.hour = d.hour /\ e.min = d.min /\ e.sec = d.sec /\ e.ns = n
  BY DEF Calendar, SameDay, WithNs

LEMMA SetSec ==
  ASSUME NEW d \in Calendar, NEW n \in Int, n \in 0 .. SecondsPerMinute - 1
  PROVE  LET e == WithSec(d, n) IN
         SameDay(d, e) /\ e.hour = d.hour /\ e.min = d.min /\ e.sec = n /\ e.ns = d.ns
  BY DEF Calendar, SameDay, WithSec

LEMMA SetMin ==
  ASSUME NEW d \in Calendar, NEW n \in Int, n \in 0 .. MinutesPerHour - 1
  PROVE  LET e == WithMin(d, n) IN
         SameDay(d, e) /\ e.hour = d.hour /\ e.min = n /\ e.sec = d.sec /\ e.ns = d.ns
  BY DEF Calendar, SameDay, WithMin

LEMMA SetHour ==
  ASSUME NEW d \in Calendar, NEW n \in Int, n \in 0 .. HoursPerDay - 1
  PROVE  LET e == WithHour(d, n) IN
         SameDay(d, e) /\ e.hour = n /\ e.min = d.min /\ e.sec = d.sec /\ e.ns = d.ns
  BY DEF Calendar, SameDay, WithHour

LEMMA SameDayAgain ==
  ASSUME NEW d, NEW e, NEW f, SameDay(d, e), SameDay(e, f)
  PROVE  SameDay(d, f)
  BY DEF SameDay

LEMMA SameDayIsDate ==
  ASSUME NEW d, NEW e, IsDate(d), SameDay(d, e)
  PROVE  IsDate(e) /\ Days(e) = Days(d)
  BY DEF IsDate, SameDay, Days

LEMMA ClockFields ==
  ASSUME NEW d, IsDate(d)
  PROVE  \E h \in Int : \E m \in Int : \E s \in Int : \E n \in Int :
           /\ d.hour = h /\ d.min = m /\ d.sec = s /\ d.ns = n
           /\ h \in 0 .. HoursPerDay - 1 /\ m \in 0 .. MinutesPerHour - 1
           /\ s \in 0 .. SecondsPerMinute - 1 /\ n \in 0 .. NanosPerSecond - 1
           /\ InDay(d) = h * PerHour + m * PerMinute + s * NanosPerSecond + n
  <1>1. PICK h \in Int : h \in 0 .. HoursPerDay - 1 /\ d.hour = h
    BY RadixAssumption DEF IsDate, Calendar
  <1>2. PICK m \in Int : m \in 0 .. MinutesPerHour - 1 /\ d.min = m
    BY RadixAssumption DEF IsDate, Calendar
  <1>3. PICK s \in Int : s \in 0 .. SecondsPerMinute - 1 /\ d.sec = s
    BY RadixAssumption DEF IsDate, Calendar
  <1>4. PICK n \in Int : n \in 0 .. NanosPerSecond - 1 /\ d.ns = n
    BY RadixAssumption DEF IsDate, Calendar
  <1>5. InDay(d) = h * PerHour + m * PerMinute + s * NanosPerSecond + n
    BY <1>1, <1>2, <1>3, <1>4 DEF InDay
  <1> QED
    BY <1>1, <1>2, <1>3, <1>4, <1>5

(* The moment at which a minute, or an hour, of a day starts. *)
LEMMA Truncated ==
  ASSUME NEW d \in Calendar
  PROVE  /\ LET f == WithSec(WithNs(d, 0), 0) IN
            SameDay(d, f) /\ f.hour = d.hour /\ f.min = d.min /\ f.sec = 0 /\ f.ns = 0
         /\ LET f == WithMin(WithSec(WithNs(d, 0), 0), 0) IN
            SameDay(d, f) /\ f.hour = d.hour /\ f.min = 0 /\ f.sec = 0 /\ f.ns = 0
  <1>1. 0 \in Int /\ 0 \in 0 .. NanosPerSecond - 1 /\ 0 \in 0 .. SecondsPerMinute - 1
          /\ 0 \in 0 .. MinutesPerHour - 1
    BY RadixAssumption
  <1>2. PICK f : f = WithNs(d, 0)
    OBVIOUS
  <1>3. SameDay(d, f) /\ f.hour = d.hour /\ f.min = d.min /\ f.sec = d.sec /\ f.ns = 0
    BY <1>1, <1>2, SetNs
  <1>4. PICK g : g = WithSec(f, 0)
    OBVIOUS
  <1>5. f \in Calendar
    BY <1>3 DEF SameDay
  <1>6. SameDay(f, g) /\ g.hour = d.hour /\ g.min = d.min /\ g.sec = 0 /\ g.ns = 0
    BY <1>1, <1>3, <1>4, <1>5, SetSec
  <1>7. SameDay(d, g) /\ g \in Calendar
    BY <1>3, <1>6, SameDayAgain DEF SameDay
  <1>8. PICK i : i = WithMin(g, 0)
    OBVIOUS
  <1>9. SameDay(g, i) /\ i.hour = d.hour /\ i.min = 0 /\ i.sec = 0 /\ i.ns = 0
    BY <1>1, <1>6, <1>7, <1>8, SetMin
  <1>10. SameDay(d, i)
    BY <1>7, <1>9, SameDayAgain
  <1> QED
    BY <1>2, <1>4, <1>6, <1>7, <1>8, <1>9, <1>10

LEMMA NextNanoIsNext ==
  ASSUME NEW d, IsDate(d), d.year < 2484 \/ d.month < 12 \/ d.day < 31
  PROVE  LET e == NextNano(d) IN
         /\ IsDate(e) /\ Nanos(e) = Nanos(d) + 1
         /\ e.year = d.year \/ (e.year = d.year + 1 /\ d.month = 12)
  <1>1. d \in Calendar
    BY DEF IsDate
  <1>2. PICK h \in Int, m \in Int, s \in Int, n \in Int :
           /\ d.hour = h /\ d.min = m /\ d.sec = s /\ d.ns = n
           /\ h \in 0 .. HoursPerDay - 1 /\ m \in 0 .. MinutesPerHour - 1
           /\ s \in 0 .. SecondsPerMinute - 1 /\ n \in 0 .. NanosPerSecond - 1
           /\ InDay(d) = h * PerHour + m * PerMinute + s * NanosPerSecond + n
    BY ClockFields
  <1>3. PICK e : e = NextNano(d)
    OBVIOUS
  <1>4. PICK dn \in Int : dn = Days(d)
    BY DateFields
  <1>5. /\ PerMinute \in Nat \ {0} /\ PerHour \in Nat \ {0} /\ PerDay \in Nat \ {0}
        /\ HoursPerDay \in Nat \ {0} /\ MinutesPerHour \in Nat \ {0}
        /\ SecondsPerMinute \in Nat \ {0} /\ NanosPerSecond \in Nat \ {0}
        /\ PerMinute = SecondsPerMinute * NanosPerSecond
        /\ PerHour = MinutesPerHour * PerMinute /\ PerDay = HoursPerDay * PerHour
    BY PerDayType, RadixAssumption DEF PerMinute, PerHour, PerDay
  <1>6. 0 \in Int /\ 0 \in 0 .. NanosPerSecond - 1 /\ 0 \in 0 .. SecondsPerMinute - 1
          /\ 0 \in 0 .. MinutesPerHour - 1 /\ 0 \in 0 .. HoursPerDay - 1
    BY <1>5
  <1>7. ASSUME NEW f, SameDay(d, f), NEW t \in Int, InDay(f) = t, e = f,
               t = h * PerHour + m * PerMinute + s * NanosPerSecond + n + 1
        PROVE  IsDate(e) /\ Nanos(e) = Nanos(d) + 1 /\ e.year = d.year
    <2>1. IsDate(e) /\ Days(e) = dn /\ e.year = d.year
      BY <1>4, <1>7, SameDayIsDate DEF SameDay
    <2>2. InDay(e) = InDay(d) + 1 /\ InDay(d) \in Int
      BY <1>2, <1>5, <1>7
    <2>3. dn * PerDay \in Int
      BY <1>5
    <2> QED
      BY <1>4, <2>1, <2>2, <2>3 DEF Nanos
  <1>8. CASE n + 1 < NanosPerSecond
    <2>1. e = WithNs(d, n + 1)
      BY <1>2, <1>3, <1>8 DEF NextNano, WithNs
    <2>2. PICK n1 \in Int : n1 = n + 1 /\ n1 \in 0 .. NanosPerSecond - 1
      BY <1>2, <1>5, <1>8
    <2>3. SameDay(d, e) /\ e.hour = h /\ e.min = m /\ e.sec = s /\ e.ns = n1
      BY <1>1, <1>2, <2>1, <2>2, SetNs
    <2>4. InDay(e) = h * PerHour + m * PerMinute + s * NanosPerSecond + n1
      BY <2>3 DEF InDay
    <2>5. PICK t \in Int : t = h * PerHour + m * PerMinute + s * NanosPerSecond + n1
      BY <1>5
    <2>6. t = h * PerHour + m * PerMinute + s * NanosPerSecond + n + 1
      BY <1>5, <2>2, <2>5
    <2> QED
      BY <1>3, <1>7, <2>3, <2>4, <2>5, <2>6
  <1>9. CASE ~(n + 1 < NanosPerSecond) /\ s + 1 < SecondsPerMinute
    <2>1. PICK f : f = WithNs(d, 0)
      OBVIOUS
    <2>2. SameDay(d, f) /\ f.hour = h /\ f.min = m /\ f.sec = s /\ f.ns = 0
      BY <1>1, <1>2, <1>6, <2>1, SetNs
    <2>3. PICK s1 \in Int : s1 = s + 1 /\ s1 \in 0 .. SecondsPerMinute - 1
      BY <1>2, <1>5, <1>9
    <2>4. e = WithSec(f, s1)
      BY <1>1, <1>2, <1>3, <1>9, <2>1, <2>3 DEF NextNano, WithSec, WithNs, Calendar
    <2>5. f \in Calendar
      BY <2>2 DEF SameDay
    <2>6. SameDay(f, e) /\ e.hour = h /\ e.min = m /\ e.sec = s1 /\ e.ns = 0
      BY <2>2, <2>3, <2>4, <2>5, SetSec
    <2>7. SameDay(d, e)
      BY <2>2, <2>6, SameDayAgain
    <2>8. PICK t \in Int : t = h * PerHour + m * PerMinute + s1 * NanosPerSecond + 0
      BY <1>5
    <2>9. InDay(e) = t
      BY <2>6, <2>8 DEF InDay
    <2>10. n + 1 = NanosPerSecond /\ s1 * NanosPerSecond = s * NanosPerSecond + NanosPerSecond
      BY <1>2, <1>5, <1>9, <2>3
    <2>11. t = h * PerHour + m * PerMinute + s * NanosPerSecond + n + 1
      BY <1>5, <2>3, <2>8, <2>10
    <2> QED
      BY <1>3, <1>7, <2>7, <2>9, <2>11
  <1>10. CASE ~(n + 1 < NanosPerSecond) /\ ~(s + 1 < SecondsPerMinute) /\ m + 1 < MinutesPerHour
    <2>1. PICK f : f = WithSec(WithNs(d, 0), 0)
      OBVIOUS
    <2>2. SameDay(d, f) /\ f.hour = h /\ f.min = m /\ f.sec = 0 /\ f.ns = 0
      BY <1>1, <1>2, <2>1, Truncated
    <2>3. PICK m1 \in Int : m1 = m + 1 /\ m1 \in 0 .. MinutesPerHour - 1
      BY <1>2, <1>5, <1>10
    <2>4. e = WithMin(f, m1)
      BY <1>1, <1>2, <1>3, <1>10, <2>1, <2>3 DEF NextNano, WithMin, WithSec, WithNs, Calendar
    <2>5. f \in Calendar
      BY <2>2 DEF SameDay
    <2>6. SameDay(f, e) /\ e.hour = h /\ e.min = m1 /\ e.sec = 0 /\ e.ns = 0
      BY <2>2, <2>3, <2>4, <2>5, SetMin
    <2>7. SameDay(d, e)
      BY <2>2, <2>6, SameDayAgain
    <2>8. PICK t \in Int : t = h * PerHour + m1 * PerMinute + 0 * NanosPerSecond + 0
      BY <1>5
    <2>9. InDay(e) = t
      BY <2>6, <2>8 DEF InDay
    <2>10. n + 1 = NanosPerSecond /\ s + 1 = SecondsPerMinute
      BY <1>2, <1>5, <1>10
    <2>11. s * NanosPerSecond + NanosPerSecond = PerMinute /\ m1 * PerMinute = m * PerMinute + PerMinute
      BY <1>5, <2>3, <2>10
    <2>12. t = h * PerHour + m * PerMinute + s * NanosPerSecond + n + 1
      BY <1>5, <2>3, <2>8, <2>10, <2>11
    <2> QED
      BY <1>3, <1>7, <2>7, <2>9, <2>12
  <1>11. CASE /\ ~(n + 1 < NanosPerSecond) /\ ~(s + 1 < SecondsPerMinute)
              /\ ~(m + 1 < MinutesPerHour)
    <2>1. PICK f : f = WithMin(WithSec(WithNs(d, 0), 0), 0)
      OBVIOUS
    <2>2. SameDay(d, f) /\ f.hour = h /\ f.min = 0 /\ f.sec = 0 /\ f.ns = 0
      BY <1>1, <1>2, <2>1, Truncated
    <2>3. f \in Calendar
      BY <2>2 DEF SameDay
    <2>4. n + 1 = NanosPerSecond /\ s + 1 = SecondsPerMinute /\ m + 1 = MinutesPerHour
      BY <1>2, <1>5, <1>11
    <2>5. s * NanosPerSecond + NanosPerSecond = PerMinute /\ m * PerMinute + PerMinute = PerHour
      BY <1>5, <2>4
    <2>6. m * PerMinute + s * NanosPerSecond + n + 1 = PerHour
      BY <1>5, <2>4, <2>5
    <2>7. CASE h + 1 < HoursPerDay
      <3>1. PICK h1 \in Int : h1 = h + 1 /\ h1 \in 0 .. HoursPerDay - 1
        BY <1>2, <1>5, <2>7
      <3>2. e = WithHour(f, h1)
        BY <1>1, <1>2, <1>3, <1>11, <2>1, <2>7, <3>1
           DEF NextNano, WithHour, WithMin, WithSec, WithNs, Calendar
      <3>3. SameDay(f, e) /\ e.hour = h1 /\ e.min = 0 /\ e.sec = 0 /\ e.ns = 0
        BY <2>2, <2>3, <3>1, <3>2, SetHour
      <3>4. SameDay(d, e)
        BY <2>2, <3>3, SameDayAgain
      <3>5. PICK t \in Int : t = h1 * PerHour + 0 * PerMinute + 0 * NanosPerSecond + 0
        BY <1>5
      <3>6. InDay(e) = t
        BY <3>3, <3>5 DEF InDay
      <3>7. h1 * PerHour = h * PerHour + PerHour
        BY <1>5, <3>1
      <3>8. t = h * PerHour + m * PerMinute + s * NanosPerSecond + n + 1
        BY <1>5, <2>6, <3>1, <3>5, <3>7
      <3> QED
        BY <1>3, <1>7, <3>4, <3>6, <3>8
    <2>8. CASE ~(h + 1 < HoursPerDay)
      <3>1. PICK g : g = WithHour(f, 0)
        OBVIOUS
      <3>2. SameDay(f, g) /\ g.hour = 0 /\ g.min = 0 /\ g.sec = 0 /\ g.ns = 0
        BY <1>6, <2>2, <2>3, <3>1, SetHour
      <3>3. SameDay(d, g)
        BY <2>2, <3>2, SameDayAgain
      <3>4. IsDate(g) /\ Days(g) = dn
        BY <1>4, <3>3, SameDayIsDate
      <3>5. InDay(g) = 0
        BY <1>5, <3>2 DEF InDay
      <3>6. e = NextDay(g)
        BY <1>1, <1>2, <1>3, <1>11, <2>1, <2>8, <3>1
           DEF NextNano, WithHour, WithMin, WithSec, WithNs, Calendar
      <3>7. g.year = d.year /\ g.month = d.month /\ g.day = d.day
        BY <3>3 DEF SameDay
      <3>8. /\ IsDate(e) /\ Days(e) = dn + 1 /\ InDay(e) = 0
            /\ e.year = d.year \/ (e.year = d.year + 1 /\ d.month = 12)
        BY <3>4, <3>5, <3>6, <3>7, NextDayIsNext
      <3>9. h * PerHour + PerHour = PerDay
        <4>1. h + 1 = HoursPerDay
          BY <1>2, <1>5, <2>8
        <4> QED
          BY <1>5, <4>1
      <3>10. InDay(d) + 1 = PerDay
        BY <1>2, <1>5, <2>6, <3>9
      <3>11. (dn + 1) * PerDay + 0 = dn * PerDay + InDay(d) + 1
        BY <1>2, <1>5, <3>10
      <3>12. Nanos(e) = Nanos(d) + 1
        BY <1>4, <3>8, <3>11 DEF Nanos
      <3> QED
        BY <1>3, <3>8, <3>12
    <2> QED
      BY <2>7, <2>8
  <1> QED
    BY <1>8, <1>9, <1>10, <1>11

-----------------------------------------------------------------------------
(* From the calendar: the number of nanoseconds up to a date. *)

LEMMA FromDate ==
  ASSUME NEW d, IsDate(d), Nanos(d) < Limit, NEW old
  PROVE  FromCalendarTime(d, old) = Nanos(d)
  <1>1. d.year \in 1900 .. 2484 /\ d.month \in 1 .. 12
    BY DEF IsDate, Calendar
  <1>2. PICK dn \in Nat : dn = Days(d)
    BY DateFields
  <1>3. PICK h \in Int, m \in Int, s \in Int, n \in Int :
           /\ d.hour = h /\ d.min = m /\ d.sec = s /\ d.ns = n
           /\ InDay(d) = h * PerHour + m * PerMinute + s * NanosPerSecond + n
    BY ClockFields
  <1>4. InDay(d) \in Nat
    BY InDayType, PerDayType
  <1>5. dn * PerDay + h * PerHour + m * PerMinute + s * NanosPerSecond + n = Nanos(d)
    BY <1>2, <1>3, PerDayType DEF Nanos
  <1>6. FromCalendarTime(d, old) = Wrapped(Nanos(d))
    BY <1>1, <1>2, <1>3, <1>5 DEF FromCalendarTime, Days
  <1>7. Nanos(d) \in Int /\ -Limit <= Nanos(d)
    BY <1>2, <1>4, PerDayType, LimitAssumption DEF Nanos
  <1> QED
    BY <1>6, <1>7, WrappedIs

(* The first moment of a month. *)
StartOf(year, m) ==
  [year |-> year, month |-> m, day |-> 1, hour |-> 0, min |-> 0, sec |-> 0, ns |-> 0]

LEMMA FromStart ==
  ASSUME NEW year \in Int, year \in 1900 .. 2484, NEW y \in Int, y = year - 1900,
         NEW m \in Int, m \in 1 .. 12, NEW old
  PROVE  LET dn == 365 * y + LeapDays(y - 1) + MonthStart(y, m) IN
         dn * PerDay < Limit => FromCalendarTime(StartOf(year, m), old) = dn * PerDay
  <1>1. PICK d : d = StartOf(year, m)
    OBVIOUS
  <1>2. /\ d.year = year /\ d.month = m /\ d.day = 1
        /\ d.hour = 0 /\ d.min = 0 /\ d.sec = 0 /\ d.ns = 0
    BY <1>1 DEF StartOf
  <1>3. d \in Calendar
    BY <1>1, RadixAssumption DEF StartOf, Calendar
  <1>4. DaysIn(year, m) \in 28 .. 31
    BY DaysInType
  <1>5. IsDate(d)
    BY <1>2, <1>3, <1>4 DEF IsDate
  <1>6. PICK k \in Int : k \in 1 .. 31 /\ k = 1
    OBVIOUS
  <1>7. Days(d) = 365 * y + LeapDays(y - 1) + MonthStart(y, m) + (k - 1)
    BY <1>2, <1>6, DaysAre
  <1>8. PICK dn \in Int : dn = 365 * y + LeapDays(y - 1) + MonthStart(y, m)
    <2>1. y - 1 \in Int
      OBVIOUS
    <2>2. LeapDays(y - 1) \in Int
      BY <2>1, LeapDaysGrow
    <2>3. MonthStart(y, m) \in Int
      <3>1. LeapDay(y) \in Int
        BY DEF LeapDay
      <3>2. DaysBefore[m] \in Int
        BY DaysBeforeIs
      <3> QED
        BY <3>1, <3>2 DEF MonthStart
    <2> QED
      BY <2>2, <2>3
  <1>9. Days(d) = dn /\ 365 * y + LeapDays(y - 1) + MonthStart(y, m) = dn
    BY <1>6, <1>7, <1>8
  <1>10. InDay(d) = 0
    BY <1>2, PerDayType DEF InDay
  <1>11. Nanos(d) = dn * PerDay
    BY <1>9, <1>10, PerDayType DEF Nanos
  <1>12. ASSUME Nanos(d) < Limit
         PROVE  FromCalendarTime(d, old) = Nanos(d)
    BY <1>5, <1>12, FromDate
  <1> QED
    BY <1>1, <1>9, <1>11, <1>12

-----------------------------------------------------------------------------
(* Back to the calendar. *)

(* ApproximateYear is the quotient that the code computes. *)
LEMMA ApproximateYearIs ==
  ASSUME NEW t \in Nat
  PROVE  LET a == ApproximateYear(t) IN
         a \in Nat /\ a * (36525637 * PerDay) <= 100000 * t
                   /\ 100000 * t < (a + 1) * (36525637 * PerDay)
  <1>1. PICK p \in Nat \ {0} : p = PerDay
    BY SMT, PerDayType
  <1>2. PICK b \in Nat \ {0} : b = 36525637 * p
    BY SMT
  <1>3. PICK a \in Int : a = (100000 * t) \div b /\ a * b <= 100000 * t /\ 100000 * t < a * b + b
    <2>1. 100000 * t \in Int
      BY SMT
    <2> QED
      BY SMT, <2>1, Quotient
  <1>4. a \in Nat
    <2>1. ASSUME a <= -1
          PROVE  FALSE
      <3>1. a * b <= -b
        BY SMT, <2>1
      <3> QED
        BY SMT, <1>3, <3>1
    <2> QED
      BY SMT, <2>1
  <1>5. ASSUME NEW n \in Int
        PROVE  n * 25637 * p <= (t - n * 365 * p) * 100000 <=> n * b <= 100000 * t
    <2>1. PICK w \in Int : w = n * p
      BY SMT
    <2>2. n * 25637 * p = 25637 * w /\ n * 365 * p = 365 * w /\ n * b = 36525637 * w
      BY SMT, <1>2, <2>1
    <2> QED
      BY SMT, <2>2
  <1>6. PICK lo \in Int, hi \in Int :
          /\ lo = t \div (366 * p) /\ hi = t \div (365 * p)
          /\ lo * (366 * p) <= t /\ t < hi * (365 * p) + 365 * p
    <2>1. PICK u \in Nat \ {0}, v \in Nat \ {0} : u = 366 * p /\ v = 365 * p
      BY SMT
    <2>2. t \in Int
      BY SMT
    <2>3. t \div u \in Int /\ (t \div u) * u <= t
      <3>1. t % u \in Int /\ t \div u \in Int /\ t = (t \div u) * u + (t % u) /\ 0 <= t % u
        BY SMT, <2>2, Quotient
      <3> QED
        BY SMT, <3>1
    <2>4. t \div v \in Int /\ t < (t \div v) * v + v
      <3>1. t % v \in Int /\ t \div v \in Int /\ t = (t \div v) * v + (t % v) /\ t % v < v
        BY SMT, <2>2, Quotient
      <3> QED
        BY SMT, <3>1
    <2> QED
      BY SMT, <2>1, <2>3, <2>4
  <1>7. lo <= a
    <2>1. ASSUME a + 1 <= lo
          PROVE  FALSE
      <3>1. (a + 1) * (366 * p) <= lo * (366 * p)
        BY SMT, <2>1
      <3>2. PICK w \in Int : w = (a + 1) * p /\ w >= 0
        BY SMT, <1>4
      <3>3. (a + 1) * (366 * p) = 366 * w /\ a * b + b = 36525637 * w
        BY SMT, <1>2, <3>2
      <3> QED
        BY SMT, <1>3, <1>6, <3>1, <3>2, <3>3
    <2> QED
      BY SMT, <2>1
  <1>8. a <= hi
    <2>1. ASSUME hi + 1 <= a
          PROVE  FALSE
      <3>1. (hi + 1) * (365 * p) <= a * (365 * p) /\ hi * (365 * p) + 365 * p = (hi + 1) * (365 * p)
        BY SMT, <2>1
      <3>2. PICK w \in Int : w = a * p /\ w >= 0
        BY SMT, <1>4
      <3>3. a * (365 * p) = 365 * w /\ a * b = 36525637 * w
        BY SMT, <1>2, <3>2
      <3> QED
        BY SMT, <1>3, <1>6, <3>1, <3>2, <3>3
    <2> QED
      BY SMT, <2>1
  <1>9. ASSUME NEW n \in Int, n * b <= 100000 * t
        PROVE  n <= a
    <2>1. ASSUME a + 1 <= n
          PROVE  FALSE
      <3>1. (a + 1) * b <= n * b /\ (a + 1) * b = a * b + b
        BY SMT, <2>1
      <3> QED
        BY SMT, <1>3, <1>9, <3>1
    <2> QED
      BY SMT, <2>1
  <1> DEFINE S == {n \in lo .. hi : n * 25637 * p <= (t - n * 365 * p) * 100000}
  <1>10. \A n \in Int : n \in S <=> lo <= n /\ n <= hi /\ n * b <= 100000 * t
    BY SMT, <1>5
  <1>11. S \in SUBSET Int /\ a \in S /\ \A n \in S : n <= a
    <2>1. S \in SUBSET Int
      BY SMT
    <2> HIDE DEF S
    <2> QED
      BY SMT, <1>3, <1>7, <1>8, <1>9, <1>10, <2>1
  <1> HIDE DEF S
  <1>12. Max(S) = a
    BY SMT, <1>11, MaxIs
  <1>13. ApproximateYear(t) = a
    BY SMT, <1>1, <1>6, <1>12 DEF ApproximateYear, S
  <1>14. (a + 1) * b = a * b + b
    BY SMT
  <1> QED
    BY SMT, <1>1, <1>2, <1>3, <1>4, <1>13, <1>14

(* The one correction of the approximate year is enough: on the first day of a
   leap year it is not too large yet, on the last day it is not too small any
   more. *)
LEMMA CorrectedYear ==
  ASSUME NEW y \in Int, y \in 0 .. 584, NEW k \in Int, 0 <= k, k < 365 + LeapDay(y),
         NEW a \in Int,
         a * 36525637 < 100000 * (365 * y + LeapDays(y - 1) + k + 1),
         100000 * (365 * y + LeapDays(y - 1) + k) < (a + 1) * 36525637
  PROVE  0 <= LeapDays(y - 1) + k - LeapDays(a) /\ LeapDays(y - 1) + k - LeapDays(a) < 365
  BY SMTT(60) DEF LeapDays, LeapDay, IsLeap

(* A day and a part of a day before a number of days. *)
LEMMA BeforeDay ==
  ASSUME NEW p \in Nat \ {0}, NEW k \in Int, NEW r \in Int, 0 <= r, r < p, NEW n \in Int
  PROVE  k * p + r < n * p <=> k < n
  <1>1. ASSUME k < n
        PROVE  k * p + r < n * p
    <2>1. (k + 1) * p <= n * p /\ (k + 1) * p = k * p + p
      BY <1>1
    <2> QED
      BY <2>1
  <1>2. ASSUME n <= k
        PROVE  n * p <= k * p + r
    <2>1. n * p <= k * p
      BY <1>2
    <2> QED
      BY <2>1
  <1>3. k * p \in Int /\ n * p \in Int
    OBVIOUS
  <1> QED
    BY <1>1, <1>2, <1>3

(* The end of a month that toCalendarTime compares with. *)
UpTo(y, m) ==
  IF m = 1 THEN 31 ELSE IF m = 12 THEN 365 + LeapDay(y) ELSE DaysBefore[m + 1] + LeapDay(y)

LEMMA UpToIs ==
  ASSUME NEW year \in Int, year \in 1900 .. 2484, NEW y \in Int, y = year - 1900,
         NEW m \in Int, m \in 1 .. 12
  PROVE  /\ UpTo(y, m) = MonthStart(y, m) + DaysIn(year, m)
         /\ \A j \in Int : j \in 1 .. 12 /\ j < m => UpTo(y, j) <= MonthStart(y, m)
         /\ \A j \in Int : j \in 1 .. 12 => UpTo(y, j) \in Int
         /\ UpTo(y, m) <= 365 + LeapDay(y)
  <1>1. PICK l \in {0, 1} : l = LeapDay(y)
    BY LeapDaysGrow
  <1>2. /\ UpTo(y, 1) = 31       /\ UpTo(y, 2) = 59 + l  /\ UpTo(y, 3) = 90 + l
        /\ UpTo(y, 4) = 120 + l  /\ UpTo(y, 5) = 151 + l /\ UpTo(y, 6) = 181 + l
        /\ UpTo(y, 7) = 212 + l  /\ UpTo(y, 8) = 243 + l /\ UpTo(y, 9) = 273 + l
        /\ UpTo(y, 10) = 304 + l /\ UpTo(y, 11) = 334 + l /\ UpTo(y, 12) = 365 + l
    BY <1>1, DaysBeforeIs DEF UpTo
  <1>3. /\ MonthStart(y, 1) = 0 /\ MonthStart(y, 2) = 31
        /\ MonthStart(y, 3) = 59 + l   /\ MonthStart(y, 4) = 90 + l
        /\ MonthStart(y, 5) = 120 + l  /\ MonthStart(y, 6) = 151 + l
        /\ MonthStart(y, 7) = 181 + l  /\ MonthStart(y, 8) = 212 + l
        /\ MonthStart(y, 9) = 243 + l  /\ MonthStart(y, 10) = 273 + l
        /\ MonthStart(y, 11) = 304 + l /\ MonthStart(y, 12) = 334 + l
    BY <1>1, DaysBeforeIs DEF MonthStart
  <1>4. /\ m < 12 => UpTo(y, m) = MonthStart(y, m + 1)
        /\ m = 12 => UpTo(y, m) = 365 + l
    BY <1>2, <1>3
  <1>5. UpTo(y, m) = MonthStart(y, m) + DaysIn(year, m)
    BY <1>1, <1>4, MonthLength
  <1>6. \A j \in Int : j \in 1 .. 12 => UpTo(y, j) \in Int
    BY <1>2
  <1>7. \A j \in Int : j \in 1 .. 12 /\ j < m => UpTo(y, j) <= MonthStart(y, m)
    BY <1>2, <1>3
  <1>8. UpTo(y, m) <= 365 + l
    BY <1>2
  <1> QED
    BY <1>1, <1>5, <1>6, <1>7, <1>8

LEMMA Cancel ==
  ASSUME NEW p \in Nat \ {0}, NEW x \in Int, NEW z \in Int, x * p < z * p
  PROVE  x < z
  <1>1. ASSUME z <= x
        PROVE  FALSE
    <2>1. z * p <= x * p
      BY <1>1
    <2> QED
      BY <2>1
  <1> QED
    BY <1>1

(* A moment dn days and r nanoseconds after 1900, and the approximation of its
   year. *)
LEMMA DaysApproximated ==
  ASSUME NEW p \in Nat \ {0}, NEW a \in Int, NEW dn \in Int, NEW r \in Int, NEW t \in Int
  PROVE  (/\ 0 <= r /\ r < p /\ t = dn * p + r
          /\ a * (36525637 * p) <= 100000 * t
          /\ 100000 * t < (a + 1) * (36525637 * p))
         => (/\ a * 36525637 < 100000 * (dn + 1)
             /\ 100000 * dn < (a + 1) * 36525637)
  <1>1. PICK u \in Int, v \in Int, w \in Int, x \in Int :
          u = a * 36525637 /\ v = (a + 1) * 36525637 /\ w = 100000 * (dn + 1) /\ x = 100000 * dn
    BY SMT
  <1>2. PICK e \in Int : e = dn * p
    BY SMT
  <1>3. u * p = a * (36525637 * p) /\ v * p = (a + 1) * (36525637 * p)
    BY SMT, <1>1
  <1>4. w * p = 100000 * e + 100000 * p /\ x * p = 100000 * e
    BY SMT, <1>1, <1>2
  <1>5. ASSUME 0 <= r, r < p, t = e + r, u * p <= 100000 * t, 100000 * t < v * p
        PROVE  u < w /\ x < v
    <2>1. PICK up \in Int, wp \in Int, xp \in Int, vp \in Int :
            up = u * p /\ wp = w * p /\ xp = x * p /\ vp = v * p
      BY SMT
    <2>2. wp = 100000 * e + 100000 * p /\ xp = 100000 * e
      BY SMT, <1>4, <2>1
    <2>3. up <= 100000 * t /\ 100000 * t < vp
      BY SMT, <1>5, <2>1
    <2>4. up < wp /\ xp < vp
      BY SMT, <1>5, <2>2, <2>3
    <2>5. u * p < w * p /\ x * p < v * p
      BY SMT, <2>1, <2>4
    <2> QED
      BY SMT, <2>5, Cancel
  <1> QED
    BY SMT, <1>1, <1>2, <1>3, <1>5

LEMMA YearQuotient ==
  ASSUME NEW p \in Nat \ {0}, NEW y \in Int, NEW s \in Int, NEW l \in Int,
         NEW r \in Int, NEW t \in Int
  PROVE  (/\ 0 <= s /\ s < 365 /\ 0 <= r /\ r < p
          /\ t = (365 * y + s + l) * p + r)
         => (t - l * p) \div (365 * p) = y
  <1>1. PICK yp \in Int, sp \in Int, lp \in Int : yp = y * p /\ sp = s * p /\ lp = l * p
    OBVIOUS
  <1>2. (365 * y + s + l) * p = 365 * yp + sp + lp /\ y * (365 * p) = 365 * yp
    BY <1>1
  <1>3. ASSUME 0 <= s, s < 365
        PROVE  0 <= sp /\ sp + p <= 365 * p
    <2>1. PICK n \in Nat : n = 364 - s
      BY <1>3
    <2>2. n * p >= 0 /\ s * p >= 0
      BY <1>3
    <2>3. n * p = 364 * p - s * p
      BY <2>1
    <2> QED
      BY <1>1, <2>2, <2>3
  <1>4. PICK b \in Nat \ {0} : b = 365 * p
    OBVIOUS
  <1>5. PICK c \in Int : c = t - lp
    BY <1>1
  <1>6. ASSUME 0 <= s, s < 365, 0 <= r, r < p, t = 365 * yp + sp + lp + r
        PROVE  c \div b = y
    <2>1. PICK yb \in Int : yb = y * b
      OBVIOUS
    <2>2. yb = 365 * yp
      BY <1>2, <1>4, <2>1
    <2>3. 0 <= sp /\ sp + p <= b
      BY <1>3, <1>4, <1>6
    <2>4. yb <= c /\ c < yb + b
      BY <1>5, <1>6, <2>2, <2>3
    <2>5. y * b <= c /\ c < y * b + b
      BY <2>1, <2>4
    <2> QED
      BY <2>5, QuotientIs
  <1> QED
    BY <1>1, <1>2, <1>4, <1>5, <1>6

(* The year of a moment: k days of it are over and a part r of the next one. *)
LEMMA YearOf ==
  ASSUME NEW y \in Int, y \in 0 .. 584, NEW k \in Int, 0 <= k, k < 365 + LeapDay(y),
         NEW r \in Int, NEW dn \in Int, NEW t \in Nat
  PROVE  (/\ 0 <= r /\ r < PerDay
          /\ dn = 365 * y + LeapDays(y - 1) + k
          /\ t = dn * PerDay + r)
         => (t - LeapDays(ApproximateYear(t)) * PerDay) \div (365 * PerDay) = y
  <1>1. PICK p \in Nat \ {0} : p = PerDay
    BY SMT, PerDayType
  <1>2. PICK a \in Nat : /\ a = ApproximateYear(t) /\ a * (36525637 * p) <= 100000 * t
                         /\ 100000 * t < (a + 1) * (36525637 * p)
    BY SMT, <1>1, ApproximateYearIs
  <1>3. PICK before \in Int, l \in Int : before = LeapDays(y - 1) /\ l = LeapDays(a)
    <2>1. y - 1 \in Int /\ a \in Int
      BY SMT
    <2> QED
      BY SMT, <2>1, LeapDaysGrow
  <1>4. ASSUME 0 <= r, r < p, dn = 365 * y + before + k, t = dn * p + r
        PROVE  (t - l * p) \div (365 * p) = y
    <2>1. a * 36525637 < 100000 * (dn + 1) /\ 100000 * dn < (a + 1) * 36525637
      BY SMT, <1>2, <1>4, DaysApproximated
    <2>2. PICK s \in Int : s = before + k - l
      BY SMT
    <2>3. 0 <= s /\ s < 365
      <3>1. dn + 1 = 365 * y + before + k + 1
        BY SMT, <1>4
      <3>2. a * 36525637 < 100000 * (365 * y + before + k + 1)
        BY SMT, <2>1, <3>1
      <3>3. 100000 * (365 * y + before + k) < (a + 1) * 36525637
        BY SMT, <1>4, <2>1
      <3>4. a \in Int
        BY SMT
      <3>5. 0 <= before + k - l /\ before + k - l < 365
        BY SMT, <1>3, <3>2, <3>3, <3>4, CorrectedYear
      <3> QED
        BY SMT, <2>2, <3>5
    <2>4. dn = 365 * y + s + l
      BY SMT, <1>4, <2>2
    <2>5. t = (365 * y + s + l) * p + r
      BY SMT, <1>4, <2>4
    <2> QED
      BY SMT, <1>4, <2>3, <2>5, YearQuotient
  <1> QED
    BY SMT, <1>1, <1>2, <1>3, <1>4

(* The month of that moment. *)
LEMMA MonthOf ==
  ASSUME NEW year \in Int, year \in 1900 .. 2484, NEW y \in Int, y = year - 1900,
         NEW m \in Int, m \in 1 .. 12, NEW k \in Int, k \in 1 .. DaysIn(year, m),
         NEW r \in Int, 0 <= r, r < PerDay, NEW rest \in Int,
         rest = (MonthStart(y, m) + (k - 1)) * PerDay + r
  PROVE  Min({j \in 1 .. 12 : rest < UpTo(y, j) * PerDay}) = m
  <1>1. PICK p \in Nat \ {0} : p = PerDay
    BY PerDayType
  <1>2. /\ UpTo(y, m) = MonthStart(y, m) + DaysIn(year, m)
        /\ \A j \in Int : j \in 1 .. 12 /\ j < m => UpTo(y, j) <= MonthStart(y, m)
        /\ \A j \in Int : j \in 1 .. 12 => UpTo(y, j) \in Int
    BY UpToIs
  <1>3. MonthStart(y, m) \in Int /\ DaysIn(year, m) \in 28 .. 31
    BY MonthLength
  <1>4. PICK q \in Int : q = MonthStart(y, m) + (k - 1)
    BY <1>3
  <1>5. \A j \in Int : j \in 1 .. 12 => (rest < UpTo(y, j) * PerDay <=> q < UpTo(y, j))
    <2> SUFFICES ASSUME NEW j \in Int, j \in 1 .. 12
                 PROVE  rest < UpTo(y, j) * PerDay <=> q < UpTo(y, j)
      OBVIOUS
    <2>1. PICK n \in Int : n = UpTo(y, j)
      BY <1>2
    <2>2. q * p + r < n * p <=> q < n
      BY <1>1, BeforeDay
    <2> QED
      BY <1>1, <1>4, <2>1, <2>2
  <1> DEFINE S == {j \in 1 .. 12 : rest < UpTo(y, j) * PerDay}
  <1>6. S \in SUBSET Int /\ \A j \in Int : j \in S <=> j \in 1 .. 12 /\ q < UpTo(y, j)
    BY <1>5
  <1> HIDE DEF S
  <1>7. m \in S
    BY <1>2, <1>3, <1>4, <1>6
  <1>8. \A j \in S : m <= j
    BY <1>2, <1>3, <1>4, <1>6
  <1>9. Min(S) = m
    BY <1>6, <1>7, <1>8, MinIs
  <1> QED
    BY <1>9 DEF S

(* The fields of a moment within a day. *)
LEMMA TimeOfDay ==
  ASSUME NEW q \in Int, NEW d, IsDate(d), NEW i \in Int
  PROVE  i = q * PerDay + InDay(d) =>
           /\ i \div PerDay = q
           /\ (i % PerDay) \div PerHour = d.hour
           /\ (i % PerHour) \div PerMinute = d.min
           /\ (i % PerMinute) \div NanosPerSecond = d.sec
           /\ i % NanosPerSecond = d.ns
  <1>0. SUFFICES ASSUME i = q * PerDay + InDay(d)
               PROVE  /\ i \div PerDay = q
                      /\ (i % PerDay) \div PerHour = d.hour
                      /\ (i % PerHour) \div PerMinute = d.min
                      /\ (i % PerMinute) \div NanosPerSecond = d.sec
                      /\ i % NanosPerSecond = d.ns
    OBVIOUS
  <1>1. PICK h \in Int, m \in Int, s \in Int, n \in Int :
           /\ d.hour = h /\ d.min = m /\ d.sec = s /\ d.ns = n
           /\ h \in 0 .. HoursPerDay - 1 /\ m \in 0 .. MinutesPerHour - 1
           /\ s \in 0 .. SecondsPerMinute - 1 /\ n \in 0 .. NanosPerSecond - 1
           /\ InDay(d) = h * PerHour + m * PerMinute + s * NanosPerSecond + n
    BY ClockFields
  <1>2. PICK H \in Nat \ {0}, M \in Nat \ {0}, S \in Nat \ {0}, N \in Nat \ {0} :
          H = HoursPerDay /\ M = MinutesPerHour /\ S = SecondsPerMinute /\ N = NanosPerSecond
    BY RadixAssumption
  <1>3. PICK pm \in Nat \ {0}, ph \in Nat \ {0}, pd \in Nat \ {0} :
          /\ pm = PerMinute /\ ph = PerHour /\ pd = PerDay
          /\ pm = S * N /\ ph = M * pm /\ pd = H * ph
    BY <1>2, PerDayType DEF PerMinute, PerHour, PerDay
  <1>4. PICK x \in Int : x = s * N + n /\ 0 <= x /\ x < pm
    <2>1. 0 <= s * N /\ (s + 1) * N <= S * N /\ (s + 1) * N = s * N + N
      BY <1>1, <1>2
    <2> QED
      BY <1>1, <1>2, <1>3, <2>1
  <1>5. PICK z \in Int : z = m * pm + x /\ 0 <= z /\ z < ph
    <2>1. 0 <= m * pm /\ (m + 1) * pm <= M * pm /\ (m + 1) * pm = m * pm + pm
      BY <1>1, <1>2
    <2> QED
      BY <1>3, <1>4, <2>1
  <1>6. PICK w \in Int : w = h * ph + z /\ 0 <= w /\ w < pd
    <2>1. 0 <= h * ph /\ (h + 1) * ph <= H * ph /\ (h + 1) * ph = h * ph + ph
      BY <1>1, <1>2
    <2> QED
      BY <1>3, <1>5, <2>1
  <1>7. i = q * pd + w
    BY <1>0, <1>1, <1>2, <1>3, <1>4, <1>5, <1>6
  <1>8. i \div pd = q /\ i % pd = w
    BY <1>6, <1>7, QuotientOf
  <1>9. w \div ph = h
    BY <1>5, <1>6, QuotientOf
  <1>10. PICK qh \in Int : qh = q * H + h /\ i = qh * ph + z
    <2>1. q * pd = (q * H) * ph /\ (q * H + h) * ph = (q * H) * ph + h * ph
      BY <1>3
    <2> QED
      BY <1>6, <1>7, <2>1
  <1>11. i % ph = z
    <2>1. 0 <= z /\ z < ph
      BY <1>5
    <2>2. (qh * ph + z) % ph = z
      BY <2>1, QuotientOf
    <2> QED
      BY <1>10, <2>2
  <1>12. z \div pm = m
    BY <1>4, <1>5, QuotientOf
  <1>13. PICK qm \in Int : qm = qh * M + m /\ i = qm * pm + x
    <2>1. qh * ph = (qh * M) * pm /\ (qh * M + m) * pm = (qh * M) * pm + m * pm
      BY <1>3
    <2> QED
      BY <1>5, <1>10, <2>1
  <1>14. i % pm = x
    <2>1. 0 <= x /\ x < pm
      BY <1>4
    <2>2. (qm * pm + x) % pm = x
      BY <2>1, QuotientOf
    <2> QED
      BY <1>13, <2>2
  <1>15. 0 <= n /\ n < N
    BY <1>1, <1>2
  <1>16. x \div N = s
    BY <1>4, <1>15, QuotientOf
  <1>17. PICK qs \in Int : qs = qm * S + s /\ i = qs * N + n
    <2>1. qm * pm = (qm * S) * N /\ (qm * S + s) * N = (qm * S) * N + s * N
      BY <1>3
    <2> QED
      BY <1>4, <1>13, <2>1
  <1>18. i % N = n
    <2>1. 0 <= n /\ n < N
      BY <1>15
    <2>2. (qs * N + n) % N = n
      BY <2>1, QuotientOf
    <2> QED
      BY <1>17, <2>2
  <1> QED
    BY <1>1, <1>2, <1>3, <1>8, <1>9, <1>11, <1>12, <1>14, <1>16, <1>18

(* A date as the record of its fields. *)
LEMMA DateRecord ==
  ASSUME NEW d, IsDate(d)
  PROVE  d = [year |-> d.year, month |-> d.month, day |-> d.day,
              hour |-> d.hour, min |-> d.min, sec |-> d.sec, ns |-> d.ns]
  BY DEF IsDate, Calendar

(* What toCalendarTime computes once it has found the year and the month. *)
LEMMA ToCalendarTimeIs ==
  ASSUME NEW t, NEW y, NEW month, NEW rest, NEW i
  PROVE  (/\ y = (t - LeapDays(ApproximateYear(t)) * PerDay) \div (365 * PerDay)
          /\ rest = t - FromCalendarTime(StartOf(y + 1900, 1), 0)
          /\ month = Min({j \in 1 .. 12 : rest < UpTo(y, j) * PerDay})
          /\ i = t - FromCalendarTime(StartOf(y + 1900, month), 0))
         => ToCalendarTime(t) =
              [year |-> y + 1900, month |-> month, day |-> i \div PerDay + 1,
               hour |-> (i % PerDay) \div PerHour, min |-> (i % PerHour) \div PerMinute,
               sec |-> (i % PerMinute) \div NanosPerSecond, ns |-> i % NanosPerSecond]
  <1> DEFINE y0     == (t - LeapDays(ApproximateYear(t)) * PerDay) \div (365 * PerDay)
             rest0  == t - FromCalendarTime(StartOf(y0 + 1900, 1), 0)
             month0 == Min({j \in 1 .. 12 : rest0 < UpTo(y0, j) * PerDay})
             i0     == t - FromCalendarTime(StartOf(y0 + 1900, month0), 0)
  <1>1. ToCalendarTime(t) =
          [year |-> y0 + 1900, month |-> month0, day |-> i0 \div PerDay + 1,
           hour |-> (i0 % PerDay) \div PerHour, min |-> (i0 % PerHour) \div PerMinute,
           sec |-> (i0 % PerMinute) \div NanosPerSecond, ns |-> i0 % NanosPerSecond]
    BY Zenon DEF ToCalendarTime, NewYear, StartOf, UpTo, LeapDay
  <1>2. /\ y0 = (t - LeapDays(ApproximateYear(t)) * PerDay) \div (365 * PerDay)
        /\ rest0 = t - FromCalendarTime(StartOf(y0 + 1900, 1), 0)
        /\ month0 = Min({j \in 1 .. 12 : rest0 < UpTo(y0, j) * PerDay})
        /\ i0 = t - FromCalendarTime(StartOf(y0 + 1900, month0), 0)
    BY Zenon
  <1> HIDE DEF y0, rest0, month0, i0
  <1>3. ASSUME y = (t - LeapDays(ApproximateYear(t)) * PerDay) \div (365 * PerDay),
               rest = t - FromCalendarTime(StartOf(y + 1900, 1), 0),
               month = Min({j \in 1 .. 12 : rest < UpTo(y, j) * PerDay}),
               i = t - FromCalendarTime(StartOf(y + 1900, month), 0)
        PROVE  y = y0 /\ month = month0 /\ i = i0
    <2>1. y = y0
      BY SMT, <1>2, <1>3
    <2>2. rest = rest0
      BY SMT, <1>2, <1>3, <2>1
    <2>3. month = month0
      BY SMT, <1>2, <1>3, <2>1, <2>2
    <2> QED
      BY SMT, <1>2, <1>3, <2>1, <2>3
  <1> QED
    BY SMT, <1>1, <1>3

(* toCalendarTime takes the nanoseconds up to a date back to the date. *)
LEMMA ToDate ==
  ASSUME NEW d, IsDate(d), Nanos(d) < Limit
  PROVE  ToCalendarTime(Nanos(d)) = d
  <1>1. PICK year \in Int, m \in Int, k \in Int, y \in Int :
           /\ year \in 1900 .. 2484 /\ m \in 1 .. 12 /\ k \in 1 .. 31 /\ y \in 0 .. 584
           /\ d.year = year /\ d.month = m /\ d.day = k /\ y = year - 1900
           /\ k <= DaysIn(year, m) /\ DaysIn(year, m) \in 28 .. 31
           /\ LeapDays(y - 1) \in Nat /\ MonthStart(y, m) \in Nat
           /\ Days(d) = 365 * y + LeapDays(y - 1) + MonthStart(y, m) + (k - 1)
           /\ Days(d) \in Nat
    BY DateFields
  <1>2. PICK p \in Nat \ {0} : p = PerDay
    BY PerDayType
  <1>3. PICK before \in Nat, ms \in Nat, dn \in Nat, kk \in Int :
          /\ before = LeapDays(y - 1) /\ ms = MonthStart(y, m) /\ dn = Days(d)
          /\ kk = ms + (k - 1)
    BY <1>1
  <1>4. PICK r \in Int : r = InDay(d) /\ 0 <= r /\ r < p
    BY <1>2, InDayType
  <1>5. PICK t \in Nat : t = Nanos(d) /\ t = dn * p + r
    <2>1. dn * p + r \in Nat
      BY <1>4
    <2> QED
      BY <1>2, <1>3, <1>4, <2>1 DEF Nanos
  <1>6. Limit \in Nat /\ t < Limit
    BY <1>5, LimitAssumption
  <1>7. dn = 365 * y + before + kk
    BY <1>1, <1>3
  <1>8. 0 <= kk /\ kk < 365 + LeapDay(y)
    <2>1. UpTo(y, m) = ms + DaysIn(year, m) /\ UpTo(y, m) <= 365 + LeapDay(y)
      BY <1>1, <1>3, UpToIs
    <2>2. LeapDay(y) \in {0, 1}
      BY LeapDaysGrow
    <2>3. PICK n \in Int, l \in Int : n = DaysIn(year, m) /\ l = LeapDay(y)
      BY <1>1, <2>2
    <2>4. ms + n <= 365 + l
      BY <2>1, <2>3
    <2>5. k <= n /\ 1 <= k
      BY <1>1, <2>3
    <2> QED
      BY <1>3, <2>3, <2>4, <2>5
  <1>9. (t - LeapDays(ApproximateYear(t)) * PerDay) \div (365 * PerDay) = y
    <2>1. y \in 0 .. 584
      BY <1>1
    <2>2. 0 <= r /\ r < PerDay
      BY <1>2, <1>4
    <2>3. dn = 365 * y + LeapDays(y - 1) + kk
      BY <1>3, <1>7
    <2>4. t = dn * PerDay + r
      BY <1>2, <1>5
    <2>5. dn \in Int
      OBVIOUS
    <2> QED
      BY <1>8, <2>1, <2>2, <2>3, <2>4, <2>5, YearOf
  <1>10. /\ year \in 1900 .. 2484 /\ y = year - 1900 /\ y + 1900 = year
         /\ m \in 1 .. 12 /\ 1 \in Int /\ 1 \in 1 .. 12
    BY <1>1
  <1>11. PICK start \in Int, ny \in Int :
           start = (365 * y + before + ms) * p /\ ny = (365 * y + before) * p
    OBVIOUS
  <1>12. t = ny + (kk * p + r) /\ t = start + ((k - 1) * p + r)
    <2>1. dn * p = (365 * y + before) * p + kk * p
      BY <1>7
    <2>2. dn * p = (365 * y + before + ms) * p + (k - 1) * p
      BY <1>3, <1>7
    <2> QED
      BY <1>5, <1>11, <2>1, <2>2
  <1>13. ny < Limit /\ start < Limit
    <2>1. kk * p >= 0 /\ (k - 1) * p >= 0
      BY <1>1, <1>8
    <2>2. PICK u \in Int, v \in Int : u = kk * p /\ v = (k - 1) * p
      OBVIOUS
    <2>3. t = ny + u + r /\ t = start + v + r
      BY <1>12, <2>2
    <2> QED
      BY <1>4, <1>6, <2>1, <2>2, <2>3
  <1>14. FromCalendarTime(StartOf(year, 1), 0) = ny
    <2>1. MonthStart(y, 1) = 0
      BY DaysBeforeIs DEF MonthStart
    <2>2. (365 * y + LeapDays(y - 1) + MonthStart(y, 1)) * PerDay = ny
      BY <1>2, <1>3, <1>11, <2>1
    <2> QED
      BY <1>10, <1>13, <2>2, FromStart
  <1>15. FromCalendarTime(StartOf(year, m), 0) = start
    <2>1. (365 * y + LeapDays(y - 1) + MonthStart(y, m)) * PerDay = start
      BY <1>2, <1>3, <1>11
    <2> QED
      BY <1>10, <1>13, <2>1, FromStart
  <1>16. PICK rest \in Int, i \in Int : rest = t - ny /\ i = t - start
    OBVIOUS
  <1>17. rest = kk * p + r /\ i = (k - 1) * p + r
    <2>1. PICK u \in Int, v \in Int : u = kk * p /\ v = (k - 1) * p
      OBVIOUS
    <2>2. t = ny + (u + r) /\ t = start + (v + r)
      BY <1>12, <2>1
    <2> QED
      BY <1>16, <2>1, <2>2
  <1>18. Min({j \in 1 .. 12 : rest < UpTo(y, j) * PerDay}) = m
    <2>1. k \in 1 .. DaysIn(year, m)
      BY <1>1
    <2>2. 0 <= r /\ r < PerDay
      BY <1>2, <1>4
    <2>3. rest = (MonthStart(y, m) + (k - 1)) * PerDay + r
      BY <1>2, <1>3, <1>17
    <2> QED
      BY <1>10, <2>1, <2>2, <2>3, MonthOf
  <1>19. /\ i \div PerDay = k - 1
         /\ (i % PerDay) \div PerHour = d.hour
         /\ (i % PerHour) \div PerMinute = d.min
         /\ (i % PerMinute) \div NanosPerSecond = d.sec
         /\ i % NanosPerSecond = d.ns
    <2>1. i = (k - 1) * PerDay + InDay(d)
      BY <1>2, <1>4, <1>17
    <2>2. k - 1 \in Int
      OBVIOUS
    <2> QED
      BY <2>1, <2>2, TimeOfDay
  <1>20. i \div PerDay + 1 = k
    BY <1>19
  <1>21. ToCalendarTime(t) =
              [year |-> y + 1900, month |-> m, day |-> i \div PerDay + 1,
               hour |-> (i % PerDay) \div PerHour, min |-> (i % PerHour) \div PerMinute,
               sec |-> (i % PerMinute) \div NanosPerSecond, ns |-> i % NanosPerSecond]
    <2>1. rest = t - FromCalendarTime(StartOf(y + 1900, 1), 0)
      BY <1>10, <1>14, <1>16
    <2>2. i = t - FromCalendarTime(StartOf(y + 1900, m), 0)
      BY <1>10, <1>15, <1>16
    <2> QED
      BY SMT, <1>9, <1>18, <2>1, <2>2, ToCalendarTimeIs
  <1>22. ToCalendarTime(t) =
              [year |-> d.year, month |-> d.month, day |-> d.day,
               hour |-> d.hour, min |-> d.min, sec |-> d.sec, ns |-> d.ns]
    <2>1. /\ y + 1900 = d.year /\ m = d.month /\ i \div PerDay + 1 = d.day
      BY <1>1, <1>10, <1>20
    <2> QED
      BY SMT, <1>19, <1>21, <2>1
  <1> QED
    BY Zenon, <1>5, <1>22, DateRecord

-----------------------------------------------------------------------------
(* NetLogger and Unix time. *)

LEMMA NanosType ==
  ASSUME NEW d, IsDate(d)
  PROVE  Nanos(d) \in Nat
  <1>1. Days(d) \in Nat
    BY DateFields
  <1>2. InDay(d) \in Nat
    BY InDayType, PerDayType
  <1> QED
    BY <1>1, <1>2, PerDayType DEF Nanos

LEMMA NetLoggerBack ==
  ASSUME NEW d, IsDate(d), Nanos(d) < PlusInf, NEW old
  PROVE  FromNetLogger(ToNetLogger(Nanos(d)), old) = FromCalendarTime(d, old)
  <1>1. PICK t \in Nat : t = Nanos(d) /\ t # PlusInf /\ t # MinusInf
    BY NanosType, LimitAssumption DEF MinusInf, PlusInf
  <1>2. ToCalendarTime(t) = d
    <2>1. Nanos(d) < Limit
      BY <1>1, LimitAssumption DEF PlusInf
    <2> QED
      BY <1>1, <2>1, ToDate
  <1>3. PICK s : s = <<d.year, d.month, d.day, d.hour, d.min, d.sec, d.ns>>
    OBVIOUS
  <1>4. ToNetLogger(t) = s
    BY <1>1, <1>2, <1>3 DEF ToNetLogger
  <1>5. s # <<"+inf">> /\ s # <<"-inf">>
    BY <1>3
  <1>6. FromNetLogger(s, old) =
          FromCalendarTime([year |-> d.year, month |-> d.month, day |-> d.day,
                            hour |-> d.hour, min |-> d.min, sec |-> d.sec, ns |-> d.ns], old)
    BY <1>3, <1>5 DEF FromNetLogger
  <1>7. FromNetLogger(s, old) = FromCalendarTime(d, old)
    BY Zenon, <1>6, DateRecord
  <1> QED
    BY <1>1, <1>4, <1>7

LEMMA NewYearType ==
  ASSUME NEW year \in Int
  PROVE  NewYear(year) \in Int /\ -Limit <= NewYear(year)
  <1>1. PICK y \in Int : y = year - 1900
    OBVIOUS
  <1>2. LeapDays(y) \in Int
    BY LeapDaysGrow
  <1>3. DayNumber(year, 1, 1) \in Int
    BY <1>1, <1>2, DaysBeforeIs DEF DayNumber
  <1>4. PICK n \in Int : n = DayNumber(year, 1, 1) * PerDay + 0 * PerHour + 0 * PerMinute
                               + 0 * NanosPerSecond + 0
    BY <1>3, PerDayType
  <1>5. NewYear(year) = Wrapped(n) \/ NewYear(year) = 0
    BY <1>4 DEF NewYear, FromCalendarTime
  <1> QED
    BY <1>5, WrappedType, LimitAssumption

LEMMA UnixMaxType == UnixMax \in Int
  <1>1. PICK year \in Int : year = UnixYears[2]
    BY YearAssumption
  <1>2. PICK y \in Int : y = year - 1900
    OBVIOUS
  <1>3. LeapDays(y) \in Int
    BY LeapDaysGrow
  <1>4. DayNumber(year, 1, 19) \in Int
    BY <1>2, <1>3, DaysBeforeIs DEF DayNumber
  <1>5. PICK n \in Int : n = DayNumber(year, 1, 19) * PerDay + 4 * PerHour + 14 * PerMinute
                               + 7 * NanosPerSecond + 0
    BY <1>4, PerDayType
  <1>6. UnixMax = Wrapped(n) \/ UnixMax = 0
    BY <1>1, <1>5 DEF UnixMax, FromCalendarTime
  <1> QED
    BY <1>6, WrappedType, LimitAssumption

(* Unix time keeps the whole seconds from its origin on. *)
LEMMA UnixTimeBack ==
  ASSUME NEW t \in Nat, t < PlusInf
  PROVE  /\ ToUnixTime(t) # -1 => t - FromUnixTime(ToUnixTime(t)) \in 0 .. NanosPerSecond - 1
         /\ ToUnixTime(t) = -1 <=> t < UnixOrigin \/ t > UnixMax
  <1>1. PICK o \in Int, max \in Int : o = UnixOrigin /\ max = UnixMax /\ -Limit <= o
    BY NewYearType, UnixMaxType, YearAssumption DEF UnixOrigin
  <1>2. t < Limit /\ t # PlusInf /\ t # MinusInf /\ Limit \in Nat \ {0}
    BY LimitAssumption DEF MinusInf, PlusInf
  <1>3. CASE t < o \/ t > max
    BY <1>1, <1>2, <1>3 DEF ToUnixTime
  <1>4. CASE ~(t < o \/ t > max)
    <2>1. PICK n \in Nat \ {0} : n = NanosPerSecond
      BY RadixAssumption
    <2>2. PICK a \in Int : a = t - o /\ 0 <= a
      BY <1>4
    <2>3. PICK q \in Int : q = a \div n /\ a \div n \in Int /\ a % n \in Int
                             /\ a = (a \div n) * n + (a % n)
                             /\ 0 <= a % n /\ a % n < n
      BY Quotient
    <2>4. PICK r \in Int : r = a % n
      BY <2>3
    <2>5. 0 <= r /\ r < n /\ a = q * n + r
      BY <2>3, <2>4
    <2>6. 0 <= q
      <3>1. ASSUME q <= -1
            PROVE  FALSE
        <4>1. q * n <= -n
          BY <3>1
        <4> QED
          BY <2>2, <2>5, <4>1
      <3> QED
        BY <3>1
    <2>7. ToUnixTime(t) = q
      BY <1>1, <1>2, <1>4, <2>1, <2>2, <2>3 DEF ToUnixTime, Infinite
    <2>8. PICK u \in Int : u = o + q * n /\ t - u = r
      <3>1. PICK w \in Int : w = q * n
        OBVIOUS
      <3> QED
        BY <2>2, <2>5, <3>1
    <2>9. -Limit <= u /\ u < Limit
      <3>1. q * n >= 0
        BY <2>6
      <3> QED
        BY <1>1, <1>2, <2>5, <2>8, <3>1
    <2>10. FromUnixTime(q) = u
      BY <1>1, <2>1, <2>8, <2>9, WrappedIs DEF FromUnixTime
    <2> QED
      BY <1>1, <1>4, <2>1, <2>5, <2>6, <2>7, <2>8, <2>10
  <1> QED
    BY <1>3, <1>4

-----------------------------------------------------------------------------
(* The inductive invariant of the clock: the odometer shows a date, and the
   time is the nanoseconds up to it as long as the type can hold them. *)
ClockInv ==
  /\ IsDate(date) /\ date.year <= LastYear
  /\ elapsed = Nanos(date)
  /\ time \in Int
  /\ elapsed < PlusInf => time = elapsed

LEMMA ClockImpliesClockKeepsCalendar == ClockInv => ClockKeepsCalendar
  <1> SUFFICES ASSUME ClockInv, elapsed < PlusInf
               PROVE  /\ time = elapsed
                      /\ FromCalendarTime(date, time - 1) = time
                      /\ ToCalendarTime(time) = date
                      /\ FromNetLogger(ToNetLogger(time), time - 1) = time
                      /\ ToUnixTime(time) # -1 =>
                           time - FromUnixTime(ToUnixTime(time)) \in 0 .. NanosPerSecond - 1
                      /\ ToUnixTime(time) = -1 <=> time < UnixOrigin \/ time > UnixMax
    BY Zenon DEF ClockKeepsCalendar
  <1>1. IsDate(date) /\ time = Nanos(date) /\ Nanos(date) < PlusInf /\ time = elapsed
    BY Zenon DEF ClockInv
  <1>2. Nanos(date) \in Nat /\ Nanos(date) < Limit
    <2>1. Nanos(date) \in Nat
      BY Zenon, <1>1, NanosType
    <2>2. PICK n \in Nat : n = Nanos(date)
      BY Zenon, <2>1
    <2>3. n < PlusInf
      BY Zenon, <1>1, <2>2
    <2>4. n < Limit
      BY <2>3, LimitAssumption DEF PlusInf
    <2> QED
      BY Zenon, <2>2, <2>4
  <1>3. FromCalendarTime(date, time - 1) = time /\ ToCalendarTime(time) = date
    BY Zenon, <1>1, <1>2, FromDate, ToDate
  <1>4. FromNetLogger(ToNetLogger(time), time - 1) = time
    BY Zenon, <1>1, <1>3, NetLoggerBack
  <1>5. time \in Nat /\ time < PlusInf
    BY Zenon, <1>1, <1>2
  <1> QED
    BY Zenon, <1>1, <1>3, <1>4, <1>5, UnixTimeBack

LEMMA InitClockInv == Init => ClockInv
  <1> SUFFICES ASSUME Init
               PROVE  ClockInv
    OBVIOUS
  <1>1. PICK year \in Int, m \in Int, k \in Int, y \in Int :
           year = 1900 /\ m = 1 /\ k = 1 /\ y = 0
    OBVIOUS
  <1>2. PICK d : d = date
    OBVIOUS
  <1>3. d = StartOf(1900, 1) /\ elapsed = 0 /\ time = 0
    BY <1>2 DEF Init, StartOf
  <1>4. /\ d.year = year /\ d.month = m /\ d.day = k
        /\ d.hour = 0 /\ d.min = 0 /\ d.sec = 0 /\ d.ns = 0
    BY <1>1, <1>3 DEF StartOf
  <1>5. d \in Calendar
    BY <1>3, RadixAssumption DEF StartOf, Calendar
  <1>6. IsDate(d)
    BY <1>1, <1>4, <1>5 DEF IsDate, DaysIn
  <1>7. /\ year \in 1900 .. 2484 /\ m \in 1 .. 12 /\ k \in 1 .. 31 /\ y = year - 1900
    BY <1>1
  <1>8. Days(d) = 365 * y + LeapDays(y - 1) + MonthStart(y, m) + (k - 1)
    BY <1>4, <1>7, DaysAre
  <1>9. LeapDays(y - 1) = 0 /\ MonthStart(y, m) = 0
    BY <1>1, DaysBeforeIs DEF LeapDays, MonthStart
  <1>10. Days(d) = 0 /\ InDay(d) = 0
    <2>1. InDay(d) = 0
      BY <1>4, PerDayType DEF InDay
    <2> QED
      BY <1>1, <1>8, <1>9, <2>1
  <1>11. Nanos(d) = 0
    BY <1>10, PerDayType DEF Nanos
  <1>12. d.year <= LastYear
    BY <1>1, <1>4, YearAssumption
  <1> QED
    BY <1>2, <1>3, <1>6, <1>11, <1>12 DEF ClockInv

(* A day and a nanosecond later. *)
LEMMA TickKeepsClock ==
  ASSUME ClockInv, Tick
  PROVE  ClockInv'
  <1>1. PICK d : d = date
    OBVIOUS
  <1>2. IsDate(d) /\ d.year < LastYear /\ elapsed = Nanos(d)
    BY <1>1 DEF ClockInv, Tick
  <1>3. PICK year \in Int, last \in Int :
          year = d.year /\ last = LastYear /\ year < last /\ last <= 2484
    BY <1>2, YearAssumption DEF IsDate, Calendar
  <1>4. PICK e : e = NextDay(d)
    OBVIOUS
  <1>5. /\ IsDate(e) /\ Days(e) = Days(d) + 1 /\ InDay(e) = InDay(d)
        /\ e.year = d.year \/ (e.year = d.year + 1 /\ e.month = 1)
    <2>1. d.year < 2484
      BY <1>3
    <2> QED
      BY <1>2, <1>4, <2>1, NextDayIsNext
  <1>6. PICK year1 \in Int, m1 \in Int :
          year1 = e.year /\ m1 = e.month /\ (year1 = year \/ (year1 = year + 1 /\ m1 = 1))
    BY <1>3, <1>5 DEF IsDate, Calendar
  <1>7. PICK f : f = NextNano(e)
    OBVIOUS
  <1>8. /\ IsDate(f) /\ Nanos(f) = Nanos(e) + 1
        /\ f.year = e.year \/ (f.year = e.year + 1 /\ e.month = 12)
    <2>1. e.year < 2484 \/ e.month < 12
      BY <1>3, <1>6
    <2> QED
      BY <1>5, <1>7, <2>1, NextNanoIsNext
  <1>9. f.year <= LastYear
    BY <1>3, <1>6, <1>8
  <1>10. Nanos(e) = Nanos(d) + PerDay
    <2>1. PICK p \in Nat \ {0}, dn \in Int, r \in Int : p = PerDay /\ dn = Days(d) /\ r = InDay(d)
      BY <1>2, PerDayType, InDayType, DateFields
    <2>2. (dn + 1) * p + r = (dn * p + r) + p
      OBVIOUS
    <2> QED
      BY <1>5, <2>1, <2>2 DEF Nanos
  <1>11. PICK n \in Nat, p \in Nat \ {0}, lim \in Nat \ {0} :
           n = Nanos(d) /\ p = PerDay /\ lim = Limit /\ Nanos(f) = n + p + 1
    <2>1. Nanos(d) \in Nat /\ PerDay \in Nat \ {0} /\ Limit \in Nat \ {0}
      BY <1>2, NanosType, PerDayType, LimitAssumption
    <2>2. PICK n \in Nat : n = Nanos(d)
      BY <2>1
    <2> QED
      BY <1>8, <1>10, <2>1, <2>2
  <1>12. date' = f /\ elapsed' = n + p + 1 /\ time' = Plus(time, p + 1)
    BY <1>1, <1>2, <1>4, <1>7, <1>11 DEF Tick
  <1>13. time \in Int /\ (n < lim - 1 => time = n)
    BY <1>2, <1>11 DEF ClockInv, PlusInf
  <1>14. PICK now \in Int : now = time
    BY <1>13
  <1>15. Plus(now, p + 1) \in Int
    <2>1. now + (p + 1) \in Int /\ PlusInf \in Int
      BY <1>11 DEF PlusInf
    <2>2. Wrapped(now + (p + 1)) \in Int
      BY <2>1, WrappedType
    <2> QED
      BY <2>1, <2>2 DEF Plus
  <1>16. ASSUME n + p + 1 < lim - 1
         PROVE  Plus(now, p + 1) = n + p + 1
    <2>1. now = n
      BY <1>13, <1>14, <1>16
    <2>2. ~Infinite(now) /\ p + 1 # PlusInf
      BY <1>11, <1>16, <2>1 DEF Infinite, PlusInf, MinusInf
    <2>3. Plus(now, p + 1) = Wrapped(n + p + 1)
      <3>1. now + (p + 1) = n + p + 1
        BY <2>1
      <3> QED
        BY <2>2, <3>1 DEF Plus
    <2>4. n + p + 1 \in Int /\ -Limit <= n + p + 1 /\ n + p + 1 < Limit
      BY <1>11, <1>16
    <2>5. Wrapped(n + p + 1) = n + p + 1
      <3>1. PICK z \in Int : z = n + p + 1
        OBVIOUS
      <3>2. -Limit <= z /\ z < Limit
        BY <2>4, <3>1
      <3> QED
        BY <3>1, <3>2, WrappedIs
    <2> QED
      BY <2>3, <2>5
  <1>17. PICK now1 \in Int : now1 = time' /\ now1 = Plus(now, p + 1)
    BY <1>12, <1>14, <1>15
  <1>18. elapsed' < PlusInf => time' = elapsed'
    BY <1>11, <1>12, <1>16, <1>17 DEF PlusInf
  <1>19. IsDate(date)' /\ (date.year <= LastYear)' /\ (elapsed = Nanos(date))'
    <2>1. IsDate(f) /\ f.year <= LastYear /\ elapsed' = Nanos(f)
      BY <1>8, <1>9, <1>11, <1>12
    <2>2. date' = f
      BY <1>12
    <2> QED
      BY <2>1, <2>2
  <1> QED
    BY <1>17, <1>18, <1>19 DEF ClockInv

LEMMA StepClockInv ==
  ASSUME ClockInv, [Next]_vars
  PROVE  ClockInv'
  <1>1. CASE Tick
    BY <1>1, TickKeepsClock
  <1>2. CASE UNCHANGED <<date, elapsed, time>>
    BY <1>2 DEF ClockInv
  <1>3. Tick \/ UNCHANGED <<date, elapsed, time>>
    BY DEF Next, vars, Calculate, SetStart, SetEnd, SetInterval, SetDuration,
           SetDurationOfInterval
  <1> QED
    BY <1>1, <1>2, <1>3

(* At every moment up to the year LastYear that the type can hold, a SimpleTime
   and the Gregorian calendar agree there and back, through calendar fields and
   through NetLogger strings, and Unix time loses less than a second
   (SimpleTime::fromCalendarTime, toCalendarTime, fromNetLogger, netLogger,
   fromUnixTime, unixTime). *)
THEOREM ClockAgreesWithCalendar == Spec => []ClockKeepsCalendar
  <1>1. Spec => []ClockInv
    <2>1. ClockInv /\ [Next]_vars => ClockInv'
      BY StepClockInv
    <2> QED
      BY <2>1, InitClockInv, PTL DEF Spec
  <1> QED
    BY <1>1, ClockImpliesClockKeepsCalendar, PTL

=============================================================================
