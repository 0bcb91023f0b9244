------------------------------ MODULE SimpleTime ------------------------------
(***************************************************************************)
(* Time as programs give it to the database: SimpleTime, a signed 64 bit   *)
(* number of nanoseconds since 1900 whose extreme values are infinities,   *)
(* its conversions to calendar, NetLogger and Unix time, and the durations *)
(* and intervals computed from it.                                         *)
(*                                                                         *)
(* The calendar is checked by a clock: an odometer of the Gregorian        *)
(* calendar and a SimpleTime advance together, and the conversions have to *)
(* take one to the other at each moment.  Before its clock is started the  *)
(* program computes with durations and intervals; the two do not interact. *)
(*                                                                         *)
(* A signed overflow is undefined in C++; it wraps here as it does in the  *)
(* builds.  The calendar of times before 1900 (they arise from             *)
(* calculations only) and the arithmetic of durations, whose products are  *)
(* computed in double precision, are left out.                             *)
(***************************************************************************)
EXTENDS Integers, FiniteSetsExt

CONSTANTS
  HoursPerDay,       \* 24
  MinutesPerHour,    \* 60
  SecondsPerMinute,  \* 60
  NanosPerSecond,    \* SIMPLETIME_BILLION, 10^9
  Limit,             \* 2^63
  UnixYears,         \* 1970, and 2038, the year of SIMPLETIME_UNIX_MAX
  LastYear,          \* bound: the year in which the clock stops
  Instant,           \* the times that are put into intervals
  Now                \* what the default constructor of SimpleTime reads

ASSUME RadixAssumption ==
  /\ HoursPerDay \in Nat \ {0} /\ MinutesPerHour \in Nat \ {0}
  /\ SecondsPerMinute \in Nat \ {0} /\ NanosPerSecond \in Nat \ {0}
ASSUME LimitAssumption   == Limit \in Nat \ {0}
ASSUME InstantAssumption == Instant \subseteq -Limit .. Limit - 1 /\ Now \in Int
ASSUME YearAssumption ==
  /\ UnixYears[1] \in Int /\ UnixYears[2] \in Int
  /\ LastYear \in 1900 .. 2484   \* the years fromCalendarTime takes

VARIABLES
  date,      \* reference: the fields of the clock's calendar
  elapsed,   \* reference: the nanoseconds since 1900
  time,      \* the SimpleTime of the clock
  interval,  \* a SimpleTimeInterval
  duration,  \* a SimpleTimeDuration
  measured   \* history: the points between which the duration is the distance

vars == <<date, elapsed, time, interval, duration, measured>>

MinusInf == -Limit
PlusInf  == Limit - 1
Infinite(t) == t \in {MinusInf, PlusInf}

Wrapped(n) == ((n + Limit) % (2 * Limit)) - Limit

PerMinute == SecondsPerMinute * NanosPerSecond
PerHour   == MinutesPerHour * PerMinute
PerDay    == HoursPerDay * PerHour

-----------------------------------------------------------------------------
(* fromCalendarTime.  Years count from 1900. *)

DaysBefore == <<0, 31, 59, 90, 120, 151, 181, 212, 243, 273, 304, 334>>

(* Faulty: 2000 is not a leap year. *)
LeapDaysByCentury(y) == y \div 4 - y \div 100

(* The leap days up to a year, that of the year itself included. *)
LeapDays(y) == y \div 4 - y \div 100 + (y + 300) \div 400

IsLeap(y) == y % 4 = 0 /\ (y % 100 # 0 \/ (y + 300) % 400 = 0)

DayNumber(year, month, day) ==
  LET y == year - 1900
  IN  y * 365 + LeapDays(y) + DaysBefore[month]
        - (IF IsLeap(y) /\ month < 3 THEN 1 ELSE 0) + day - 1

(* What is assigned to a SimpleTime that has the value old: a year or a month
   that does not exist changes nothing, a day is not checked. *)
FromCalendarTime(d, old) ==
  IF d.year \in 1900 .. 2484 /\ d.month \in 1 .. 12
  THEN Wrapped(DayNumber(d.year, d.month, d.day) * PerDay + d.hour * PerHour
                 + d.min * PerMinute + d.sec * NanosPerSecond + d.ns)
  ELSE old

NewYear(year) ==
  FromCalendarTime([year |-> year, month |-> 1, day |-> 1,
                    hour |-> 0, min |-> 0, sec |-> 0, ns |-> 0], 0)

(* The quotient by a year of 365.25637 days, computed in double precision. *)
ApproximateYear(t) ==
  Max({n \in t \div (366 * PerDay) .. t \div (365 * PerDay) :
         n * 25637 * PerDay <= (t - n * 365 * PerDay) * 100000})

(* toCalendarTime of a time that is finite and not before 1900. *)
ToCalendarTime(t) ==
  LET year   == (t - LeapDays(ApproximateYear(t)) * PerDay) \div (365 * PerDay)
      rest   == t - NewYear(year + 1900)
      leap   == IF IsLeap(year) THEN 1 ELSE 0
      upTo(m) == IF m = 1 THEN 31
                 ELSE IF m = 12 THEN 365 + leap ELSE DaysBefore[m + 1] + leap
      month  == Min({m \in 1 .. 12 : rest < upTo(m) * PerDay})
      inDay  == t - FromCalendarTime([year |-> year + 1900, month |-> month, day |-> 1,
                                       hour |-> 0, min |-> 0, sec |-> 0, ns |-> 0], 0)
  IN  [year |-> year + 1900, month |-> month, day |-> inDay \div PerDay + 1,
       hour |-> (inDay % PerDay) \div PerHour, min |-> (inDay % PerHour) \div PerMinute,
       sec |-> (inDay % PerMinute) \div NanosPerSecond, ns |-> inDay % NanosPerSecond]

(* A NetLogger string: the fields with a fixed number of digits, or infinity. *)
ToNetLogger(t) ==
  IF t = PlusInf THEN <<"+inf">> ELSE IF t = MinusInf THEN <<"-inf">>
  ELSE LET d == ToCalendarTime(t) IN <<d.year, d.month, d.day, d.hour, d.min, d.sec, d.ns>>

FromNetLogger(s, old) ==
  IF s = <<"+inf">> THEN PlusInf ELSE IF s = <<"-inf">> THEN MinusInf
  ELSE FromCalendarTime([year |-> s[1], month |-> s[2], day |-> s[3],
                         hour |-> s[4], min |-> s[5], sec |-> s[6], ns |-> s[7]], old)

(* An hour past what 32 bits of seconds can tell; time_t has 64 here. *)
UnixOrigin == NewYear(UnixYears[1])
UnixMax    == FromCalendarTime([year |-> UnixYears[2], month |-> 1, day |-> 19,
                                hour |-> 4, min |-> 14, sec |-> 7, ns |-> 0], 0)

FromUnixTime(u) == Wrapped(UnixOrigin + u * NanosPerSecond)

ToUnixTime(t) ==
  IF Infinite(t) \/ t < UnixOrigin \/ t > UnixMax THEN -1
  ELSE (t - UnixOrigin) \div NanosPerSecond

-----------------------------------------------------------------------------
(* Durations and intervals. *)

(* SimpleTime += SimpleTimeDuration *)
Plus(t, d) ==
  IF Infinite(t) THEN t ELSE IF d = PlusInf THEN PlusInf ELSE Wrapped(t + d)

(* Faulty: the points are taken in the order they are given. *)
DistanceAsGiven(s, t) ==
  IF s = t THEN 0 ELSE IF t = PlusInf \/ s = MinusInf THEN PlusInf ELSE Wrapped(t - s)

(* setDuration with two points; two infinities that coincide are no distance
   apart. *)
Distance(s, t) ==
  LET first == Min({s, t})
      last  == Max({s, t})
  IN  IF first = last THEN 0
      ELSE IF last = PlusInf \/ first = MinusInf THEN PlusInf ELSE Wrapped(last - first)

StartSet(i, s) == IF i.end < s THEN i ELSE [i EXCEPT !.start = s]
EndSet(i, t)   == IF t < i.start THEN i ELSE [i EXCEPT !.end = t]

Calculate == elapsed = 0 /\ UNCHANGED <<date, elapsed, time>>

SetStart(s) ==
  Calculate /\ interval' = StartSet(interval, s) /\ UNCHANGED <<duration, measured>>

(* Faulty: the start is not looked at. *)
SetEndAnyway(t) ==
  Calculate /\ interval' = [interval EXCEPT !.end = t] /\ UNCHANGED <<duration, measured>>

SetEnd(t) ==
  Calculate /\ interval' = EndSet(interval, t) /\ UNCHANGED <<duration, measured>>

(* The start is set first: if it is after the end the interval still has, it
   is not set at all. *)
SetInterval(s, t) ==
  /\ Calculate
  /\ interval' = EndSet(StartSet(interval, Min({s, t})), Max({s, t}))
  /\ UNCHANGED <<duration, measured>>

SetDuration(s, t) ==
  /\ Calculate
  /\ duration' = Distance(s, t)
  /\ measured' = {s, t}
  /\ UNCHANGED interval

(* setDuration with an interval subtracts infinities like any time. *)
SetDurationOfInterval ==
  /\ Calculate
  /\ duration' = Wrapped(interval.end - interval.start)
  /\ measured' = {}
  /\ UNCHANGED interval

-----------------------------------------------------------------------------
(* The Gregorian calendar, for reference. *)

DaysIn(year, month) ==
  IF month = 2
  THEN IF year % 4 = 0 /\ (year % 100 = 0 => year % 400 = 0) THEN 29 ELSE 28
  ELSE IF month \in {4, 6, 9, 11} THEN 30 ELSE 31

NextDay(d) ==
  IF d.day < DaysIn(d.year, d.month) THEN [d EXCEPT !.day = @ + 1]
  ELSE IF d.month < 12 THEN [d EXCEPT !.day = 1, !.month = @ + 1]
  ELSE [d EXCEPT !.day = 1, !.month = 1, !.year = @ + 1]

NextNano(d) ==
  IF d.ns + 1 < NanosPerSecond THEN [d EXCEPT !.ns = @ + 1]
  ELSE IF d.sec + 1 < SecondsPerMinute THEN [d EXCEPT !.ns = 0, !.sec = @ + 1]
  ELSE IF d.min + 1 < MinutesPerHour THEN [d EXCEPT !.ns = 0, !.sec = 0, !.min = @ + 1]
  ELSE IF d.hour + 1 < HoursPerDay
  THEN [d EXCEPT !.ns = 0, !.sec = 0, !.min = 0, !.hour = @ + 1]
  ELSE NextDay([d EXCEPT !.ns = 0, !.sec = 0, !.min = 0, !.hour = 0])

Fresh == [start |-> Now, end |-> Now]

(* The clock advances by a day and a nanosecond. *)
Tick ==
  /\ interval = Fresh /\ duration = NanosPerSecond /\ measured = {}
  /\ date.year < LastYear
  /\ date' = NextNano(NextDay(date))
  /\ elapsed' = elapsed + PerDay + 1
  /\ time' = Plus(time, PerDay + 1)
  /\ UNCHANGED <<interval, duration, measured>>

Init ==
  /\ date = [year |-> 1900, month |-> 1, day |-> 1, hour |-> 0, min |-> 0, sec |-> 0, ns |-> 0]
  /\ elapsed = 0
  /\ time = 0
  /\ interval = Fresh
  /\ duration = NanosPerSecond
  /\ measured = {}

Next ==
  \/ Tick
  \/ \E s \in Instant :
       \/ SetStart(s) \/ SetEnd(s)
       \/ \E t \in Instant : SetInterval(s, t) \/ SetDuration(s, t)
  \/ SetDurationOfInterval

Spec == Init /\ [][Next]_vars
-----------------------------------------------------------------------------
(* The conversions agree with the Gregorian calendar at every moment a
   SimpleTime can hold: the clock's time is its date, there and back, through
   the calendar and through NetLogger strings, and Unix time loses what is less
   than a second. *)
ClockKeepsCalendar ==
  elapsed < PlusInf =>
    /\ time = elapsed
    /\ FromCalendarTime(date, time - 1) = time
    /\ ToCalendarTime(time) = date
    /\ FromNetLogger(ToNetLogger(time), time - 1) = time
    /\ ToUnixTime(time) # -1 => time - FromUnixTime(ToUnixTime(time)) \in 0 .. NanosPerSecond - 1
    /\ ToUnixTime(time) = -1 <=> time < UnixOrigin \/ time > UnixMax

(* SimpleTimeInterval: the start is not after the end, in whatever order they
   are set. *)
Ordered == interval.start <= interval.end

(* The distance of two points from 1900 on is not negative, and takes the
   earlier to the later. *)
DistanceAddsUp ==
  \A s, t \in measured :
    0 <= s /\ s <= t /\ {s, t} = measured => duration >= 0 /\ Plus(s, duration) = t

IntervalInv == Ordered /\ DistanceAddsUp
=============================================================================
