CONSTANTS
  HoursPerDay = 2
  MinutesPerHour = 2
  SecondsPerMinute = 2
  NanosPerSecond = 2
  Limit <- DayLimit
  UnixYears <- UnixTime
  LastYear = 2193
  Instant <- SomeInstants
  Now = 2
SPECIFICATION Spec
CHECK_DEADLOCK FALSE
INVARIANTS
  ClockKeepsCalendar
  IntervalInv
