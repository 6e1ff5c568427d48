\* Two visitors, two slots a day, one day of three off, the clock from six hours before
\* the first slot until it begins, one change to the calendar. The widget asks for
\* two days of a horizon of one, so that late times of the last day are offered too.
SPECIFICATION FairSpec
CONSTANTS
  Visitors <- MCVisitors
  MeetingTimes <- MCMeetingTimes
  OtherTimes <- MCOtherTimes
  DayLen = 10
  WeekLen = 3
  WorkDays = {1, 2}
  DayStart = 2
  DayEnd = 7
  SlotLen = 2
  MinNotice = 1
  MaxDaysAhead = 1
  Buffer = 1
  AskedDays = 2
  Before = 6
  After = 7
  Changeover = 12
  MaxTime = 6
  MaxChanges = 1
INVARIANTS
  HoursAreKept
  BookingsAreApart
  OfferIsHonoured
PROPERTIES
  EndsWell
CHECK_DEADLOCK FALSE
