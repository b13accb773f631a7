CONSTANTS
  Missing = Missing
  MinuteLen = 2
  HourMinutes = 2
  DayHours = 3
  WeekDays = 2
  Calendar <- MiniCalendar
  LastDom = 4
  LastMonth = 2
  SearchLimit = 90
  FarAhead = 100
  Lines = {x, y}
  MaxLines = 5
  Context = 1
  PoolSize = 3
  StartCount = 5
SPECIFICATION CallSpec
INVARIANTS CronNextFirst DailyOnTheClock DiffFaithful StartsTakeTurns
CHECK_DEADLOCK FALSE
