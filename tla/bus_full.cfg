CONSTANTS
  Publishers = {p1, p2}
  Subs = {s1, s2}
  Buffer = 1
  Idle = Idle
  MaxEvents = 3
SPECIFICATION FairBusHistorySpec
INVARIANTS NoSendOnClosed NothingMissed
PROPERTY BusSettles
CHECK_DEADLOCK FALSE
