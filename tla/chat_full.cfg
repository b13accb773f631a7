CONSTANTS
  Texts = {t1, t2}
  Prompt = t1
  Forks = {f1}
  Refreshes = {w1}
  None = None
  MaxMessages = 3
  MaxRequests = 2
  MaxFailures = 1
SPECIFICATION FairHistorySpec
INVARIANTS ReplyNoticed ClosedIsComplete
PROPERTIES PinsKept RepliesArrive
CHECK_DEADLOCK FALSE
