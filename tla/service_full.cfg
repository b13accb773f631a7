CONSTANTS
  None = None
  Loops = {l1}
  Migrations = 2
  MaxStarts = 2
  a = a
  Secrets = {a}
  PoolSizes = {1, 2}
  Payloads <- MCPayloads
SPECIFICATION HistorySpec
INVARIANTS KeysStayReadable SchemaWhole StopIsClean ImportSound
PROPERTIES StopEnds ImportSettles
CHECK_DEADLOCK FALSE
