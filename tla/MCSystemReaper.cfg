SPECIFICATION SystemSpec
CONSTANTS
  u1 = u1
  Jobs = {j1}
  Users = {u1}
  Owner <- OneOwner
  Handlers = {h1, h2}
  Questions = {q1}
  Answers = {a1}
  Deliveries = {d1}
  Steps = {}
  Tasks = {t1, t2}
  None = None
  NoRow = NoRow
  Idle = Idle
  NoDelivery = NoDelivery
  NoTask = NoTask
  Quota = 1
  MaxUsage = 0
  MaxAge = 1
  MaxRetries = 1
  MaxCrashes = 1
  MaxAttempts = 3
PROPERTY ReaperSparesWaiting
CHECK_DEADLOCK FALSE
