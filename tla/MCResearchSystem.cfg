SPECIFICATION SystemSpec
CONSTANTS
  u1 = u1
  Jobs = {j1}
  Users = {u1}
  Owner <- OneOwner
  Handlers = {h1, h2}
  Questions = {q1}
  Answers = {a1}
  Deliveries = {d1}
  Steps = {s1}
  Tasks = {t1}
  None = None
  NoRow = NoRow
  Idle = Idle
  NoDelivery = NoDelivery
  NoTask = NoTask
  Quota = 1
  MaxUsage = 2
  MaxAge = 1
  MaxRetries = 1
  MaxCrashes = 1
  MaxAttempts = 2
SYMMETRY HandlersAlike
INVARIANTS SystemTypeOK SpendCountedOnce
PROPERTY AcknowledgedIsVisible
CHECK_DEADLOCK FALSE
