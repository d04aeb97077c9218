SPECIFICATION FairSpec
CONSTANTS
  u1 = u1
  Jobs = {j1}
  Users = {u1}
  Owner <- OneOwner
  Handlers = {h1, h2}
  Questions = {q1}
  Answers = {a1}
  Deliveries = {d1}
  Steps = {}
  None = None
  NoRow = NoRow
  Idle = Idle
  NoDelivery = NoDelivery
  Quota = 1
  MaxUsage = 0
  MaxAge = 1
PROPERTY UnfinishedIsSettled ReaperEnds
CHECK_DEADLOCK FALSE
