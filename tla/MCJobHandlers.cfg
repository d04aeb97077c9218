SPECIFICATION Spec
CONSTANTS
  u1 = u1
  Jobs = {j1}
  Users = {u1}
  Owner <- OneOwner
  Handlers = {h1, h2}
  Questions = {q1}
  Answers = {a1}
  Deliveries = {d1}
  Steps = {s1}
  None = None
  NoRow = NoRow
  Idle = Idle
  NoDelivery = NoDelivery
  Quota = 1
  MaxUsage = 1
  MaxAge = 3
SYMMETRY HandlersAlike
INVARIANTS TypeOK RowsCoherent CompletedHasResults ErasedForGood
PROPERTIES UsageNeverLost LifeMovesForward
CHECK_DEADLOCK FALSE
