SPECIFICATION Spec
CONSTANTS
  Nobody = Nobody
  Users = {11, 12}
  Emails = {21, 22}
  Ids = {1, 2}
  MaxNow = 1
  Docs = {d1}
  DocOwner <- OneOwner
  v1 = v1
  Calls = {k1, k2, k3}
  NoDoc = NoDoc
  Fetches = {"f1"}
  Channels = {"n1", "n2"}
  Addresses = {"a1"}
  Replicas = {"r1", "r2"}
  Limit = 1
  Window = 2
  MaxClock = 3
  MaxBurst = 2
  Canonical <- Pages
  Responses <- SomeResponses
  MaxSteps = 2
  Memories <- SomeMemories
  MaxAttempts = 3
INVARIANTS
  ServicesTypeOK
  MemoryIsPostgres RepliesAgree  
  RetrievedIsReady PendingIsWorkedOn
  QuietPanelIsRight CompletedIsShownWhole
  LiveChannelsTold AcceptedIsAddressable
  RefusedOnlyWhenOver AtMostTwice
  ListeningIsWhole SearchBudget
PROPERTY
  GraphIsTheLoop
CHECK_DEADLOCK FALSE
