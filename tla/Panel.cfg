SPECIFICATION FairSpec
CONSTANTS
  e1 = e1
  e2 = e2
  Essays = {e1, e2}
  t1 = t1
  t2 = t2
  Tasks = {t1, t2}
  c1 = c1
  Clients = {c1}
  NoEssay = NoEssay
  MaxVersions = 2
  MaxRetries = 1
  MaxRequests = 3
  MaxFaults = 1
  Requests = {"trigger", "retry", "resubmit"}
  Faults = {"llm", "internal", "crash", "redis"}
  PanelOnly = TRUE
CHECK_DEADLOCK FALSE
INVARIANTS ExactCounters QueuedIsGradable
PROPERTIES ClosesOnlyWhenSettled ImplementsLifecycle BatchIsCounted
