SPECIFICATION Spec
CONSTANTS
  e1 = e1
  e2 = e2
  Essays = {e1, e2}
  t1 = t1
  t2 = t2
  Tasks = {t1, t2}
  c1 = c1
  Clients = {c1}
  NoEssay = NoEssay
  MaxVersions = 2
  MaxRetries = 3
  MaxRequests = 1
  MaxFaults = 1
  Requests = {"trigger"}
  Faults = {"llm"}
  PanelOnly = TRUE
CHECK_DEADLOCK FALSE
INVARIANT GradingHasTask
