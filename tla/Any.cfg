SPECIFICATION Spec
CONSTANTS
  e1 = e1
  e2 = e2
  Essays = {e1, e2}
  t1 = t1
  t2 = t2
  Tasks = {t1, t2}
  c1 = c1
  c2 = c2
  Clients = {c1, c2}
  NoEssay = NoEssay
  MaxVersions = 2
  MaxRetries = 1
  MaxRequests = 2
  MaxFaults = 1
  Requests = {"trigger", "retry", "patch", "resubmit"}
  Faults = {"llm", "internal", "crash", "redis", "expiry", "redelivery"}
  PanelOnly = FALSE
SYMMETRY Symmetry
CHECK_DEADLOCK FALSE
INVARIANTS TypeOK GradedEssayHasGrade CompleteMeansGraded CompleteWithinGrades
