SPECIFICATION Spec
CONSTANTS
  k1 = k1
  k2 = k2
  Criteria = {k1, k2}
  Scores = {1, 2}
  r1 = r1
  r2 = r2
  Requests = {r1, r2}
  c1 = c1
  c2 = c2
  Clients = {c1, c2}
  WholeGrade = WholeGrade
  NoRequest = NoRequest
  NoScore = NoScore
  NoClient = NoClient
  RegradeMax = 1
  MaxCalls = 3
  OneEditor = TRUE
CHECK_DEADLOCK FALSE
PROPERTY ResolvedOnce
