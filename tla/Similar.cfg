SPECIFICATION PlatformSpec
CONSTANTS
  e1 = e1
  s1 = s1
  f1 = f1
  f2 = f2
  c1 = c1
  c2 = c2
  w1 = w1
  w2 = w2
  t1 = t1
  t2 = t2
  r1 = r1
  r2 = r2
  n1 = n1
  n2 = n2
  n3 = n3
  x1 = x1
  x2 = x2
  k1 = k1
  k2 = k2
  g1 = g1
  g2 = g2
  g3 = g3
  EssayIds = {e1}
  Roster = {s1}
  Files = {f1, f2}
  Limit = 2
  WordCounts = {10, 100}
  Delays <- SkewedDelays
  Servers = {c1, c2}
  NoEssay = NoEssay
  NoStudent = NoStudent
  NoFile = NoFile
  NoSnapshots = NoSnapshots
  NoSignals = NoSignals
  IntakeBounds <- FewCalls
  Submitted = {1, 2, 3}
  EssayOfVersion <- EachOwn
  Similar <- Triangle
  Providers = {"internal"}
  Checkers = {w1, w2}
  MaxRetries = 1
  IntegrityFaults = 1
  Redeliveries = 1
  Reviews = 2
  LockedEssays <- OneLocked
  MaxExportRetries = 1
  ExportFaults = 2
  NoJob = NoJob
  NoTask = NoTask
  Tabs = {t1, t2}
  Requests = {r1, r2}
  MaxToken = 2
  MaxSends = 1
  SessionFaults = 1
  OpenTabs = {{t1}}
  Visits = {w1, w2}
  SignupLimit = 1
  ResendLimit = 2
  MaxMailRetries = 1
  TrialDays = 30
  MaxLinks = 2
  AccountBounds <- SmallAccountBounds
  Clerks = {w1, w2}
  Names = {n1, n2, n3}
  ExternalIds = {x1, x2}
  NoExternalId = NoExternalId
  NoName = NoName
  Alike <- SomeAlike
  HandRows <- SmallHandRows
  Rosters <- SmallRosters
  Students0 <- OneStudent
  MaxStudents = 4
  MaxEdits = 3
  Editors = {w1, w2}
  Drafts <- SmallDrafts
  MaxRubrics = 2
  MaxRequests = 4
  MaxUses = 1
  Recorders = {w1, w2}
  MediaCalls = 5
  MediaFaults = 1
  Criteria = {k1, k2}
  MinScore = 1
  MaxScore = 4
  NoCriterion = NoCriterion
  LlmReplies <- SmallReplies
  LlmMaxRetries = 1
  MaxRankedItems = 2
  BaseScores <- SmallBase
  Efforts <- SmallEfforts
  LlmKinds = {"grading", "instruction", "copilot"}
  LlmFaults = 2
  Overrides = 1
  Marks = {g1, g2, g3}
  EssayOfMark <- GradedEssays
  PupilOf <- TwoPupils
  SkillOf <- OneSkill
  LeastScore = 1
  TopScore = 6
  MarkScores <- SmallMarks
  Regrades = 1
  Views = 2
  Parts = {"integrity"}
CHECK_DEADLOCK FALSE
INVARIANTS PairsAreFlagged
