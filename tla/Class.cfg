SPECIFICATION FairSpec
CONSTANTS
  s1 = s1
  s2 = s2
  Students = {s1, s2}
  Enrolled = {s1}
  Finals = {2, 9}
  MinScore = 0
  MaxScore = 10
  Histories <- StudentHistories
  Pairs <- Resubmissions
  GroupBelow = 70
  MinGroupSize = 1
  w1 = w1
  w2 = w2
  Workers = {w1, w2}
  c1 = c1
  c2 = c2
  Calls = {c1, c2}
  NoGroup = NoGroup
  NoItem = NoItem
  NoStudent = NoStudent
  Modes <- SmallModes
CHECK_DEADLOCK FALSE
INVARIANTS AdviceTypeOK ActiveItemsAreUnique SettlesInOrder DecisionsAreLogged SignalsFollowGrades
PROPERTIES DecisionsAreKept AnswersAreTrue StabilityTellsHistory PipelineDrains
