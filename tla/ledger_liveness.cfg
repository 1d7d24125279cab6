SPECIFICATION FairSpec
CONSTANTS
  Player = {p1, p2}
  Worker = {w1, w2}
  Run = {r1}
  MatchId = {1, 2}
  PlayedAt = {1}
  NoMatch = NoMatch
  NoRun = NoRun
  Nobody = Nobody
  Skew = 1
  MaxClock = 1
  IntMax = 5
  Faults = {"ack"}
  Skill <- MCSkill
  StorableSkill <- MCStorableSkill
  InsertSkill <- MCInsertSkill
  DefaultSkill <- MCLowSkill
  Rate <- MCRate
INVARIANT RunOutcomeAudited
PROPERTY RequestsReturn
PROPERTY RunsSettle
