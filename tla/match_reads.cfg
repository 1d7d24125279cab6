SPECIFICATION ReadSpec
SYMMETRY Symmetry
CONSTANTS
  Player = {p1, p2, p3}
  Worker = {w1}
  Run = {}
  MatchId = {1, 2}
  Asked = {1}
  PlayedAt = {1, 2}
  NoMatch = NoMatch
  NoRun = NoRun
  Nobody = Nobody
  Skew = 1
  MaxClock = 1
  IntMax = 5
  Faults = {}
  Skill <- MCSkill
  StorableSkill <- MCStorableSkill
  InsertSkill <- MCInsertSkill
  DefaultSkill <- MCDefaultSkill
  Rate <- MCRate
INVARIANT AnswersAreSnapshots
INVARIANT NewestListedShowsRatings
