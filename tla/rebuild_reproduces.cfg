SPECIFICATION Spec
SYMMETRY Symmetry
CONSTANTS
  Player = {p1, p2}
  Worker = {w1, w2}
  Run = {r1}
  MatchId = {1}
  PlayedAt = {1}
  NoMatch = NoMatch
  NoRun = NoRun
  Nobody = Nobody
  Skew = 1
  MaxClock = 1
  IntMax = 5
  Faults = {}
  Skill <- MCSkill
  StorableSkill <- MCStorableSkill
  InsertSkill <- MCInsertSkill
  DefaultSkill <- MCDefaultSkill
  Rate <- MCRate
PROPERTY RebuildReproducesDerivedRatings
