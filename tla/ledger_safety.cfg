SPECIFICATION Spec
SYMMETRY Symmetry
CONSTANTS
  Player = {p1, p2}
  Worker = {w1, w2}
  Run = {}
  MatchId = {1, 2, 3}
  PlayedAt = {1, 2}
  NoMatch = NoMatch
  NoRun = NoRun
  Nobody = Nobody
  Skew = 1
  MaxClock = 1
  IntMax = 5
  Faults = {"drop"}
  Skill <- MCSkill
  StorableSkill <- MCStorableSkill
  InsertSkill <- MCInsertSkill
  DefaultSkill <- MCDefaultSkill
  Rate <- MCRate
INVARIANT LockGuardsTransaction
INVARIANT CountersMatchHistory
INVARIANT AuditMatchesHistory
INVARIANT CorrectionsAreLinear
PROPERTY HistoryIsPermanent
PROPERTY OnlyOutOfOrderSubmitBreaksDerivation
