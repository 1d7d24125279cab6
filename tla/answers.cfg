SPECIFICATION AnswersSpec
SYMMETRY Symmetry
CONSTANTS
  Player = {p1, p2, p3}
  Place = {0, 1, 2, 3, 4}
  MaxLength = 3
  Time = {0, 1, 2}
  Skew = 1
  Contestant = {1, 2, 3}
  MaxMinGames = 2
  MaxGames = 2
  Skill <- MCSkill
  DefaultSkill <- MCDefaultSkill
  Worker = {w1, w2, w3}
  EntryId = {1, 2, 3, 4}
  MaxLimit = 3
  Default = 3
  Limits <- MCLimits
  NoLimit = NoLimit
  Key <- MCKey
  Secret = {"token", "password"}
  Leaf = {"x"}
  Blank = "x"
  Depth = 3
  Width <- MCWidth
  Variable <- MCVariable
  Text <- MCText
  Unset = "unset"
  Examples <- MCExamples
  MaxEdits = 2
INVARIANT AcceptedIsRanking
INVARIANT AcceptedStaysReplayable
INVARIANT OrderIsTotal
INVARIANT RanksAreReference
INVARIANT CausesAreListedBelow
INVARIANT PagesHaveNoGaps
INVARIANT OnlySecretsAreConcealed
PROPERTY WinnersKeepBystandersBehind
PROPERTY ShadowedNamesDoNotMatter
CHECK_DEADLOCK FALSE
