SPECIFICATION FairSpec
CONSTANTS
  Player = {p1, p2}
  Worker = {w1,w2}
  Name = {n1, n2}
  NoName = NoName
  NoPlayer = NoPlayer
  MaxEntries = 4
  MatchSize = 2
INVARIANT NamesUnique
INVARIANT AuditIsHistory
INVARIANT OnlyRenamesDeadlock
PROPERTY ImplementsAtomicRegistry
PROPERTY ImplementsSharedPlayers
PROPERTY RequestsReturn
