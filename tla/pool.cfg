SPECIFICATION FairSpec
CONSTANTS
  Request = {r1, r2, r3}
  Offered = {"get_match", "create_player", "submit_match", "recalculate_ratings"}
  MaxConnections = 2
  Mishaps = {"fail", "timeout", "drop"}
INVARIANT PoolIsServed
PROPERTY RequestsReturn
