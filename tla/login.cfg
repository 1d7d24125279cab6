SPECIFICATION Spec
SYMMETRY Symmetry
CONSTANTS
  Login = {l1, l2, l3}
  Name = {"alice", "Alice"}
  Password = {"right"}
  Malformed = Malformed
  Key <- MCKey
  InitialUser <- MCUser
  Operated = {"alice"}
  LoggingOut = {l1}
  Faults = {"fail", "restart"}
  Ttl = 1
  Limit = 2
  Window = 0
  MaxTime = 1
INVARIANT AttemptsBounded
INVARIANT LoginsOnRecord
INVARIANT LogoutIsFinal
PROPERTY RefusalsJustified
