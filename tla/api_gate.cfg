SPECIFICATION Spec
SYMMETRY Symmetry
CONSTANTS
  Name = {"ann", "pat"}
  Password = {"right"}
  Malformed = Malformed
  Ttl = 2
  Request = {r1, r2}
  SessionId = {"of ann", "of pat"}
  NoSession = NoSession
  Offered = {"logout", "me", "get_match", "create_player", "delete_player", "recalculate_ratings", "list_audit_log"}
  InitialUser <- MCUser
  InitialSession <- MCSession
  MaxTime = 2
INVARIANT EffectsWereEntitled
INVARIANT RefusalsTellNothing
INVARIANT AnswersTellOutcome
