---------------------------- MODULE MCLoginGate -----------------------------
(***************************************************************************)
(* Small instances of LoginGate: two spellings of one name share a key of  *)
(* the limiter, and each is a user of its own.                             *)
(***************************************************************************)
EXTENDS LoginGate, TLC

MCKey == ("alice" :> "alice" @@ "Alice" :> "alice")

\* One row is unusual, with a hash nobody can parse.
MCUser ==
  ("alice" :> [hash |-> "right", role |-> "player", active |-> TRUE]
    @@ "Alice" :> [hash |-> Malformed, role |-> "player", active |-> TRUE])

Symmetry == Permutations(Login \ LoggingOut)
=============================================================================
