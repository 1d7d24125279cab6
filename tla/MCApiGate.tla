----------------------------- MODULE MCApiGate ------------------------------
(***************************************************************************)
(* Small instances of ApiGate: an admin and a player, each with a session. *)
(***************************************************************************)
EXTENDS ApiGate, TLC

MCUser == ("ann" :> [hash |-> "right", role |-> "admin", active |-> TRUE]
             @@ "pat" :> [hash |-> "right", role |-> "player", active |-> TRUE])

MCSession == ("of ann" :> NewSession("ann", 2) @@ "of pat" :> NewSession("pat", 1))

Symmetry == Permutations(Request)
=============================================================================
