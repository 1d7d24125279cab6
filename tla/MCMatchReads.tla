----------------------------- MODULE MCMatchReads -----------------------------
(* The ledger's small instance, with one get_match request beside it. *)
EXTENDS MatchReads, MCRatingLedger
=============================================================================
