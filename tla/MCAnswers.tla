------------------------------ MODULE MCAnswers ------------------------------
(***************************************************************************)
(* The parts of the program that turn what they find into an answer and    *)
(* keep no state of their own: the settings, the validation of a match,    *)
(* the leaderboard, the listing of the audit log and what it shows of an   *)
(* entry.  They have nothing in common, so a behaviour is one of any of    *)
(* them while the others rest as they began.                               *)
(***************************************************************************)
EXTENDS MatchValidation, Leaderboard, AuditListing, AuditRedaction, Config

VARIABLE part   \* the part that is looked at

answersVars == <<part, validationVars, leaderboardVars, listingVars, redactionVars, configVars>>

Part == {"validation", "leaderboard", "listing", "redaction", "config"}

AnswersInit ==
  /\ part \in Part
  /\ ValidationInit /\ LeaderboardInit /\ ListingInit /\ RedactionInit /\ ConfigInit
  /\ part # "config" => file = CHOOSE example \in Examples : TRUE

AnswersNext ==
  /\ UNCHANGED part
  /\ \/ /\ part = "validation" /\ ValidateSubmission
        /\ UNCHANGED <<leaderboardVars, listingVars, redactionVars, configVars>>
     \/ /\ part = "leaderboard" /\ LeaderboardNext
        /\ UNCHANGED <<validationVars, listingVars, redactionVars, configVars>>
     \/ /\ part = "listing" /\ ListingNext
        /\ UNCHANGED <<validationVars, leaderboardVars, redactionVars, configVars>>
     \/ /\ part = "redaction" /\ ShowEntry
        /\ UNCHANGED <<validationVars, leaderboardVars, listingVars, configVars>>
     \/ /\ part = "config" /\ ConfigNext
        /\ UNCHANGED <<validationVars, leaderboardVars, listingVars, redactionVars>>

AnswersSpec == AnswersInit /\ [][AnswersNext]_answersVars

Symmetry == Permutations(Worker)

-----------------------------------------------------------------------------
(* Instances *)

\* A new player, who is displayed as 5 and scores 0; two that round alike (5 and
\* 2); and one who scores the same 2 and is displayed as 3.
MCDefaultSkill == [rating |-> 9, uncertainty |-> 3]
MCSkill ==
  {MCDefaultSkill, [rating |-> 9, uncertainty |-> 2], [rating |-> 10, uncertainty |-> 2],
   [rating |-> 6, uncertainty |-> 1]}

MCLimits == {0, 2, 4}

MCKey == {<<"token", FALSE>>, <<"token", TRUE>>, <<"result", FALSE>>}
MCWidth == <<3, 2, 1>>

\* All variables the program reads, and what they may hold.
MCText ==
  [APP_HOST |-> {"0.0.0.0"}, SERVICE_HOST |-> {"127.0.0.1"},
   APP_PORT |-> {"3000", "", "http"}, SERVICE_PORT |-> {"5433"}, PORT |-> {"7", "http"},
   DATABASE_MAX_CONNECTIONS |-> {"5", ""}, POSTGRES_CONNECTION_POOL |-> {"7", "many"},
   DATABASE_URL |-> {"postgres://", ""},
   POSTGRES_DB |-> {"foreign_aid"}, POSTGRES_HOST |-> {"localhost"},
   POSTGRES_PORT |-> {"5433", "http"}, POSTGRES_USER |-> {"admin"},
   POSTGRES_PASSWORD |-> {"admin"},
   ENV_FILE |-> {".local.env"}, ENV_TEST |-> {"1", "0"}]
MCVariable == DOMAIN MCText

\* .env.example, and a file with the older names and the parts of the database.
Example ==
  [APP_HOST |-> "0.0.0.0", APP_PORT |-> "3000", DATABASE_URL |-> "postgres://",
   DATABASE_MAX_CONNECTIONS |-> "5"]
OldExample ==
  [SERVICE_HOST |-> "127.0.0.1", SERVICE_PORT |-> "5433", POSTGRES_CONNECTION_POOL |-> "7",
   POSTGRES_DB |-> "foreign_aid", POSTGRES_HOST |-> "localhost", POSTGRES_PORT |-> "5433",
   POSTGRES_USER |-> "admin", POSTGRES_PASSWORD |-> "admin"]
MCExamples == {e @@ [k \in MCVariable |-> "unset"] : e \in {Example, OldExample}}
=============================================================================
