-------------------------------- MODULE Config --------------------------------
(***************************************************************************)
(* Reading the settings (application/config.rs, db/options.rs): which      *)
(* environment variable a setting comes from, when it has two or three     *)
(* names, and which environments are refused.                              *)
(***************************************************************************)
EXTENDS Integers, FiniteSets, SequencesExt

CONSTANTS
  Variable,    \* environment variables
  Text,   \* what they may hold: Text[k], a set
  Unset   \* std::env::var(key).ok() is None

ASSUME ConfigAssumption == \A k \in Variable : Unset \notin Text[k]

\* str::parse::<u16>, <u32>
Parses(value) == value \in {"3000", "5433", "5", "7"}
Failed(error) == [ok |-> FALSE, error |-> error]
Found(value) == [ok |-> TRUE, value |-> value]

\* Mistake: an empty variable counts as one that is not set.
FirstSetNotBlank(env, keys) ==
  SelectInSeq(keys, LAMBDA k : env[k] \notin {Unset, ""})

\* keys.iter().find_map(lookup): 0 if none is set
FirstSet(env, keys) == SelectInSeq(keys, LAMBDA k : env[k] # Unset)

GetAny(env, keys) ==
  IF FirstSet(env, keys) = 0 THEN Failed("missing") ELSE Found(env[keys[FirstSet(env, keys)]])

ParseAny(env, keys) ==
  LET got == GetAny(env, keys)
  IN  IF got.ok /\ ~Parses(got.value) THEN Failed("parse") ELSE got

\* ... with the default when none is set
ParseAnyOptional(env, keys, default) ==
  IF FirstSet(env, keys) = 0 THEN Found(default) ELSE ParseAny(env, keys)

Hosts == <<"APP_HOST", "SERVICE_HOST">>
Ports == <<"APP_PORT", "SERVICE_PORT", "PORT">>
Pools == <<"DATABASE_MAX_CONNECTIONS", "POSTGRES_CONNECTION_POOL">>

\* Every name the program looks up is that of a variable somebody may set.
ASSUME NamesAssumption ==
  Range(Hosts \o Ports \o Pools)
    \cup {"DATABASE_URL", "POSTGRES_DB", "POSTGRES_HOST", "POSTGRES_PORT", "POSTGRES_USER",
          "POSTGRES_PASSWORD", "ENV_FILE", "ENV_TEST"} \subseteq Variable

\* PostgresOptions: DATABASE_URL alone, or its parts.
DatabaseSettings(env) ==
  IF env["DATABASE_URL"] # Unset
  THEN <<Found(env["DATABASE_URL"])>>
  ELSE <<GetAny(env, <<"POSTGRES_DB">>), GetAny(env, <<"POSTGRES_HOST">>),
         ParseAny(env, <<"POSTGRES_PORT">>), GetAny(env, <<"POSTGRES_USER">>),
         GetAny(env, <<"POSTGRES_PASSWORD">>)>>

\* Config::load_from_lookup: the first error ends it.
LoadFromLookup(env) ==
  LET settings == <<GetAny(env, Hosts), ParseAny(env, Ports), ParseAnyOptional(env, Pools, "5")>>
                    \o DatabaseSettings(env)
      wrong == SelectInSeq(settings, LAMBDA s : ~s.ok)
  IN  IF wrong = 0 THEN Found([i \in DOMAIN settings |-> settings[i].value])
      ELSE settings[wrong]

\* selected_env_file
EnvFile(env) ==
  IF env["ENV_FILE"] # Unset THEN env["ENV_FILE"]
  ELSE IF env["ENV_TEST"] = "1" THEN ".env_test" ELSE ".env"

\* load: dotenvy adds the file's variables to those that are set already.
WithFile(env, file) == [k \in Variable |-> IF env[k] = Unset THEN file[k] ELSE env[k]]

\* The environment that load looks into: the process's, with the selected file's
\* if there is one.  files: what each file holds that is there.
Seen(env, files) ==
  IF EnvFile(env) \in DOMAIN files THEN WithFile(env, files[EnvFile(env)]) ELSE env

-----------------------------------------------------------------------------
VARIABLES env, file, edits   \* the process's environment, .env, a bound

configVars == <<env, file, edits>>

CONSTANTS Examples, MaxEdits   \* files to begin with; bound: variables edited

ConfigInit ==
  /\ env = [k \in Variable |-> Unset]
  /\ file \in Examples
  /\ edits = 0

\* Somebody writes or deletes one variable.
Edit(k, value) ==
  \/ env' = [env EXCEPT ![k] = value] /\ UNCHANGED file
  \/ file' = [file EXCEPT ![k] = value] /\ UNCHANGED env

ConfigNext ==
  /\ edits < MaxEdits /\ edits' = edits + 1
  /\ \E k \in Variable, value \in {Unset} \cup UNION {Text[k] : k \in Variable} :
       value \in Text[k] \cup {Unset} /\ Edit(k, value)

ConfigSpec == ConfigInit /\ [][ConfigNext]_configVars

Lookup == Seen(env, [name \in {".env"} |-> file])
Loaded == LoadFromLookup(Lookup)

-----------------------------------------------------------------------------
(* Properties *)

\* The names of one setting, the first that is set being the one that counts;
\* DATABASE_URL comes before each of its parts.
NamesOfSettings ==
  {Hosts, Ports, Pools}
    \cup {<<"DATABASE_URL", part>> :
            part \in {"POSTGRES_DB", "POSTGRES_HOST", "POSTGRES_PORT",
                      "POSTGRES_USER", "POSTGRES_PASSWORD"}}

Shadowed(k, e) ==
  \E names \in NamesOfSettings : \E i, j \in DOMAIN names :
    i < j /\ names[j] = k /\ e[names[i]] # Unset

\* The variables that this step changes, in either place.
Edited == {k \in Variable : <<env[k], file[k]>> # <<env[k], file[k]>>'}

\* A variable that comes after one that is set, be that one empty or not a
\* number, changes neither the settings nor the error: an old name left behind
\* is harmless, and never repairs a wrong new one.
ShadowedNamesDoNotMatter ==
  [][Edited # {} /\ (\A k \in Edited : Shadowed(k, Lookup)) => Loaded' = Loaded]_configVars
=============================================================================
