-------------------------------- MODULE Config --------------------------------
(***************************************************************************)
(* Load of internal/config/config.go: the environment turned into a        *)
(* configuration, or into the list of everything that is wrong with it.    *)
(* A value is blank, refused by the check of its variable ("bad"), or one  *)
(* of the values that the rest of the program tells apart.                 *)
(***************************************************************************)

CONSTANT Setting  \* the values that each variable may be given

\* Unset, empty or only spaces: TrimSpace makes them one.
Blank == ""

Default == [
  ADDR |-> ":8080", BASE_URL |-> "loopback", AUTHORIZATION_SERVERS |-> Blank,
  USERS_FILE |-> "users.json", NOTES_STORE |-> "memory", NOTES_FILE |-> "notes.json",
  LOG_LEVEL |-> "info"]

Var == DOMAIN Default

\* What the check of a variable accepts, once a blank has been replaced.  Any
\* address or path will do: whether it can be used shows later.
Accepted == [
  ADDR |-> {":8080"}, BASE_URL |-> {"loopback", "public"},
  AUTHORIZATION_SERVERS |-> {Blank, "issuer"},
  USERS_FILE |-> {"users.json"}, NOTES_STORE |-> {"memory", "file"},
  NOTES_FILE |-> {"notes.json"}, LOG_LEVEL |-> {"debug", "info", "warn", "error"}]

Environment == [
  ADDR : Setting.ADDR, BASE_URL : Setting.BASE_URL,
  AUTHORIZATION_SERVERS : Setting.AUTHORIZATION_SERVERS,
  USERS_FILE : Setting.USERS_FILE, NOTES_STORE : Setting.NOTES_STORE,
  NOTES_FILE : Setting.NOTES_FILE, LOG_LEVEL : Setting.LOG_LEVEL]

\* The variables whose value may be refused.
Checked == {"BASE_URL", "AUTHORIZATION_SERVERS", "NOTES_STORE", "LOG_LEVEL"}

ASSUME SettingAssumption ==
  \A v \in Var :
    Setting[v] \subseteq Accepted[v] \cup {Blank} \cup {b \in {"bad"} : v \in Checked}

\* MUTANT of Get: NOTES_FILE has no default.
GetBareNotesFile(env, v) ==
  IF env[v] = Blank /\ v # "NOTES_FILE" THEN Default[v] ELSE env[v]

Get(env, v) == IF env[v] = Blank THEN Default[v] ELSE env[v]

\* Every problem is noted before any is reported.  NOTES_FILE is looked at only
\* when the file store was asked for.
Problems(env) ==
  {v \in Checked : Get(env, v) \notin Accepted[v]}
  \cup {v \in {"ADDR", "USERS_FILE"} : Get(env, v) = Blank}
  \cup {v \in {"NOTES_FILE"} : Get(env, "NOTES_STORE") = "file" /\ Get(env, v) = Blank}

Load(env) == [v \in Var |-> Get(env, v)]

\* The operator says that clients reach this server from other machines.
PubliclyAddressed(cfg) == cfg.BASE_URL = "public"

===============================================================================
