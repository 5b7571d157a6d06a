------------------------------ MODULE Configuration ------------------------------
(***************************************************************************)
(* src/server/config.ts, src/persistence/configuration.ts and              *)
(* src/http/instance-credential.ts: what an environment must hold before a *)
(* process may start.                                                      *)
(*                                                                         *)
(* An environment gives each name a value: whether it is absent, blank or  *)
(* a text, and what the text denotes - a number, a secret with its length, *)
(* the parts of a URL.                                                     *)
(***************************************************************************)
EXTENDS Naturals

REQUIRED_CONFIGURATION ==
    {"PORT", "MODEL_PROVIDER", "OPENAI_API_KEY", "OPENAI_MODEL",
     "COOKFRAME_INGEST_CREDENTIAL", "COOKFRAME_LIBRARY_CREDENTIAL",
     "PUBLIC_BASE_URL", "STORAGE_ROOT"}

Names == REQUIRED_CONFIGURATION \cup {"DATABASE_URL"}

Absent == [given |-> "absent", is |-> "nothing"]
Blank  == [given |-> "blank", is |-> "nothing"]
Text(denoted) == [given |-> "text", is |-> denoted]

IsSet(env, name) == env[name].given = "text"

IsPort(n) == n \in 1..65535

(* What a base URL may not be: every capability address is built on it. *)
PublicBaseUrlFault(url) ==
    IF ~url.absolute THEN "is not an absolute URL"
    ELSE IF url.scheme \notin {"http", "https"} THEN "is not an http or https URL"
    ELSE IF url.credential THEN "carries a credential"
    ELSE IF url.more THEN "carries a query or fragment"
    ELSE "none"

SameSecret(env) ==
    /\ IsSet(env, "COOKFRAME_INGEST_CREDENTIAL") /\ IsSet(env, "COOKFRAME_LIBRARY_CREDENTIAL")
    /\ env["COOKFRAME_INGEST_CREDENTIAL"].is = env["COOKFRAME_LIBRARY_CREDENTIAL"].is

(* readConfiguration gathers every fault before it refuses. *)
Problems(env) ==
    {<<n, "is not set">> : n \in {r \in REQUIRED_CONFIGURATION : ~IsSet(env, r)}}
    \cup (IF IsSet(env, "PORT") /\ ~IsPort(env["PORT"].is)
          THEN {<<"PORT", "is not a port number">>} ELSE {})
    \cup (IF SameSecret(env)
          THEN {<<"COOKFRAME_LIBRARY_CREDENTIAL", "is the same value">>} ELSE {})
    \cup (IF IsSet(env, "PUBLIC_BASE_URL")
          THEN {<<"PUBLIC_BASE_URL", PublicBaseUrlFault(env["PUBLIC_BASE_URL"].is)>>}
               \ {<<"PUBLIC_BASE_URL", "none">>}
          ELSE {})

(* main: the settings, the one provider this build has, and the database's *)
(* address, before anything is opened.                                     *)
ResolvesDatabase(env) ==
    IsSet(env, "DATABASE_URL") /\ env["DATABASE_URL"].is \in {"postgres:", "postgresql:"}

StartsWith(env) ==
    /\ Problems(env) = {}
    /\ env["MODEL_PROVIDER"].is = "openai"
    /\ ResolvesDatabase(env)

(* createInstanceCredential refuses a secret a guess could find; it runs   *)
(* when the handlers are put together, after the store is open.            *)
MIN_INSTANCE_CREDENTIAL_LENGTH == 32

LongEnough(env) ==
    \A n \in {"COOKFRAME_INGEST_CREDENTIAL", "COOKFRAME_LIBRARY_CREDENTIAL"} :
        env[n].is.length >= MIN_INSTANCE_CREDENTIAL_LENGTH
===============================================================================
