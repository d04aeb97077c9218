------------------------------- MODULE Startup --------------------------------
(***************************************************************************)
(* What the server becomes for each environment it is started in           *)
(* (ADR-020): AppConfig::from_lookup reads it, and serve either exits or   *)
(* wires the adapters it asks for, spawns the background loop and listens. *)
(* Development falls back to the memory and to the no-op dispatcher;       *)
(* production must not.                                                    *)
(***************************************************************************)
EXTENDS Naturals, FiniteSets

VARIABLES
  env,       (* what each variable is set to                               *)
  server,    (* "starting", "configured", "wired", "listening", "exited"   *)
  config,    (* the AppConfig, or NoConfig                                 *)
  adapters   (* what is behind the ports, or NoAdapters                    *)

stVars == <<env, server, config, adapters>>

Unset == "unset"
SecretValues == {Unset, "", "change-me", "short", "long"}
Urls == {Unset, "", "url"}
Numbers == {Unset, "0", "5"}

(* What the choices depend on; the other variables are only handed on.     *)
Variables ==
  {"APP_ENV", "JWT_SECRET", "INTERNAL_API_TOKEN", "DATABASE_URL",
   "AGENT_API_URL", "DATABASE_MAX_CONNECTIONS", "SCHEDULER_TICK_SECONDS",
   "RATE_LIMIT_REDIS_URL", "SMTP_HOST", "SMTP_FROM"}

Environments ==
  [APP_ENV : {Unset, "production"},
   JWT_SECRET : SecretValues, INTERNAL_API_TOKEN : SecretValues,
   DATABASE_URL : Urls, AGENT_API_URL : Urls,
   DATABASE_MAX_CONNECTIONS : Numbers, SCHEDULER_TICK_SECONDS : Numbers,
   RATE_LIMIT_REDIS_URL : {Unset, "url", "junk"},
   SMTP_HOST : {Unset, "host"}, SMTP_FROM : {Unset, "address"}]

NothingSet == [n \in Variables |-> Unset]

PLACEHOLDERS == {"change-me", "insecure-dev-secret"}
REQUIRED_IN_PRODUCTION ==
  {"JWT_SECRET", "INTERNAL_API_TOKEN", "DATABASE_URL", "AGENT_API_URL"}

NoConfig == [set |-> FALSE]
NoAdapters == [repositories |-> "none"]

StTypeOK ==
  /\ env \in Environments
  /\ server \in {"starting", "configured", "wired", "listening", "exited"}
  /\ server \in {"configured", "wired", "listening"} => config # NoConfig
  /\ server \in {"wired", "listening"} => adapters # NoAdapters

StInit ==
  /\ env \in Environments
  /\ server = "starting"
  /\ config = NoConfig
  /\ adapters = NoAdapters
-----------------------------------------------------------------------------
(* Mutant: only a variable that is not set at all is missing.              *)
MissingRequiredUnset(names) == {n \in names : env[n] = Unset}

(* missing_required: not set, empty, or left at a placeholder.             *)
MissingRequired(names) ==
  {n \in names : env[n] \in {Unset, ""} \cup PLACEHOLDERS}

(* get of from_lookup: an empty variable is not set.                       *)
GetVar(name, default) == IF env[name] \in {Unset, ""} THEN default ELSE env[name]

(* get_u32: what does not parse gives the default.                         *)
GetU32(name, default) ==
  CASE GetVar(name, Unset) = "0" -> 0
    [] GetVar(name, Unset) = "5" -> 5
    [] OTHER -> default

AtLeastOne(n) == IF n = 0 THEN 1 ELSE n

(* from_lookup: an error lists what is missing; otherwise every gap has    *)
(* its fallback.                                                           *)
FromLookup ==
  /\ server = "starting"
  /\ IF env.APP_ENV = "production" /\ MissingRequired(REQUIRED_IN_PRODUCTION) # {}
     THEN server' = "exited" /\ UNCHANGED config
     ELSE /\ server' = "configured"
          /\ config' =
               [jwt_secret |-> GetVar("JWT_SECRET", "insecure-dev-secret"),
                internal_token |-> GetVar("INTERNAL_API_TOKEN", "change-me"),
                agent_api_url |-> GetVar("AGENT_API_URL", Unset),
                database_url |-> GetVar("DATABASE_URL", Unset),
                max_connections |-> AtLeastOne(GetU32("DATABASE_MAX_CONNECTIONS", 10)),
                tick_seconds |-> AtLeastOne(GetU32("SCHEDULER_TICK_SECONDS", 60)),
                redis_url |-> GetVar("RATE_LIMIT_REDIS_URL", Unset),
                smtp |-> IF Unset \in {GetVar("SMTP_HOST", Unset), GetVar("SMTP_FROM", Unset)}
                         THEN Unset ELSE env.SMTP_FROM]
  /\ UNCHANGED <<env, adapters>>

(* The pool cannot be opened or the migrations fail: expect.               *)
StorePanics ==
  /\ server = "configured" /\ config.database_url # Unset
  /\ server' = "exited"
  /\ UNCHANGED <<env, config, adapters>>

(* serve up to the listener: every port gets its adapter, the loop is      *)
(* spawned.  An unparsable Redis URL or sender leaves the fallback.        *)
Wire ==
  LET stored == config.database_url # Unset
      redis == config.redis_url = "url"
  IN  /\ server = "configured"
      /\ server' = "wired"
      /\ adapters' =
           [repositories |-> IF stored THEN "postgres" ELSE "memory",
            leader |-> IF stored THEN "advisory lock" ELSE "noop",
            dispatcher |-> IF config.agent_api_url # Unset THEN "http" ELSE "noop",
            embed |-> IF config.agent_api_url # Unset THEN "http" ELSE "noop",
            limiter |-> IF redis THEN "redis" ELSE "memory",
            email |-> IF config.smtp = "address" THEN "smtp" ELSE "disabled",
            email_enabled |-> config.smtp = "address"]
      /\ UNCHANGED <<env, config>>

(* The address may be taken: expect.                                       *)
BindAndServe ==
  /\ server = "wired"
  /\ server' \in {"listening", "exited"}
  /\ UNCHANGED <<env, config, adapters>>

(* SIGTERM or SIGINT.                                                      *)
Shutdown ==
  /\ server = "listening"
  /\ server' = "exited"
  /\ UNCHANGED <<env, config, adapters>>

StNext == FromLookup \/ StorePanics \/ Wire \/ BindAndServe \/ Shutdown

StSpec == StInit /\ [][StNext]_stVars
-----------------------------------------------------------------------------
(* Whatever it was given, a server that listens has a pool and a ticker    *)
(* that work; replicas share a leader lock exactly when they share rows;   *)
(* and in production nothing runs degraded: rows survive a restart, jobs   *)
(* and documents reach the agent, no secret is a published one.            *)
ListeningIsWhole ==
  server = "listening" =>
    /\ config.max_connections > 0 /\ config.tick_seconds > 0
    /\ (adapters.leader = "advisory lock") <=> (adapters.repositories = "postgres")
    /\ env.APP_ENV = "production" =>
         /\ adapters.repositories = "postgres"
         /\ adapters.dispatcher = "http" /\ adapters.embed = "http"
         /\ {config.jwt_secret, config.internal_token} \cap PLACEHOLDERS = {}
=============================================================================
