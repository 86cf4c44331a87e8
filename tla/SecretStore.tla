----------------------------- MODULE SecretStore -----------------------------
(****************************************************************************)
(* The secret store of every service process: get_secret of                 *)
(* shared/secret_store.py, cached over get_cloud_secret of                  *)
(* shared/secrets_cloud.py, itself cached, over a store in which secrets    *)
(* are rotated while processes run.                                         *)
(*                                                                          *)
(* The values of a secret are its versions, 1, 2, ...; 0 stands for no      *)
(* value.  A read that misses both caches is one blocking call, so reading  *)
(* and caching are one step.  A read that fails raises, which lru_cache     *)
(* does not keep: it changes nothing and is no step here.  The caches hold  *)
(* 32 names, more than there are, and never evict.                          *)
(****************************************************************************)
EXTENDS Naturals

CONSTANTS
  Processes,       \* worker processes of the services
  CloudProcesses,  \* those with ENV=production
  MaxVersion       \* bound: how often a secret is set

ASSUME CloudAssumption == CloudProcesses \subseteq Processes
ASSUME VersionAssumption == MaxVersion \in Nat \ {0}

VARIABLES
  latest,       \* the store: version of each secret
  up,           \* the processes that run
  cache,        \* lru_cache of get_secret in each process
  cloud_cache,  \* lru_cache of get_cloud_secret in each process
  since         \* history: the store when the process started

vars == <<latest, up, cache, cloud_cache, since>>

NoValue == 0
Versions == 1..MaxVersion

\* What a service reads: the password of its database in its lifespan, the signing
\* key when a request first needs it.
Names == {"db_password", "jwt_secret_key"}

NoValues == [n \in Names |-> NoValue]

--------------------------------------------------------------------------------

\* What get_cloud_secret and get_secret return, NoValue if they raise.
CloudSecret(p, n) == IF cloud_cache[p][n] # NoValue THEN cloud_cache[p][n] ELSE latest[n]

BugSecret(p, n) == IF p \in CloudProcesses THEN CloudSecret(p, n) ELSE latest[n]
Secret(p, n) ==
  CASE cache[p][n] # NoValue -> cache[p][n]
    [] cache[p][n] = NoValue /\ p \in CloudProcesses -> CloudSecret(p, n)
    [] cache[p][n] = NoValue /\ p \notin CloudProcesses -> latest[n]

\* get_secret(n) returns in process p and leaves the value in the caches it passed.
get_secret(p, n) ==
  /\ Secret(p, n) # NoValue
  /\ cache' = [cache EXCEPT ![p][n] = Secret(p, n)]
  /\ cloud_cache' =
       IF p \in CloudProcesses /\ cache[p][n] = NoValue
       THEN [cloud_cache EXCEPT ![p][n] = Secret(p, n)]
       ELSE cloud_cache

\* The first use of a secret by a running process, whatever asks for it.
Read(p, n) ==
  /\ p \in up
  /\ get_secret(p, n)
  /\ UNCHANGED <<latest, up, since>>

\* The lifespan builds the database URL: without the password the process exits.
Start(p) ==
  /\ p \notin up
  /\ get_secret(p, "db_password")
  /\ up' = up \cup {p}
  /\ since' = [since EXCEPT ![p] = latest]
  /\ UNCHANGED latest

BugStop(p) ==
  /\ p \in up
  /\ up' = up \ {p}
  /\ UNCHANGED <<latest, cache, cloud_cache, since>>
\* A crash, a redeployment, a scale-in: the caches go with the process.
Stop(p) ==
  /\ p \in up
  /\ up' = up \ {p}
  /\ cache' = [cache EXCEPT ![p] = NoValues]
  /\ cloud_cache' = [cloud_cache EXCEPT ![p] = NoValues]
  /\ since' = [since EXCEPT ![p] = NoValues]
  /\ UNCHANGED latest

\* clear_secret_cache() empties the inner cache only.
clear_secret_cache(p) ==
  /\ p \in up \cap CloudProcesses
  /\ cloud_cache' = [cloud_cache EXCEPT ![p] = NoValues]
  /\ UNCHANGED <<latest, up, cache, since>>

\* sync-secrets-dev.yml, or an operator, sets a new value.
Push(n) ==
  /\ latest[n] < MaxVersion
  /\ latest' = [latest EXCEPT ![n] = @ + 1]
  /\ UNCHANGED <<up, cache, cloud_cache, since>>

Init ==
  /\ latest \in [Names -> {NoValue, 1}]
  /\ up = {}
  /\ cache = [p \in Processes |-> NoValues]
  /\ cloud_cache = [p \in Processes |-> NoValues]
  /\ since = [p \in Processes |-> NoValues]

Next ==
  \/ \E p \in Processes :
       Start(p) \/ Stop(p) \/ clear_secret_cache(p) \/ \E n \in Names : Read(p, n)
  \/ \E n \in Names : Push(n)

Spec == Init /\ [][Next]_vars

--------------------------------------------------------------------------------
(* Properties *)

Held == Versions \cup {NoValue}

\* Every variable has its type; what does not run holds nothing.
TypeOK ==
  /\ latest \in [Names -> Held]
  /\ up \subseteq Processes
  /\ cache \in [Processes -> [Names -> Held]]
  /\ cloud_cache \in [Processes -> [Names -> Held]]
  /\ since \in [Processes -> [Names -> Held]]
  /\ \A p \in Processes \ up : cache[p] = NoValues /\ cloud_cache[p] = NoValues

\* A process holds no value older than the store had when it started ("a fresh process
\* fetches the new value"), none that was never set, and its two caches do not differ.
HeldValues ==
  \A p \in Processes, n \in Names :
    /\ since[p][n] <= latest[n]
    /\ cache[p][n] # NoValue => since[p][n] <= cache[p][n] /\ cache[p][n] <= latest[n]
    /\ cloud_cache[p][n] \in {NoValue, cache[p][n]}

Inv == TypeOK /\ HeldValues
================================================================================
