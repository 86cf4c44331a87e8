------------------------------ MODULE TokenFlow ------------------------------
(****************************************************************************)
(* Tokens across the services: the processes of the auth service sign       *)
(* access and refresh tokens, those of the listings service validate access *)
(* tokens and those of the auth service refresh tokens, without a call      *)
(* between them.  What they share is the signing key, which each read from  *)
(* its own secret store at its own time, and the time of day, which each    *)
(* reads from its own clock.                                                *)
(*                                                                          *)
(* JWT times are whole seconds, a clock has TicksPerSecond ticks to one.    *)
(****************************************************************************)
EXTENDS SecretStore, FiniteSets

CONSTANTS
  AuthProcesses,   \* the processes of the auth service; the others are of listings
  Offsets,         \* how far a clock may be ahead of the slowest one, in ticks
  TicksPerSecond,
  Lifetime,        \* seconds a token of each type lives
  MaxTime,         \* bound: the slowest clock stops at this tick
  MaxTokens        \* bound: different tokens ever signed

Types == {"access", "refresh"}

ASSUME AuthAssumption == AuthProcesses \subseteq Processes
ASSUME OffsetAssumption == Offsets \subseteq Nat
ASSUME TicksAssumption == TicksPerSecond \in Nat \ {0}
ASSUME LifetimeAssumption == Lifetime \in [Types -> Nat]
ASSUME BoundAssumption == MaxTime \in Nat /\ MaxTokens \in Nat

VARIABLES
  now,       \* time, in ticks of the slowest clock
  ahead,     \* the offset of each process's clock
  tokens,    \* the tokens clients hold
  verdicts   \* what the last step answered, if it validated a token

flow == <<now, ahead, tokens, verdicts>>
allVars == <<vars, flow>>

clock(p) == now + ahead[p]

\* by, at and from are history: who signed the token, at what time by its own clock,
\* and the key the store had when that process started.
Token ==
  [type : Types, key : Versions, iat : Nat,
   by : Processes, at : Nat, from : Held]

--------------------------------------------------------------------------------

BugIat(p) == (clock(p) + TicksPerSecond - 1) \div TicksPerSecond
\* create_access_token and create_refresh_token: iat is cut to whole seconds when the
\* token is encoded, and exp is Lifetime later.
iat(p) == clock(p) \div TicksPerSecond

exp(t) == t.iat + Lifetime[t.type]

Sign(p, type) ==
  /\ p \in up \cap AuthProcesses
  /\ Cardinality(tokens) < MaxTokens
  /\ get_secret(p, "jwt_secret_key")
  /\ tokens' = tokens \cup
       {[type |-> type, key |-> Secret(p, "jwt_secret_key"), iat |-> iat(p),
         by |-> p, at |-> clock(p), from |-> since[p]["jwt_secret_key"]]}
  /\ verdicts' = {}
  /\ UNCHANGED <<latest, up, since, now, ahead>>

Wanted(p) == IF p \in AuthProcesses THEN "refresh" ELSE "access"

Expired(t, p) == exp(t) * TicksPerSecond <= clock(p)

Early(t, p) == clock(p) < t.iat * TicksPerSecond

\* jwt.decode refuses a token signed with another key, one whose iat is still to come
\* and one whose exp has come; the callers refuse one of the other type.
Accepts(p, t) ==
  /\ t.key = Secret(p, "jwt_secret_key")
  /\ ~ Early(t, p)
  /\ ~ Expired(t, p)
  /\ t.type = Wanted(p)

Validate(p) ==
  \E t \in tokens :
    /\ p \in up
    /\ get_secret(p, "jwt_secret_key")
    /\ verdicts' = {[by |-> p, token |-> t, accepted |-> Accepts(p, t)]}
    /\ UNCHANGED <<latest, up, since, now, ahead, tokens>>

Tick ==
  /\ now < MaxTime
  /\ now' = now + 1
  /\ verdicts' = {}
  /\ UNCHANGED <<vars, ahead, tokens>>

StoreStep == Next /\ verdicts' = {} /\ UNCHANGED <<now, ahead, tokens>>

FlowInit ==
  /\ Init
  /\ now = 0
  /\ ahead \in [Processes -> Offsets]
  /\ tokens = {}
  /\ verdicts = {}

FlowNext ==
  \/ StoreStep
  \/ \E p \in Processes : Validate(p) \/ \E type \in Types : Sign(p, type)
  \/ Tick

FlowSpec == FlowInit /\ [][FlowNext]_allVars

--------------------------------------------------------------------------------
(* Properties *)

\* Every variable has its type, and a token what its signer could have put in it: a
\* key the store had at or after the start of the signer, and an iat not after the
\* time on its clock.
TokenOK(t) ==
  /\ t \in Token
  /\ t.from <= t.key /\ t.key <= latest["jwt_secret_key"]
  /\ t.iat * TicksPerSecond <= t.at
  /\ t.at <= clock(t.by)

FlowTypeOK ==
  /\ now \in Nat
  /\ ahead \in [Processes -> Offsets]
  /\ \A t \in tokens : TokenOK(t)

FlowInv == Inv /\ FlowTypeOK

\* The key was set anew since the signer or the validator started.
Rotated(p, t) ==
  \/ latest["jwt_secret_key"] # t.from
  \/ latest["jwt_secret_key"] # since[p]["jwt_secret_key"]

\* "Existing JWTs still work until expiry": a service refuses a token of the type it
\* takes only when the token has expired on its clock, when the key was set anew since
\* one of the two processes started, or when its clock is behind that of the signer.
RefusalExplained ==
  [][\A v \in verdicts' :
       (~ v.accepted /\ v.token.type = Wanted(v.by)) =>
         \/ Expired(v.token, v.by)
         \/ Rotated(v.by, v.token)
         \/ ahead[v.by] < ahead[v.token.by]]_allVars

\* A token is accepted no longer than its lifetime after it was signed, give or take the
\* difference of the two clocks, although iat was cut to whole seconds.
AgeBounded ==
  [][\A v \in verdicts' : v.accepted =>
       clock(v.by) < v.token.at + TicksPerSecond * Lifetime[v.token.type]]_allVars

\* A process that started after a rotation accepts no token signed with an earlier key,
\* by whatever process and however long it has been running.
RotationRetires ==
  [][\A v \in verdicts' : v.accepted =>
       since[v.by]["jwt_secret_key"] <= v.token.key]_allVars

\* clear_secret_cache was called in p since it fetched the key.
Cleared(p) == p \in CloudProcesses /\ cloud_cache[p]["jwt_secret_key"] = NoValue

\* "Existing JWTs still work until expiry": a token that a process with a key in use takes
\* is taken by it until it expires, whatever key is pushed and whoever restarts, as long
\* as the process itself runs and its cache is not cleared.
StaysAccepted ==
  [][\A p \in up \cap up', t \in tokens :
       (cache[p]["jwt_secret_key"] # NoValue /\ ~ Cleared(p) /\ Accepts(p, t)) =>
         Accepts(p, t)' \/ Expired(t, p)']_allVars
================================================================================
