--------------------------- MODULE TokenFlowProofs ---------------------------
(* Proofs about TokenFlow, for all processes, clock offsets and lifetimes. *)
EXTENDS TokenFlow, SecretStoreProofs

\* Signing and validating read the secret store, and nothing else touches it.
LEMMA FlowIsStoreStep == [FlowNext]_allVars => [Next]_vars
<1> "jwt_secret_key" \in Names
  BY DEF Names
<1>1. ASSUME NEW p \in Processes, NEW type \in Types, Sign(p, type) PROVE Read(p, "jwt_secret_key")
  BY <1>1 DEF Sign, Read
<1>2. ASSUME NEW p \in Processes, Validate(p) PROVE Read(p, "jwt_secret_key")
  BY <1>2 DEF Validate, Read
<1> QED
  BY <1>1, <1>2 DEF FlowNext, StoreStep, Tick, allVars, vars, Next

\* Therefore what was proved of the store holds of it here.
LEMMA FlowIsStore == FlowSpec => Spec
<1>1. FlowInit => Init
  BY DEF FlowInit
<1> QED BY <1>1, FlowIsStoreStep, PTL DEF FlowSpec, Spec

\* The key in the store never goes back.
LEMMA KeyGrows ==
  ASSUME Inv, [Next]_vars
  PROVE  latest["jwt_secret_key"] <= latest'["jwt_secret_key"]
<1>1. "jwt_secret_key" \in Names /\ latest \in [Names -> Nat]
  BY VersionAssumption DEF Names, Inv, TypeOK, Held, Versions, NoValue
<1> QED
  BY <1>1 DEF Next, vars, Start, Stop, Read, clear_secret_cache, Push

\* Cutting a clock reading to whole seconds never makes it later.
LEMMA CutIsEarlier ==
  ASSUME NEW c \in Nat
  PROVE  c \div TicksPerSecond \in Nat /\ (c \div TicksPerSecond) * TicksPerSecond <= c
  BY TicksAssumption

\* A clock is a natural number.
LEMMA ClockType ==
  ASSUME FlowTypeOK, NEW p \in Processes
  PROVE  clock(p) \in Nat
<1>1. ahead[p] \in Offsets /\ now \in Nat
  BY DEF FlowTypeOK
<1>2. ahead[p] \in Nat
  BY <1>1, OffsetAssumption
<1> QED BY <1>1, <1>2 DEF clock

\* A token just signed is as the invariant says.
LEMMA SignedOK ==
  ASSUME FlowInv, NEW p \in Processes, NEW type \in Types, Sign(p, type)
  PROVE  \A t \in tokens' \ tokens : TokenOK(t)
<1> DEFINE key == Secret(p, "jwt_secret_key")
           t == [type |-> type, key |-> key, iat |-> iat(p), by |-> p,
                 at |-> clock(p), from |-> since[p]["jwt_secret_key"]]
<1>1. tokens' \ tokens \subseteq {t}
  BY DEF Sign
<1>2. "jwt_secret_key" \in Names
  BY DEF Names
<1>3. /\ key \in Versions
      /\ cache[p]["jwt_secret_key"] # NoValue => key = cache[p]["jwt_secret_key"]
      /\ cache[p]["jwt_secret_key"] = NoValue => key = latest["jwt_secret_key"]
  BY <1>2, SecretInv DEF FlowInv, Sign, get_secret
<1>4. /\ since[p]["jwt_secret_key"] \in Held
      /\ latest["jwt_secret_key"] \in Nat
      /\ since[p]["jwt_secret_key"] <= latest["jwt_secret_key"]
      /\ cache[p]["jwt_secret_key"] # NoValue =>
           /\ since[p]["jwt_secret_key"] <= cache[p]["jwt_secret_key"]
           /\ cache[p]["jwt_secret_key"] <= latest["jwt_secret_key"]
  BY <1>2, VersionAssumption DEF FlowInv, Inv, TypeOK, HeldValues, Held, Versions, NoValue
<1>5. since[p]["jwt_secret_key"] <= key /\ key <= latest["jwt_secret_key"]
  BY <1>3, <1>4
<1>6. clock(p) \in Nat /\ iat(p) \in Nat /\ iat(p) * TicksPerSecond <= clock(p)
  BY ClockType, CutIsEarlier DEF FlowInv, iat
<1>7. t \in Token
  BY <1>3, <1>4, <1>6 DEF Token
<1>8. t.from <= t.key /\ t.key <= latest["jwt_secret_key"]
  BY <1>5
<1>9. t.iat * TicksPerSecond <= t.at /\ t.at <= clock(t.by)
  BY <1>6
<1> QED BY <1>1, <1>7, <1>8, <1>9 DEF TokenOK

\* Every clock only moves forward.
LEMMA ClockGrows ==
  ASSUME FlowTypeOK, [FlowNext]_allVars, NEW p \in Processes
  PROVE  clock(p) \in Nat /\ clock(p)' \in Nat /\ clock(p) <= clock(p)'
<1>1. ahead' = ahead /\ now' \in Nat /\ now <= now'
  BY DEF FlowTypeOK, FlowNext, StoreStep, Sign, Validate, Tick, allVars, flow
<1>2. ahead[p] \in Offsets /\ now \in Nat
  BY DEF FlowTypeOK
<1>3. ahead[p] \in Nat
  BY <1>2, OffsetAssumption
<1>4. clock(p) = now + ahead[p] /\ clock(p)' = now' + ahead[p]
  BY <1>1 DEF clock
<1> QED BY <1>1, <1>2, <1>3, <1>4

\* A token stays as the invariant says while the key and the clocks move on.
LEMMA TokenStaysOK ==
  ASSUME FlowInv, [FlowNext]_allVars, NEW t \in tokens
  PROVE  TokenOK(t)'
<1>1. TokenOK(t) /\ t.by \in Processes /\ t \in Token
  BY DEF FlowInv, FlowTypeOK, TokenOK, Token
<1>2. latest["jwt_secret_key"] <= latest'["jwt_secret_key"]
  BY KeyGrows, FlowIsStoreStep DEF FlowInv
<1>4. clock(t.by) \in Nat /\ clock(t.by)' \in Nat /\ clock(t.by) <= clock(t.by)'
  BY <1>1, ClockGrows DEF FlowInv
<1>5. latest["jwt_secret_key"] \in Nat /\ latest'["jwt_secret_key"] \in Nat
  <2>1. Inv'
    BY InvStep, FlowIsStoreStep DEF FlowInv
  <2> QED BY <2>1, VersionAssumption DEF FlowInv, Inv, TypeOK, Names, Held, Versions, NoValue
<1>6. t.key \in Nat /\ t.at \in Nat
  BY <1>1 DEF Token, Versions
<1> QED BY <1>1, <1>2, <1>4, <1>5, <1>6 DEF TokenOK

\* Every step preserves the invariant of the store and of the tokens.
LEMMA FlowInvStep == FlowInv /\ [FlowNext]_allVars => FlowInv'
<1> SUFFICES ASSUME FlowInv, [FlowNext]_allVars PROVE FlowInv'
  OBVIOUS
<1>1. Inv'
  BY InvStep, FlowIsStoreStep DEF FlowInv
<1>2. now' \in Nat /\ ahead' \in [Processes -> Offsets]
  BY DEF FlowInv, FlowTypeOK, FlowNext, StoreStep, Sign, Validate, Tick, allVars, flow
<1>3. ASSUME NEW t \in tokens' PROVE TokenOK(t)'
  <2>1. CASE t \in tokens
    BY <2>1, TokenStaysOK
  <2>2. CASE t \notin tokens
    <3>1. PICK p \in Processes, type \in Types : Sign(p, type)
      BY <2>2 DEF FlowNext, StoreStep, Validate, Tick, allVars, flow
    <3>2. TokenOK(t)
      BY <2>2, <3>1, SignedOK
    <3>3. UNCHANGED <<latest, now, ahead>>
      BY <3>1 DEF Sign
    <3> QED BY <3>2, <3>3 DEF TokenOK, clock
  <2> QED BY <2>1, <2>2
<1> QED BY <1>1, <1>2, <1>3 DEF FlowInv, FlowTypeOK

\* Types are right, every token carries a key the store had since its signer started,
\* and an issue time not after the time on the signer's clock.
THEOREM FlowInvariant == FlowSpec => []FlowInv
<1>1. FlowInit => FlowInv
  BY InvInit DEF FlowInit, FlowInv, FlowTypeOK
<1> QED BY <1>1, FlowInvStep, PTL DEF FlowSpec

\* What a step that answers a validation does.
LEMMA VerdictMeans ==
  ASSUME FlowInv, FlowNext, NEW v \in verdicts'
  PROVE  /\ v.by \in Processes /\ v.token \in tokens
         /\ v.accepted = Accepts(v.by, v.token)
         /\ get_secret(v.by, "jwt_secret_key")
         /\ UNCHANGED <<latest, since, now, ahead>>
<1>1. PICK p \in Processes : Validate(p)
  BY DEF FlowNext, StoreStep, Sign, Tick
<1> QED BY <1>1 DEF Validate

\* The key a process validates with lies between the one the store had when it started
\* and the latest one.
LEMMA KeyBounds ==
  ASSUME FlowInv, NEW p \in Processes, get_secret(p, "jwt_secret_key")
  PROVE  /\ Secret(p, "jwt_secret_key") \in Nat
         /\ since[p]["jwt_secret_key"] \in Nat
         /\ latest["jwt_secret_key"] \in Nat
         /\ since[p]["jwt_secret_key"] <= Secret(p, "jwt_secret_key")
         /\ Secret(p, "jwt_secret_key") <= latest["jwt_secret_key"]
<1>1. "jwt_secret_key" \in Names
  BY DEF Names
<1>2. /\ Secret(p, "jwt_secret_key") \in Versions
      /\ cache[p]["jwt_secret_key"] # NoValue =>
           Secret(p, "jwt_secret_key") = cache[p]["jwt_secret_key"]
      /\ cache[p]["jwt_secret_key"] = NoValue =>
           Secret(p, "jwt_secret_key") = latest["jwt_secret_key"]
  BY <1>1, SecretInv DEF FlowInv, get_secret
<1>3. /\ since[p]["jwt_secret_key"] \in Nat
      /\ latest["jwt_secret_key"] \in Nat
      /\ since[p]["jwt_secret_key"] <= latest["jwt_secret_key"]
      /\ cache[p]["jwt_secret_key"] # NoValue =>
           /\ since[p]["jwt_secret_key"] <= cache[p]["jwt_secret_key"]
           /\ cache[p]["jwt_secret_key"] <= latest["jwt_secret_key"]
  BY <1>1, VersionAssumption DEF FlowInv, Inv, TypeOK, HeldValues, Held, Versions, NoValue
<1> QED BY <1>2, <1>3 DEF Versions

\* A process refuses a token of the type it takes only if it has expired, the key was
\* set anew since the signer or the validator started, or its clock is behind.
THEOREM RefusalHasCause == FlowSpec => RefusalExplained
<1> DEFINE P == \A v \in verdicts' :
                  (~ v.accepted /\ v.token.type = Wanted(v.by)) =>
                    \/ Expired(v.token, v.by)
                    \/ Rotated(v.by, v.token)
                    \/ ahead[v.by] < ahead[v.token.by]
<1>1. ASSUME FlowInv, FlowNext PROVE P
  <2> SUFFICES ASSUME NEW v \in verdicts', ~ v.accepted, v.token.type = Wanted(v.by),
                      ~ Expired(v.token, v.by), ~ Rotated(v.by, v.token)
               PROVE  ahead[v.by] < ahead[v.token.by]
    OBVIOUS
  <2> DEFINE p == v.by
             t == v.token
  <2>1. /\ p \in Processes /\ t \in tokens /\ ~ Accepts(p, t)
        /\ get_secret(p, "jwt_secret_key")
    BY <1>1, VerdictMeans
  <2>2. TokenOK(t) /\ t \in Token
    BY <1>1, <2>1 DEF FlowInv, FlowTypeOK, TokenOK
  <2>3. t.key = Secret(p, "jwt_secret_key")
    <3>1. latest["jwt_secret_key"] = t.from /\ latest["jwt_secret_key"] = since[p]["jwt_secret_key"]
      BY DEF Rotated
    <3>2. t.key \in Nat
      BY <2>2 DEF Token, Versions
    <3> QED BY <1>1, <2>1, <2>2, <3>1, <3>2, KeyBounds DEF TokenOK
  <2>4. Early(t, p)
    BY <2>1, <2>3 DEF Accepts
  <2>5. clock(p) < t.iat * TicksPerSecond /\ t.iat * TicksPerSecond <= clock(t.by)
    <3>1. clock(p) \in Nat /\ clock(t.by) \in Nat /\ t.at \in Nat /\ t.iat * TicksPerSecond \in Nat
      BY <1>1, <2>1, <2>2, ClockType, TicksAssumption DEF Token, FlowInv
    <3> QED BY <2>2, <2>4, <3>1 DEF Early, TokenOK
  <2>6. now + ahead[p] < now + ahead[t.by]
    <3>1. clock(p) \in Nat /\ clock(t.by) \in Nat /\ t.iat * TicksPerSecond \in Nat
      BY <1>1, <2>1, <2>2, ClockType, TicksAssumption DEF Token, FlowInv
    <3> QED BY <2>5, <3>1 DEF clock
  <2>7. now \in Nat /\ ahead[p] \in Nat /\ ahead[t.by] \in Nat
    BY <1>1, <2>1, <2>2, OffsetAssumption DEF FlowInv, FlowTypeOK, Token
  <2> QED BY <2>6, <2>7
<1>2. FlowInv /\ [FlowNext]_allVars => [P]_allVars
  BY <1>1
<1> QED BY <1>2, FlowInvariant, PTL DEF FlowSpec, RefusalExplained

\* An accepted token was signed at most its lifetime ago, up to the offset of the two
\* clocks: the cut to whole seconds never adds to it.
THEOREM AgeIsBounded == FlowSpec => AgeBounded
<1> DEFINE P == \A v \in verdicts' : v.accepted =>
                  clock(v.by) < v.token.at + TicksPerSecond * Lifetime[v.token.type]
<1>1. ASSUME FlowInv, FlowNext PROVE P
  <2> SUFFICES ASSUME NEW v \in verdicts', v.accepted
               PROVE  clock(v.by) < v.token.at + TicksPerSecond * Lifetime[v.token.type]
    OBVIOUS
  <2> DEFINE p == v.by
             t == v.token
  <2>1. p \in Processes /\ t \in tokens /\ Accepts(p, t)
    BY <1>1, VerdictMeans
  <2>2. TokenOK(t) /\ t \in Token
    BY <1>1, <2>1 DEF FlowInv, FlowTypeOK, TokenOK
  <2>3. /\ clock(p) \in Nat /\ t.iat \in Nat /\ t.at \in Nat /\ Lifetime[t.type] \in Nat
        /\ TicksPerSecond \in Nat
    BY <1>1, <2>1, <2>2, ClockType, TicksAssumption, LifetimeAssumption DEF Token, FlowInv
  <2>4. clock(p) < exp(t) * TicksPerSecond
    <3>1. exp(t) * TicksPerSecond \in Nat
      BY <2>3 DEF exp
    <3> QED BY <2>1, <2>3, <3>1 DEF Accepts, Expired
  <2>5. exp(t) * TicksPerSecond = t.iat * TicksPerSecond + TicksPerSecond * Lifetime[t.type]
    BY <2>3 DEF exp
  <2>6. t.iat * TicksPerSecond <= t.at
    BY <2>2 DEF TokenOK
  <2>7. t.iat * TicksPerSecond \in Nat /\ TicksPerSecond * Lifetime[t.type] \in Nat
    BY <2>3
  <2> QED BY <2>3, <2>4, <2>5, <2>6, <2>7
<1>2. FlowInv /\ [FlowNext]_allVars => [P]_allVars
  BY <1>1
<1> QED BY <1>2, FlowInvariant, PTL DEF FlowSpec, AgeBounded

\* A process that started after a rotation accepts no token signed with an earlier key.
THEOREM OldKeysRetire == FlowSpec => RotationRetires
<1> DEFINE P == \A v \in verdicts' : v.accepted =>
                  since[v.by]["jwt_secret_key"] <= v.token.key
<1>1. ASSUME FlowInv, FlowNext PROVE P
  BY <1>1, VerdictMeans, KeyBounds DEF Accepts
<1>2. FlowInv /\ [FlowNext]_allVars => [P]_allVars
  BY <1>1
<1> QED BY <1>2, FlowInvariant, PTL DEF FlowSpec, RotationRetires

\* A token that a process with its key in use takes is taken by it until it expires: the
\* process keeps its key, whatever is pushed, and its clock only moves forward.
THEOREM TokensStay == FlowSpec => StaysAccepted
<1> DEFINE P == \A p \in up \cap up', t \in tokens :
                  (cache[p]["jwt_secret_key"] # NoValue /\ ~ Cleared(p) /\ Accepts(p, t)) =>
                    Accepts(p, t)' \/ Expired(t, p)'
<1>1. ASSUME FlowInv, [FlowNext]_allVars, NEW p \in up \cap up', NEW t \in tokens,
             cache[p]["jwt_secret_key"] # NoValue, Accepts(p, t)
      PROVE  Accepts(p, t)' \/ Expired(t, p)'
  <2>1. p \in Processes /\ "jwt_secret_key" \in Names
    BY <1>1 DEF FlowInv, Inv, TypeOK, Names
  <2>2. cache'[p]["jwt_secret_key"] = cache[p]["jwt_secret_key"]
    BY <1>1, <2>1, KeepsStep, FlowIsStoreStep DEF FlowInv
  <2>3. Secret(p, "jwt_secret_key")' = Secret(p, "jwt_secret_key")
    BY <1>1, <2>2 DEF Secret
  <2>4. ~ Early(t, p)'
    <3>1. clock(p) \in Nat /\ clock(p)' \in Nat /\ clock(p) <= clock(p)'
      BY <1>1, <2>1, ClockGrows DEF FlowInv
    <3>2. t.iat * TicksPerSecond \in Nat
      <4>1. t.iat \in Nat
        BY <1>1 DEF FlowInv, FlowTypeOK, TokenOK, Token
      <4> QED BY <4>1, TicksAssumption
    <3>3. ~ (clock(p) < t.iat * TicksPerSecond)
      BY <1>1 DEF Accepts, Early
    <3>4. ~ (clock(p)' < t.iat * TicksPerSecond)
      BY <3>1, <3>2, <3>3
    <3> QED BY <3>4 DEF Early
  <2>5. t.key = Secret(p, "jwt_secret_key")' /\ t.type = Wanted(p)
    BY <1>1, <2>3 DEF Accepts
  <2> QED BY <2>4, <2>5 DEF Accepts, Wanted
<1>2. FlowInv /\ [FlowNext]_allVars => [P]_allVars
  BY <1>1
<1> QED BY <1>2, FlowInvariant, PTL DEF FlowSpec, StaysAccepted
================================================================================
