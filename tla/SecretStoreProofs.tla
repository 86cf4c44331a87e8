-------------------------- MODULE SecretStoreProofs --------------------------
(* Proofs about SecretStore, for all processes and any number of rotations. *)
EXTENDS SecretStore, TLAPS

\* The initial states satisfy the invariant: nothing is cached.
LEMMA InvInit == Init => Inv
  BY VersionAssumption DEF Init, Inv, TypeOK, HeldValues, NoValues, NoValue, Held, Versions

\* What get_secret returns: a value the process holds, or the latest one.
LEMMA SecretInv ==
  ASSUME Inv, NEW p \in Processes, NEW n \in Names, Secret(p, n) # NoValue
  PROVE  /\ Secret(p, n) \in Versions
         /\ cache[p][n] # NoValue => Secret(p, n) = cache[p][n]
         /\ cache[p][n] = NoValue => Secret(p, n) = latest[n]
  BY VersionAssumption
     DEF Inv, TypeOK, HeldValues, Secret, CloudSecret, Held, Versions, NoValue

\* get_secret changes no value a process holds, and keeps the caches within the bounds
\* of the invariant.
LEMMA ReadInv ==
  ASSUME Inv, NEW p \in Processes, NEW n \in Names, get_secret(p, n),
         UNCHANGED latest
  PROVE  /\ cache' \in [Processes -> [Names -> Held]]
         /\ cloud_cache' \in [Processes -> [Names -> Held]]
         /\ \A q \in Processes, m \in Names :
              /\ cache[q][m] # NoValue => cache'[q][m] = cache[q][m]
              /\ (cache[q][m] = NoValue /\ cache'[q][m] # NoValue) =>
                   cache'[q][m] = latest[m]
              /\ cloud_cache'[q][m] \in {NoValue, cache'[q][m]}
         /\ \A q \in Processes \ {p} :
              cache'[q] = cache[q] /\ cloud_cache'[q] = cloud_cache[q]
<1>1. /\ Secret(p, n) \in Held
      /\ cache[p][n] # NoValue => Secret(p, n) = cache[p][n]
      /\ cache[p][n] = NoValue => Secret(p, n) = latest[n]
  BY SecretInv DEF get_secret, Held
<1>2. cache' = [cache EXCEPT ![p][n] = Secret(p, n)]
  BY DEF get_secret
<1>3. cloud_cache' = [cloud_cache EXCEPT ![p][n] = Secret(p, n)] \/ cloud_cache' = cloud_cache
  BY DEF get_secret
<1>4. cache' \in [Processes -> [Names -> Held]]
  BY <1>1, <1>2 DEF Inv, TypeOK
<1>5. cloud_cache' \in [Processes -> [Names -> Held]]
  <2>1. CASE cloud_cache' = [cloud_cache EXCEPT ![p][n] = Secret(p, n)]
    BY <1>1, <2>1 DEF Inv, TypeOK
  <2>2. CASE cloud_cache' = cloud_cache
    BY <2>2 DEF Inv, TypeOK
  <2> QED BY <1>3, <2>1, <2>2
<1>6. ASSUME NEW q \in Processes, NEW m \in Names
      PROVE  /\ cache[q][m] # NoValue => cache'[q][m] = cache[q][m]
             /\ (cache[q][m] = NoValue /\ cache'[q][m] # NoValue) =>
                  cache'[q][m] = latest[m]
             /\ cloud_cache'[q][m] \in {NoValue, cache'[q][m]}
  <2>1. CASE q = p /\ m = n
    BY <1>1, <1>2, <1>3, <2>1 DEF Inv, TypeOK, HeldValues
  <2>2. CASE ~ (q = p /\ m = n)
    <3>1. cache'[q][m] = cache[q][m] /\ cloud_cache'[q][m] = cloud_cache[q][m]
      BY <1>2, <1>3, <2>2 DEF Inv, TypeOK
    <3> QED BY <3>1 DEF Inv, HeldValues
  <2> QED BY <2>1, <2>2
<1>7. ASSUME NEW q \in Processes \ {p}
      PROVE  cache'[q] = cache[q] /\ cloud_cache'[q] = cloud_cache[q]
  BY <1>2, <1>3 DEF Inv, TypeOK
<1> QED BY <1>4, <1>5, <1>6, <1>7

\* Every step preserves the invariant.
LEMMA InvStep == Inv /\ [Next]_vars => Inv'
<1> SUFFICES ASSUME Inv, [Next]_vars PROVE Inv'
  OBVIOUS
<1> USE DEF Inv
<1>1. ASSUME NEW p \in Processes, Start(p) PROVE Inv'
  <2>1. /\ get_secret(p, "db_password") /\ UNCHANGED latest /\ "db_password" \in Names
        /\ up' = up \cup {p} /\ since' = [since EXCEPT ![p] = latest]
        /\ cache[p] = NoValues
    BY <1>1 DEF Start, TypeOK, Names
  <2>2. TypeOK'
    BY <2>1, ReadInv DEF TypeOK
  <2>3. HeldValues'
    <3> SUFFICES ASSUME NEW q \in Processes, NEW m \in Names
                 PROVE  /\ since'[q][m] <= latest'[m]
                        /\ cache'[q][m] # NoValue =>
                             since'[q][m] <= cache'[q][m] /\ cache'[q][m] <= latest'[m]
                        /\ cloud_cache'[q][m] \in {NoValue, cache'[q][m]}
      BY DEF HeldValues
    <3>1. latest[m] \in Nat /\ latest' = latest
      BY <2>1, VersionAssumption DEF TypeOK, Held, Versions, NoValue
    <3>2. cloud_cache'[q][m] \in {NoValue, cache'[q][m]}
      BY <2>1, ReadInv
    <3>3. CASE q = p
      <4>1. since'[q][m] = latest[m] /\ cache[q][m] = NoValue
        BY <2>1, <3>3 DEF TypeOK, NoValues
      <4>2. cache'[q][m] # NoValue => cache'[q][m] = latest[m]
        BY <2>1, <4>1, ReadInv
      <4> QED BY <3>1, <3>2, <4>1, <4>2
    <3>4. CASE q # p
      <4>1. since'[q] = since[q] /\ cache'[q] = cache[q]
        BY <2>1, <3>4, ReadInv DEF TypeOK
      <4> QED BY <3>1, <3>2, <4>1 DEF HeldValues
    <3> QED BY <3>3, <3>4
  <2> QED BY <2>2, <2>3
<1>2. ASSUME NEW p \in Processes, NEW n \in Names, Read(p, n) PROVE Inv'
  <2>1. get_secret(p, n) /\ p \in up /\ UNCHANGED <<latest, up, since>>
    BY <1>2 DEF Read
  <2>2. TypeOK'
    <3>1. \A q \in Processes \ up' : q \in Processes \ {p}
      BY <2>1
    <3> QED BY <2>1, <3>1, ReadInv DEF TypeOK
  <2>3. HeldValues'
    <3> SUFFICES ASSUME NEW q \in Processes, NEW m \in Names
                 PROVE  /\ since[q][m] <= latest[m]
                        /\ cache'[q][m] # NoValue =>
                             since[q][m] <= cache'[q][m] /\ cache'[q][m] <= latest[m]
                        /\ cloud_cache'[q][m] \in {NoValue, cache'[q][m]}
      BY <2>1 DEF HeldValues
    <3>1. latest[m] \in Nat
      BY VersionAssumption DEF TypeOK, Held, Versions, NoValue
    <3>2. /\ cloud_cache'[q][m] \in {NoValue, cache'[q][m]}
          /\ cache[q][m] # NoValue => cache'[q][m] = cache[q][m]
          /\ (cache[q][m] = NoValue /\ cache'[q][m] # NoValue) => cache'[q][m] = latest[m]
      BY <2>1, ReadInv
    <3> QED BY <3>1, <3>2 DEF HeldValues
  <2> QED BY <2>2, <2>3
<1>3. ASSUME NEW p \in Processes, Stop(p) PROVE Inv'
  <2>1. NoValues \in [Names -> Held]
    BY DEF NoValues, Held
  <2>2. TypeOK'
    BY <1>3, <2>1 DEF Stop, TypeOK
  <2>3. HeldValues'
    <3> SUFFICES ASSUME NEW q \in Processes, NEW m \in Names
                 PROVE  /\ since'[q][m] <= latest[m]
                        /\ cache'[q][m] # NoValue =>
                             since'[q][m] <= cache'[q][m] /\ cache'[q][m] <= latest[m]
                        /\ cloud_cache'[q][m] \in {NoValue, cache'[q][m]}
      BY <1>3 DEF Stop, HeldValues
    <3>1. latest[m] \in Nat
      BY VersionAssumption DEF TypeOK, Held, Versions, NoValue
    <3>2. CASE q = p
      BY <1>3, <3>1, <3>2 DEF Stop, TypeOK, NoValues, NoValue
    <3>3. CASE q # p
      <4>1. since'[q] = since[q] /\ cache'[q] = cache[q] /\ cloud_cache'[q] = cloud_cache[q]
        BY <1>3, <3>3 DEF Stop, TypeOK
      <4> QED BY <4>1 DEF HeldValues
    <3> QED BY <3>2, <3>3
  <2> QED BY <2>2, <2>3
<1>4. ASSUME NEW p \in Processes, clear_secret_cache(p) PROVE Inv'
  <2>1. NoValues \in [Names -> Held]
    BY DEF NoValues, Held
  <2>2. TypeOK'
    BY <1>4, <2>1 DEF clear_secret_cache, TypeOK
  <2>3. HeldValues'
    BY <1>4 DEF clear_secret_cache, TypeOK, HeldValues, NoValues
  <2> QED BY <2>2, <2>3
<1>5. ASSUME NEW n \in Names, Push(n) PROVE Inv'
  <2>1. latest' \in [Names -> Held] /\ \A m \in Names : latest[m] <= latest'[m]
    BY <1>5, VersionAssumption DEF Push, TypeOK, Held, Versions, NoValue
  <2>2. TypeOK'
    BY <1>5, <2>1 DEF Push, TypeOK
  <2>3. HeldValues'
    BY <1>5, <2>1, VersionAssumption
       DEF Push, TypeOK, HeldValues, Held, Versions, NoValue
  <2> QED BY <2>2, <2>3
<1>6. CASE UNCHANGED vars
  BY <1>6 DEF vars, TypeOK, HeldValues
<1> QED BY <1>1, <1>2, <1>3, <1>4, <1>5, <1>6 DEF Next

\* Types are right, and a process holds no value older than the store had when it
\* started: a process that starts after a rotation uses the new value.
THEOREM StoreInvariant == Spec => []Inv
  BY InvInit, InvStep, PTL DEF Spec

\* One step of a running process keeps what it has cached.
LEMMA KeepsStep ==
  ASSUME Inv, [Next]_vars, NEW p \in up \cap up', NEW n \in Names, cache[p][n] # NoValue
  PROVE  cache'[p][n] = cache[p][n]
<1> p \in Processes
  BY DEF Inv, TypeOK
<1>1. ASSUME NEW q \in Processes, Start(q) PROVE cache'[p][n] = cache[p][n]
  BY <1>1, ReadInv DEF Start, Names
<1>2. ASSUME NEW q \in Processes, NEW m \in Names, Read(q, m) PROVE cache'[p][n] = cache[p][n]
  BY <1>2, ReadInv DEF Read
<1>3. ASSUME NEW q \in Processes, Stop(q) PROVE cache'[p][n] = cache[p][n]
  BY <1>3 DEF Stop, Inv, TypeOK
<1>4. CASE UNCHANGED cache
  BY <1>4
<1> QED BY <1>1, <1>2, <1>3, <1>4 DEF Next, vars, clear_secret_cache, Push
================================================================================
