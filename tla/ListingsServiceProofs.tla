------------------------ MODULE ListingsServiceProofs ------------------------
(* Proofs about the listings service, for every set of users, ids, fields,      *)
(* values, requests and connections.                                            *)
EXTENDS ListingsService, TLAPS

--------------------------------------------------------------------------------
(* What the control of a handler does to its request and to the others *)

\* A request other than the one that moves is left as it was.
Untouched(q) ==
  /\ pc'[q] = pc[q] /\ op'[q] = op[q] /\ user'[q] = user[q] /\ lid'[q] = lid[q]
  /\ body'[q] = body[q] /\ loaded'[q] = loaded[q] /\ conn'[q] = conn[q]

TableTypes ==
  /\ DOMAIN listings \subseteq Ids /\ listings \in [DOMAIN listings -> Rows]
  /\ gone \subseteq Ids

RequestTypes ==
  /\ guc \in [Connections -> Users \cup {NoUser}]
  /\ pc \in [Requests -> Labels]
  /\ op \in [Requests -> Ops]
  /\ user \in [Requests -> Users \cup {NoUser}]
  /\ lid \in [Requests -> Ids \cup {NoId}]
  /\ conn \in [Requests -> Connections \cup {NoConn}]
  /\ sent \subseteq [to : Requests, user : Users \cup {NoUser}, outcome : Outcomes,
                     shows : SUBSET Ids]
  /\ body \in [Requests -> Bodies]
  /\ loaded \in [Requests -> Bodies]

LEMMA TypeParts == TypeOK <=> TableTypes /\ RequestTypes
BY DEF TypeOK, TableTypes, RequestTypes

\* The body that sends nothing is a body.
LEMMA NoBodyType == NoBody \in Bodies
<1>1. NoBody \in [{} -> Values \cup {BadValue}]
  BY DEF NoBody
<1>2. {} \in SUBSET Fields
  OBVIOUS
<1> QED BY <1>1, <1>2 DEF Bodies

\* The fields of a row are a body too: that is what a SELECT loads.
LEMMA FieldsType == [Fields -> Values] \subseteq Bodies
<1>1. [Fields -> Values] \subseteq [Fields -> Values \cup {BadValue}]
  OBVIOUS
<1> QED BY <1>1 DEF Bodies

\* An answer empties the slot and touches no other.
LEMMA AnswerTypes ==
  ASSUME NEW r \in Requests, NEW outcome \in Outcomes, NEW ids \in SUBSET Ids,
         RequestTypes, Answer(r, outcome, ids)
  PROVE  /\ RequestTypes'
         /\ pc'[r] = "idle" /\ op'[r] = "list" /\ user'[r] = NoUser /\ conn'[r] = NoConn
         /\ \A q \in Requests \ {r} : Untouched(q)
BY NoBodyType DEF Answer, EndTransaction, RequestTypes, Untouched, Labels, Ops

\* Ending a transaction leaves no identity behind, and none of another request changes.
LEMMA AnswerIdentity ==
  ASSUME NEW r \in Requests, NEW outcome \in Outcomes, NEW ids \in SUBSET Ids,
         RequestTypes, IdentityFollowsRequest, Answer(r, outcome, ids)
  PROVE  IdentityFollowsRequest'
<1>1. /\ conn'[r] = NoConn
      /\ \A q \in Requests \ {r} : conn'[q] = conn[q] /\ user'[q] = user[q]
  BY AnswerTypes DEF Untouched
<1>2. guc' = [c \in Connections |-> IF c = conn[r] THEN NoUser ELSE guc[c]]
  BY DEF Answer, EndTransaction
<1>3. \A q, s \in Requests : (q # s /\ conn'[q] # NoConn) => conn'[q] # conn'[s]
  BY <1>1 DEF IdentityFollowsRequest
<1>4. ASSUME NEW c \in Connections
      PROVE  \/ Free(c)' /\ guc'[c] = NoUser
             \/ \E q \in Requests : conn'[q] = c /\ guc'[c] = user'[q] /\ user'[q] # NoUser
  <2>1. c # NoConn
    BY ConnAssumption
  <2>2. CASE c = conn[r]
    <3>1. \A q \in Requests \ {r} : conn[q] # c
      BY <2>1, <2>2 DEF IdentityFollowsRequest
    <3>2. Free(c)'
      BY <1>1, <2>1, <3>1 DEF Free
    <3> QED BY <1>2, <2>2, <3>2
  <2>3. CASE c # conn[r]
    <3>1. guc'[c] = guc[c]
      BY <1>2, <2>3
    <3>2. CASE Free(c) /\ guc[c] = NoUser
      BY <1>1, <2>1, <3>1, <3>2 DEF Free
    <3>3. CASE \E q \in Requests : conn[q] = c /\ guc[c] = user[q] /\ user[q] # NoUser
      BY <1>1, <2>3, <3>1, <3>3
    <3> QED BY <3>2, <3>3 DEF IdentityFollowsRequest
  <2> QED BY <2>2, <2>3
<1> QED BY <1>3, <1>4 DEF IdentityFollowsRequest

\* An emptied slot relies on nothing and stands in nobody's way.
LEMMA AnswerLeaves ==
  ASSUME NEW r \in Requests, NEW outcome \in Outcomes, NEW ids \in SUBSET Ids,
         TypeOK, IdentityFollowsRequest, Answer(r, outcome, ids)
  PROVE  /\ RequestTypes' /\ IdentityFollowsRequest' /\ InHandler(r)'
         /\ pc'[r] = "idle" /\ op'[r] = "list"
         /\ \A q \in Requests \ {r} : Untouched(q)
<1>1. /\ RequestTypes'
      /\ pc'[r] = "idle" /\ op'[r] = "list" /\ user'[r] = NoUser /\ conn'[r] = NoConn
      /\ \A q \in Requests \ {r} : Untouched(q)
  BY AnswerTypes, TypeParts
<1>2. IdentityFollowsRequest'
  BY AnswerIdentity, TypeParts
<1>3. InHandler(r)'
  BY <1>1 DEF InHandler
<1> QED BY <1>1, <1>2, <1>3

\* Going on to the next statement changes the label and nothing else.
LEMMA AwaitKeeps ==
  ASSUME NEW r \in Requests, NEW label \in Labels, TypeOK, IdentityFollowsRequest,
         Await(r, label), loaded' \in [Requests -> Bodies],
         \A q \in Requests \ {r} : loaded'[q] = loaded[q]
  PROVE  /\ RequestTypes' /\ IdentityFollowsRequest'
         /\ pc'[r] = label /\ op'[r] = op[r] /\ user'[r] = user[r] /\ lid'[r] = lid[r]
         /\ body'[r] = body[r] /\ conn'[r] = conn[r]
         /\ \A q \in Requests \ {r} : Untouched(q)
<1>1. RequestTypes'
  BY DEF Await, TypeOK, RequestTypes, input
<1>2. IdentityFollowsRequest'
  BY DEF Await, IdentityFollowsRequest, Free, input
<1>3. /\ pc'[r] = label
      /\ \A q \in Requests \ {r} : pc'[q] = pc[q]
  BY DEF Await, TypeOK
<1>4. /\ op' = op /\ user' = user /\ lid' = lid /\ body' = body /\ conn' = conn
  BY DEF Await, input
<1> QED BY <1>1, <1>2, <1>3, <1>4 DEF Untouched

--------------------------------------------------------------------------------
(* The inductive invariant *)

\* What no step takes back: a listing keeps its owner until it is gone, and stays gone.
Kept ==
  /\ gone \subseteq gone'
  /\ \A i \in DOMAIN listings :
       \/ i \in gone'
       \/ i \in DOMAIN listings' /\ listings'[i].owner = listings[i].owner

\* What a request that does not move relies on is kept.
LEMMA FrameStep ==
  ASSUME NEW q \in Requests, InHandler(q), Untouched(q), Kept,
         (pc[q] = "commit" /\ op[q] = "patch") => lid[q] \in DOMAIN listings'
  PROVE  InHandler(q)'
<1>1. Written(q)' = Written(q)
  BY DEF Untouched, Written, Changed
<1> QED BY <1>1 DEF InHandler, Untouched, Kept

\* One request moves and what it needs for that is shown; the invariant follows.
LEMMA Combine ==
  ASSUME NEW r \in Requests, Inv,
         TableTypes', RequestTypes', IdentityFollowsRequest', InHandler(r)', Alone(r)',
         gone' \cap DOMAIN listings' = {}, Kept,
         \A q \in Requests \ {r} :
           /\ Untouched(q)
           /\ op[q] = "create" => lid[q] \notin DOMAIN listings' \cup gone'
           /\ (pc[q] = "commit" /\ op[q] = "patch") => lid[q] \in DOMAIN listings'
  PROVE  Inv'
<1>1. TypeOK'
  BY DEF TypeOK, TableTypes, RequestTypes
<1>2. ASSUME NEW q \in Requests \ {r} PROVE InHandler(q)'
  BY <1>2, FrameStep DEF Inv
<1>3. ASSUME NEW q \in Requests \ {r} PROVE Alone(q)'
  <2>1. ASSUME op'[q] = "create", NEW s \in Requests \ {q}, op'[s] = "create"
        PROVE  lid'[s] # lid'[q]
    BY <2>1, <1>3 DEF Inv, Alone, Untouched
  <2>2. ASSUME Locks(q)', NEW s \in Requests \ {q}, Locks(s)'
        PROVE  lid'[s] # lid'[q]
    BY <2>2, <1>3 DEF Inv, Alone, Untouched, Locks
  <2>3. op'[q] = "create" => lid'[q] \notin DOMAIN listings' \cup gone'
    BY <1>3 DEF Untouched
  <2> QED BY <2>1, <2>2, <2>3 DEF Alone
<1> QED BY <1>1, <1>2, <1>3 DEF Inv

\* The tables stay as they are.
LEMMA CombineReading ==
  ASSUME NEW r \in Requests, Inv, UNCHANGED table,
         RequestTypes', IdentityFollowsRequest', InHandler(r)', Alone(r)',
         \A q \in Requests \ {r} : Untouched(q)
  PROVE  Inv'
<1>1. listings' = listings /\ gone' = gone
  BY DEF table
<1>2. TableTypes'
  BY <1>1, TypeParts DEF Inv, TableTypes
<1>3. gone' \cap DOMAIN listings' = {} /\ Kept
  BY <1>1 DEF Inv, Kept
<1>4. \A q \in Requests \ {r} :
        /\ op[q] = "create" => lid[q] \notin DOMAIN listings' \cup gone'
        /\ (pc[q] = "commit" /\ op[q] = "patch") => lid[q] \in DOMAIN listings'
  BY <1>1 DEF Inv, Alone, InHandler
<1> QED BY <1>2, <1>3, <1>4, Combine

\* Every step that answers and leaves the tables alone.
LEMMA AnswerInv ==
  ASSUME NEW r \in Requests, NEW outcome \in Outcomes, NEW ids \in SUBSET Ids,
         Inv, Answer(r, outcome, ids), UNCHANGED table
  PROVE  Inv'
<1>1. /\ RequestTypes' /\ IdentityFollowsRequest' /\ InHandler(r)'
      /\ pc'[r] = "idle" /\ op'[r] = "list"
      /\ \A q \in Requests \ {r} : Untouched(q)
  BY AnswerLeaves DEF Inv
<1>2. Alone(r)'
  BY <1>1 DEF Alone, Locks
<1> QED BY <1>1, <1>2, CombineReading

--------------------------------------------------------------------------------
(* Each action preserves it *)

\* What a policy lets through is a listing of the user of the request.
LEMMA VisibleOwned ==
  ASSUME NEW r \in Requests, Inv, pc[r] \in {"select", "flush", "commit"}
  PROVE  /\ guc[conn[r]] = user[r] /\ conn[r] \in Connections /\ user[r] \in Users
         /\ Visible(r) = {i \in DOMAIN listings : listings[i].owner = user[r]}
         /\ Visible(r) \subseteq Ids
<1>1. conn[r] # NoConn /\ conn[r] \in Connections /\ user[r] \in Users
  BY DEF Inv, TypeOK, InHandler
<1>2. PICK q \in Requests : conn[q] = conn[r] /\ guc[conn[r]] = user[q]
  BY <1>1 DEF Inv, IdentityFollowsRequest, Free
<1>3. q = r
  BY <1>1, <1>2 DEF Inv, IdentityFollowsRequest
<1> QED BY <1>1, <1>2, <1>3 DEF Visible, Policy, Inv, TypeOK

\* The handlers that only read, the refused requests and the failures.
LEMMA ReadersInv ==
  ASSUME NEW r \in Requests, Inv,
         \/ Reject(r) \/ List(r) \/ Get(r) \/ NotFound(r) \/ PatchNothing(r)
         \/ FlushRefused(r) \/ Fail(r)
  PROVE  Inv'
<1>1. CASE Reject(r)
  BY <1>1, AnswerInv DEF Reject, Outcomes
<1>2. CASE List(r)
  <2>1. PICK page \in SUBSET Visible(r) : Answer(r, "ok", page)
    BY <1>2 DEF List
  <2>2. page \in SUBSET Ids
    BY <1>2, VisibleOwned DEF List
  <2> QED BY <1>2, <2>1, <2>2, AnswerInv DEF List, Outcomes
<1>3. CASE Get(r)
  <2>1. {lid[r]} \in SUBSET Ids
    BY <1>3, VisibleOwned DEF Get
  <2> QED BY <1>3, <2>1, AnswerInv DEF Get, Outcomes
<1>4. CASE NotFound(r)
  BY <1>4, AnswerInv DEF NotFound, Outcomes
<1>5. CASE PatchNothing(r)
  <2>1. {lid[r]} \in SUBSET Ids
    BY <1>5, VisibleOwned DEF PatchNothing
  <2> QED BY <1>5, <2>1, AnswerInv DEF PatchNothing, Outcomes
<1>6. CASE FlushRefused(r)
  BY <1>6, AnswerInv DEF FlushRefused, Outcomes
<1>7. CASE Fail(r)
  BY <1>7, AnswerInv DEF Fail, Outcomes
<1> QED BY <1>1, <1>2, <1>3, <1>4, <1>5, <1>6, <1>7

LEMMA ArriveInv ==
  ASSUME NEW r \in Requests, Inv, Arrive(r)
  PROVE  Inv'
<1>1. PICK o \in Ops, u \in Users, i \in Ids \cup {NoId}, b \in Bodies :
        /\ pc[r] = "idle"
        /\ Routed(o, i, b)
        /\ pc' = [pc EXCEPT ![r] = "set_rls"]
        /\ op' = [op EXCEPT ![r] = o]
        /\ user' = [user EXCEPT ![r] = u]
        /\ body' = [body EXCEPT ![r] = b]
        /\ lid' = [lid EXCEPT ![r] = i]
        /\ sent' = {}
        /\ UNCHANGED <<table, guc, loaded, conn>>
  BY DEF Arrive
<1>2. RequestTypes'
  BY <1>1 DEF Inv, TypeOK, RequestTypes, Labels
<1>3. conn[r] = NoConn
  BY <1>1 DEF Inv, InHandler
<1>4. IdentityFollowsRequest'
  <2>1. conn' = conn /\ guc' = guc /\ \A q \in Requests \ {r} : user'[q] = user[q]
    BY <1>1 DEF Inv, TypeOK
  <2>2. \A c \in Connections : c # NoConn
    BY ConnAssumption
  <2> QED BY <1>3, <2>1, <2>2 DEF Inv, IdentityFollowsRequest, Free
<1>5. /\ pc'[r] = "set_rls" /\ op'[r] = o /\ user'[r] = u /\ body'[r] = b /\ lid'[r] = i
      /\ conn'[r] = NoConn
      /\ \A q \in Requests \ {r} : Untouched(q)
  BY <1>1, <1>3 DEF Inv, TypeOK, Untouched
<1>6. InHandler(r)'
  BY <1>1, <1>5 DEF InHandler, Routed
<1>7. Alone(r)'
  BY <1>1, <1>5 DEF Alone, Locks, Routed, Unused, Untouched, table
<1> QED BY <1>1, <1>2, <1>4, <1>5, <1>6, <1>7, CombineReading

LEMMA SetRlsUserInv ==
  ASSUME NEW r \in Requests, Inv, SetRlsUser(r)
  PROVE  Inv'
<1>1. PICK c \in Connections :
        /\ pc[r] = "set_rls"
        /\ Free(c)
        /\ conn' = [conn EXCEPT ![r] = c]
        /\ guc' = [guc EXCEPT ![c] = user[r]]
        /\ pc' = [pc EXCEPT ![r] = IF op[r] = "create" THEN "flush" ELSE "select"]
        /\ sent' = {}
        /\ UNCHANGED <<table, input, loaded>>
  BY DEF SetRlsUser
<1>2. user[r] \in Users /\ conn[r] = NoConn /\ c # NoConn
  BY <1>1, ConnAssumption DEF Inv, InHandler
<1>3. RequestTypes'
  BY <1>1, <1>2 DEF Inv, TypeOK, RequestTypes, Labels, input
<1>4. /\ pc'[r] = IF op[r] = "create" THEN "flush" ELSE "select"
      /\ conn'[r] = c /\ op' = op /\ user' = user /\ lid' = lid /\ body' = body
      /\ \A q \in Requests \ {r} : Untouched(q)
  BY <1>1 DEF Inv, TypeOK, Untouched, input
<1>5. IdentityFollowsRequest'
  <2>1. /\ guc'[c] = user[r]
        /\ \A d \in Connections \ {c} : guc'[d] = guc[d]
    BY <1>1 DEF Inv, TypeOK
  <2>2. \A q \in Requests \ {r} : conn'[q] = conn[q] /\ conn[q] # c
    BY <1>1, <1>4 DEF Free, Untouched
  <2>3. \A q, s \in Requests : (q # s /\ conn'[q] # NoConn) => conn'[q] # conn'[s]
    BY <1>2, <1>4, <2>2 DEF Inv, IdentityFollowsRequest
  <2>4. user[r] # NoUser
    BY <1>2, UserAssumption
  <2>5. ASSUME NEW d \in Connections \ {c}
        PROVE  \/ Free(d)' /\ guc'[d] = NoUser
               \/ \E q \in Requests : conn'[q] = d /\ guc'[d] = user'[q] /\ user'[q] # NoUser
    <3>1. d # NoConn
      BY ConnAssumption
    <3> QED BY <1>2, <1>4, <2>1, <2>2, <3>1 DEF Inv, IdentityFollowsRequest, Free
  <2> QED BY <1>4, <2>1, <2>3, <2>4, <2>5 DEF IdentityFollowsRequest
<1>6. InHandler(r)'
  BY <1>1, <1>2, <1>4 DEF Inv, InHandler
<1>7. Alone(r)'
  BY <1>1, <1>4 DEF Inv, Alone, Locks, table
<1> QED BY <1>1, <1>3, <1>4, <1>5, <1>6, <1>7, CombineReading

LEMMA SelectToWriteInv ==
  ASSUME NEW r \in Requests, Inv, SelectToWrite(r)
  PROVE  Inv'
<1>1. /\ pc[r] = "select" /\ op[r] \in {"patch", "delete"} /\ lid[r] \in Visible(r)
      /\ loaded' = [loaded EXCEPT ![r] = listings[lid[r]].fields]
      /\ Await(r, "flush") /\ UNCHANGED table
  BY DEF SelectToWrite
<1>2. lid[r] \in DOMAIN listings /\ listings[lid[r]].owner = user[r]
  BY <1>1, VisibleOwned
<1>3. loaded' \in [Requests -> Bodies] /\ \A q \in Requests \ {r} : loaded'[q] = loaded[q]
  <2>1. listings[lid[r]].fields \in Bodies
    BY <1>2, FieldsType DEF Inv, TypeOK, Rows
  <2> QED BY <1>1, <2>1 DEF Inv, TypeOK
<1>4. /\ RequestTypes' /\ IdentityFollowsRequest'
      /\ pc'[r] = "flush" /\ op'[r] = op[r] /\ user'[r] = user[r] /\ lid'[r] = lid[r]
      /\ body'[r] = body[r] /\ conn'[r] = conn[r]
      /\ \A q \in Requests \ {r} : Untouched(q)
  BY <1>1, <1>3, AwaitKeeps DEF Inv, Labels
<1>5. InHandler(r)' /\ Alone(r)'
  BY <1>1, <1>2, <1>4 DEF Inv, InHandler, Alone, Locks, table
<1> QED BY <1>1, <1>4, <1>5, CombineReading

\* The flush of commit() went through: INSERT, UPDATE or DELETE, with the lock if it
\* was one of the latter.
LEMMA FlushedInv ==
  ASSUME NEW r \in Requests, Inv, pc[r] = "flush", Await(r, "commit"),
         UNCHANGED <<table, loaded>>,
         op[r] # "delete" => ~ RefusedByColumn(r),
         op[r] # "create" => ~ RowLocked(lid[r]),
         op[r] = "patch" => lid[r] \in DOMAIN listings
  PROVE  Inv'
<1>1. loaded' \in [Requests -> Bodies] /\ loaded' = loaded
  BY DEF Inv, TypeOK
<1>2. /\ RequestTypes' /\ IdentityFollowsRequest'
      /\ pc'[r] = "commit" /\ op'[r] = op[r] /\ user'[r] = user[r] /\ lid'[r] = lid[r]
      /\ body'[r] = body[r] /\ conn'[r] = conn[r]
      /\ \A q \in Requests \ {r} : Untouched(q)
  BY <1>1, AwaitKeeps DEF Inv, Labels
<1>3. Written(r)' = Written(r)
  BY <1>1, <1>2 DEF Written, Changed
<1>4. op[r] # "delete" => \A f \in DOMAIN Written(r) : Written(r)[f] \in Values
  <2>1. PICK F \in SUBSET Fields : body[r] \in [F -> Values \cup {BadValue}]
    BY DEF Inv, TypeOK, Bodies
  <2>2. \A f \in DOMAIN Written(r) : f \in F /\ Written(r)[f] = body[r][f]
    BY <2>1 DEF Written, Changed
  <2> QED BY <2>1, <2>2 DEF RefusedByColumn
<1>5. InHandler(r)'
  BY <1>2, <1>3, <1>4 DEF Inv, InHandler, table
<1>6. Alone(r)'
  BY <1>2 DEF Inv, Alone, Locks, RowLocked, table, Untouched
<1> QED BY <1>2, <1>5, <1>6, CombineReading DEF table

LEMMA WritersInv ==
  ASSUME NEW r \in Requests, Inv,
         InsertListing(r) \/ UpdateListing(r) \/ DeleteListing(r)
  PROVE  Inv'
<1>1. CASE InsertListing(r)
  BY <1>1, FlushedInv DEF InsertListing
<1>2. CASE UpdateListing(r)
  <2>1. CASE lid[r] \notin Visible(r) /\ Answer(r, "stale", {})
    BY <1>2, <2>1, AnswerInv DEF UpdateListing, Outcomes
  <2>2. CASE lid[r] \in Visible(r) /\ Await(r, "commit") /\ UNCHANGED loaded
    BY <1>2, <2>2, FlushedInv DEF UpdateListing, Visible
  <2> QED BY <1>2, <2>1, <2>2 DEF UpdateListing
<1>3. CASE DeleteListing(r)
  BY <1>3, FlushedInv DEF DeleteListing
<1> QED BY <1>1, <1>2, <1>3

\* A create stores a new listing of its user, and touches no other.
LEMMA CreateEffect ==
  ASSUME NEW r \in Requests, Inv, CommitCreate(r)
  PROVE  /\ lid[r] \in Ids /\ lid[r] \notin DOMAIN listings \cup gone
         /\ DOMAIN listings' = DOMAIN listings \cup {lid[r]}
         /\ listings'[lid[r]].owner = user[r] /\ listings'[lid[r]] \in Rows
         /\ \A i \in DOMAIN listings : listings'[i] = listings[i]
         /\ gone' = gone
<1>1. pc[r] = "commit" /\ op[r] = "create" /\ lid[r] \in Ids /\ user[r] \in Users
  BY DEF CommitCreate, Inv, InHandler
<1>2. lid[r] \notin DOMAIN listings \cup gone
  BY <1>1 DEF Inv, Alone
<1>3. body[r] \in [Fields -> Values]
  <2>1. DOMAIN body[r] = Fields /\ \A f \in Fields : body[r][f] \in Values
    BY <1>1 DEF Inv, InHandler, Written
  <2>2. PICK F \in SUBSET Fields : body[r] \in [F -> Values \cup {BadValue}]
    BY DEF Inv, TypeOK, Bodies
  <2> QED BY <2>1, <2>2
<1>4. listings' = [i \in DOMAIN listings \cup {lid[r]} |->
                     IF i = lid[r] THEN [owner |-> user[r], fields |-> body[r]] ELSE listings[i]]
  BY DEF CommitCreate
<1> QED BY <1>1, <1>2, <1>3, <1>4 DEF CommitCreate, Rows

\* A patch writes the fields that differ from what it loaded, into the row as it now is.
LEMMA PatchEffect ==
  ASSUME NEW r \in Requests, Inv, CommitPatch(r)
  PROVE  /\ lid[r] \in DOMAIN listings /\ listings[lid[r]].owner = user[r]
         /\ DOMAIN listings' = DOMAIN listings
         /\ listings'[lid[r]].owner = user[r] /\ listings'[lid[r]] \in Rows
         /\ listings'[lid[r]].fields = Merge(r)
         /\ \A i \in DOMAIN listings \ {lid[r]} : listings'[i] = listings[i]
         /\ gone' = gone
<1>1. pc[r] = "commit" /\ op[r] = "patch" /\ lid[r] \in DOMAIN listings
  BY DEF CommitPatch, Inv, InHandler
<1>2. listings[lid[r]].owner = user[r] /\ listings[lid[r]] \in Rows
  BY <1>1 DEF Inv, InHandler, TypeOK
<1>3. Merge(r) \in [Fields -> Values]
  <2>1. \A f \in Changed(r) : body[r][f] \in Values
    BY <1>1 DEF Inv, InHandler, Written
  <2>2. listings[lid[r]].fields \in [Fields -> Values]
    BY <1>2 DEF Rows
  <2> QED BY <2>1, <2>2 DEF Merge
<1>4. listings' = [listings EXCEPT ![lid[r]].fields = Merge(r)]
  BY DEF CommitPatch
<1>5. listings'[lid[r]] = [listings[lid[r]] EXCEPT !.fields = Merge(r)]
  BY <1>1, <1>4 DEF Inv, TypeOK
<1>6. DOMAIN listings' = DOMAIN listings /\ \A i \in DOMAIN listings \ {lid[r]} : listings'[i] = listings[i]
  BY <1>4 DEF Inv, TypeOK
<1> QED BY <1>1, <1>2, <1>3, <1>5, <1>6 DEF CommitPatch, Rows

\* A delete removes the listing, if it is still there, for good.
LEMMA DeleteEffect ==
  ASSUME NEW r \in Requests, Inv, CommitDelete(r)
  PROVE  /\ lid[r] \in DOMAIN listings => listings[lid[r]].owner = user[r]
         /\ DOMAIN listings' = DOMAIN listings \ {lid[r]}
         /\ \A i \in DOMAIN listings \ {lid[r]} : listings'[i] = listings[i]
         /\ gone' = gone \cup {lid[r]} /\ lid[r] \in Ids
<1>1. pc[r] = "commit" /\ op[r] = "delete"
  BY DEF CommitDelete
<1>2. /\ lid[r] \in gone \/ (lid[r] \in DOMAIN listings /\ listings[lid[r]].owner = user[r])
      /\ lid[r] \in Ids
      /\ gone \cap DOMAIN listings = {}
  BY <1>1 DEF Inv, InHandler
<1>3. /\ listings' = [i \in DOMAIN listings \ {lid[r]} |-> listings[i]]
      /\ gone' = gone \cup ({lid[r]} \cap DOMAIN listings)
  BY DEF CommitDelete
<1> QED BY <1>2, <1>3

\* A commit answers, with whatever outcome.
LEMMA CommitAnswers ==
  ASSUME NEW r \in Requests, Inv, CommitCreate(r) \/ CommitPatch(r) \/ CommitDelete(r)
  PROVE  /\ pc[r] = "commit"
         /\ RequestTypes' /\ IdentityFollowsRequest' /\ InHandler(r)' /\ Alone(r)'
         /\ \A q \in Requests \ {r} : Untouched(q)
<1>1. PICK outcome \in Outcomes, ids \in SUBSET Ids : Answer(r, outcome, ids)
  <2>1. CASE CommitCreate(r)
    BY <2>1, CreateEffect DEF CommitCreate, Outcomes
  <2>2. CASE CommitPatch(r)
    BY <2>2 DEF CommitPatch, Outcomes
  <2>3. CASE CommitDelete(r)
    BY <2>3 DEF CommitDelete, Outcomes
  <2> QED BY <2>1, <2>2, <2>3
<1>2. /\ RequestTypes' /\ IdentityFollowsRequest' /\ InHandler(r)'
      /\ pc'[r] = "idle" /\ op'[r] = "list"
      /\ \A q \in Requests \ {r} : Untouched(q)
  BY <1>1, AnswerLeaves DEF Inv
<1>3. Alone(r)'
  BY <1>2 DEF Alone, Locks
<1> QED BY <1>2, <1>3 DEF CommitCreate, CommitPatch, CommitDelete

LEMMA CommitsInv ==
  ASSUME NEW r \in Requests, Inv, CommitCreate(r) \/ CommitPatch(r) \/ CommitDelete(r)
  PROVE  Inv'
<1> DEFINE Others ==
      \A q \in Requests \ {r} :
        /\ op[q] = "create" => lid[q] \notin DOMAIN listings' \cup gone'
        /\ (pc[q] = "commit" /\ op[q] = "patch") => lid[q] \in DOMAIN listings'
<1>1. CASE CommitCreate(r)
  <2>1. TableTypes'
    BY <1>1, CreateEffect DEF CommitCreate, Inv, TypeOK, TableTypes
  <2>2. gone' \cap DOMAIN listings' = {} /\ Kept
    BY <1>1, CreateEffect DEF Inv, Kept
  <2>3. op[r] = "create"
    BY <1>1 DEF CommitCreate
  <2>4. ASSUME NEW q \in Requests \ {r}, op[q] = "create" PROVE lid[q] # lid[r]
    BY <2>3, <2>4 DEF Inv, Alone
  <2>5. ASSUME NEW q \in Requests, op[q] = "create" PROVE lid[q] \notin DOMAIN listings \cup gone
    BY <2>5 DEF Inv, Alone
  <2>6. ASSUME NEW q \in Requests, pc[q] = "commit", op[q] = "patch" PROVE lid[q] \in DOMAIN listings
    BY <2>6 DEF Inv, InHandler
  <2>7. DOMAIN listings' = DOMAIN listings \cup {lid[r]} /\ gone' = gone
    BY <1>1, CreateEffect
  <2>8. Others
    BY <2>4, <2>5, <2>6, <2>7
  <2> QED BY <1>1, <2>1, <2>2, <2>8, CommitAnswers, Combine
<1>2. CASE CommitPatch(r)
  <2>1. TableTypes'
    BY <1>2, PatchEffect DEF CommitPatch, Inv, TypeOK, TableTypes
  <2>2. gone' \cap DOMAIN listings' = {} /\ Kept
    BY <1>2, PatchEffect DEF Inv, Kept
  <2>3. Others
    BY <1>2, PatchEffect DEF Inv, Alone, InHandler
  <2> QED BY <2>1, <2>2, <2>3, CommitAnswers, Combine
<1>3. CASE CommitDelete(r)
  <2>1. TableTypes'
    BY <1>3, DeleteEffect DEF CommitDelete, Inv, TypeOK, TableTypes
  <2>2. gone' \cap DOMAIN listings' = {} /\ Kept
    BY <1>3, DeleteEffect DEF Inv, Kept
  <2>3. Locks(r)
    BY <1>3 DEF CommitDelete, Locks
  <2>4. lid[r] \in gone \/ lid[r] \in DOMAIN listings
    BY <1>3 DEF CommitDelete, Inv, InHandler
  <2>5. DOMAIN listings' = DOMAIN listings \ {lid[r]} /\ gone' = gone \cup {lid[r]}
    BY <1>3, DeleteEffect
  <2>6. ASSUME NEW q \in Requests \ {r}, op[q] = "create"
        PROVE  lid[q] \notin DOMAIN listings' \cup gone'
    <3>1. lid[q] \notin DOMAIN listings \cup gone
      BY <2>6 DEF Inv, Alone
    <3> QED BY <2>4, <2>5, <3>1
  <2>7. ASSUME NEW q \in Requests \ {r}, pc[q] = "commit", op[q] = "patch"
        PROVE  lid[q] \in DOMAIN listings'
    <3>1. lid[q] \in DOMAIN listings
      BY <2>7 DEF Inv, InHandler
    <3>2. lid[q] # lid[r]
      BY <2>3, <2>7 DEF Inv, Alone, Locks
    <3> QED BY <2>5, <3>1, <3>2
  <2>8. Others
    BY <2>6, <2>7
  <2> QED BY <2>1, <2>2, <2>8, CommitAnswers, Combine
<1> QED BY <1>1, <1>2, <1>3

LEMMA InvInit == Init => Inv
<1> SUFFICES ASSUME Init PROVE Inv
  OBVIOUS
<1>1. listings = [i \in {} |-> NoBody] /\ DOMAIN listings = {} /\ gone = {}
  BY DEF Init
<1>2. TypeOK
  BY <1>1, NoBodyType DEF Init, TypeOK, Labels, Ops
<1>3. IdentityFollowsRequest
  <2>1. \A r \in Requests : conn[r] = NoConn
    BY DEF Init
  <2>2. \A c \in Connections : guc[c] = NoUser
    BY DEF Init
  <2> QED BY <2>1, <2>2, ConnAssumption DEF IdentityFollowsRequest, Free
<1>4. \A r \in Requests : InHandler(r) /\ Alone(r)
  BY DEF Init, InHandler, Alone, Locks
<1> QED BY <1>1, <1>2, <1>3, <1>4 DEF Inv

LEMMA InvStep == Inv /\ [Next]_vars => Inv'
<1> SUFFICES ASSUME Inv, [Next]_vars PROVE Inv'
  OBVIOUS
<1>1. CASE UNCHANGED vars
  <2> USE <1>1 DEF vars, table, input
  <2>1. TypeOK' /\ IdentityFollowsRequest'
    BY DEF Inv, TypeOK, IdentityFollowsRequest, Free
  <2>2. ASSUME NEW r \in Requests PROVE InHandler(r)' /\ Alone(r)'
    <3>1. Written(r)' = Written(r)
      BY DEF Written, Changed
    <3>2. InHandler(r)'
      BY <3>1 DEF Inv, InHandler
    <3>3. Alone(r)'
      BY DEF Inv, Alone, Locks
    <3> QED BY <3>2, <3>3
  <2> QED BY <2>1, <2>2 DEF Inv
<1>2. ASSUME NEW r \in Requests, Arrive(r) \/ Reject(r) \/ Handle(r) \/ Fail(r) PROVE Inv'
  BY <1>2, ArriveInv, ReadersInv, SetRlsUserInv, SelectToWriteInv, WritersInv, CommitsInv
     DEF Handle
<1> QED BY <1>1, <1>2 DEF Next

--------------------------------------------------------------------------------
(* The theorems *)

\* The inductive invariant holds: types, the identity of every connection, what each
\* handler has at each statement, ids and row locks that nobody shares.
THEOREM Invariant == Spec => []Inv
BY InvInit, InvStep, PTL DEF Spec

\* A connection carries the identity of the request that holds it, and of nobody when
\* it is free, however many users and requests share the pool.
THEOREM IdentityIsolated == Spec => []IdentityFollowsRequest
<1>1. Inv => IdentityFollowsRequest
  BY DEF Inv
<1> QED BY Invariant, <1>1, PTL

\* How a step changes the table: one request creates, changes or removes one listing,
\* or none does.
LEMMA TableStep ==
  ASSUME Inv, Next
  PROVE  \/ UNCHANGED table
         \/ \E r \in Requests : CommitCreate(r) \/ CommitPatch(r) \/ CommitDelete(r)
<1>1. PICK r \in Requests : Arrive(r) \/ Reject(r) \/ Handle(r) \/ Fail(r)
  BY DEF Next
<1> QED
  BY <1>1 DEF Handle, Arrive, Reject, Fail, SetRlsUser, List, Get, NotFound, PatchNothing,
              SelectToWrite, FlushRefused, InsertListing, UpdateListing, DeleteListing, table

\* A listing changes, or is removed, only by the commit of a request of its owner, and
\* its owner never changes.
THEOREM OwnerAlone == Spec => OnlyOwnerWrites
<1> DEFINE Owned ==
      \A i \in DOMAIN listings :
        /\ i \in DOMAIN listings' => listings'[i].owner = listings[i].owner
        /\ (i \notin DOMAIN listings' \/ listings'[i] # listings[i]) =>
             \E r \in Requests : /\ pc[r] = "commit" /\ lid[r] = i
                                 /\ user[r] = listings[i].owner
<1>1. ASSUME Inv, Next PROVE Owned
  <2>1. CASE UNCHANGED table
    BY <2>1 DEF table
  <2>2. CASE \E r \in Requests : CommitCreate(r)
    BY <1>1, <2>2, CreateEffect
  <2>3. ASSUME NEW r \in Requests, CommitPatch(r) PROVE Owned
    <3>1. pc[r] = "commit" /\ listings[lid[r]].owner = user[r] /\ listings'[lid[r]].owner = user[r]
      BY <1>1, <2>3, PatchEffect DEF CommitPatch
    <3>2. \A i \in DOMAIN listings \ {lid[r]} : listings'[i] = listings[i]
      BY <1>1, <2>3, PatchEffect
    <3>3. DOMAIN listings' = DOMAIN listings
      BY <1>1, <2>3, PatchEffect
    <3> QED BY <3>1, <3>2, <3>3
  <2>4. ASSUME NEW r \in Requests, CommitDelete(r), NEW i \in DOMAIN listings
        PROVE  /\ i \in DOMAIN listings' => listings'[i] = listings[i]
               /\ i \notin DOMAIN listings' =>
                    pc[r] = "commit" /\ lid[r] = i /\ user[r] = listings[i].owner
    BY <1>1, <2>4, DeleteEffect DEF CommitDelete
  <2>5. CASE \E r \in Requests : CommitDelete(r)
    BY <2>4, <2>5
  <2> QED BY <1>1, <2>1, <2>2, <2>3, <2>5, TableStep
<1> HIDE DEF Owned
<1>2. Inv /\ [Next]_vars => [Owned]_vars
  BY <1>1
<1>3. Spec => [][Owned]_vars
  BY <1>2, Invariant, PTL DEF Spec
<1> QED BY <1>3 DEF OnlyOwnerWrites, Owned

\* A PATCH leaves alone the fields the client did not send, whatever others changed
\* between its SELECT and its commit.
THEOREM RestKept == Spec => PatchKeepsRest
<1> DEFINE Rest ==
      \A r \in Requests : (pc[r] = "commit" /\ op[r] = "patch") =>
        \A f \in Fields \ DOMAIN body[r] :
          lid[r] \in DOMAIN listings' =>
            listings'[lid[r]].fields[f] = listings[lid[r]].fields[f]
<1>1. ASSUME Inv, Next PROVE Rest
  <2> SUFFICES ASSUME NEW r \in Requests, pc[r] = "commit", op[r] = "patch",
                      NEW f \in Fields \ DOMAIN body[r], lid[r] \in DOMAIN listings'
               PROVE  listings'[lid[r]].fields[f] = listings[lid[r]].fields[f]
    OBVIOUS
  <2>1. Locks(r) /\ lid[r] \in DOMAIN listings
    BY <1>1 DEF Inv, InHandler, Locks
  <2>2. CASE UNCHANGED table
    BY <2>2 DEF table
  <2>3. CASE \E q \in Requests : CommitCreate(q)
    BY <1>1, <2>1, <2>3, CreateEffect
  <2>4. ASSUME NEW q \in Requests \ {r}, CommitPatch(q)
        PROVE  listings'[lid[r]] = listings[lid[r]]
    <3>1. Locks(q)
      BY <2>4 DEF CommitPatch, Locks
    <3>2. lid[q] # lid[r]
      BY <1>1, <2>1, <3>1 DEF Inv, Alone
    <3> QED BY <1>1, <2>1, <2>4, <3>2, PatchEffect
  <2>5. CASE CommitPatch(r)
    <3>1. listings'[lid[r]].fields = Merge(r)
      BY <1>1, <2>5, PatchEffect
    <3>2. f \in Fields /\ f \notin Changed(r)
      BY DEF Changed
    <3>3. Merge(r)[f] = listings[lid[r]].fields[f]
      BY <3>2 DEF Merge
    <3> QED BY <3>1, <3>3
  <2>6. CASE \E q \in Requests : CommitPatch(q)
    BY <2>4, <2>5, <2>6
  <2>7. CASE \E q \in Requests : CommitDelete(q)
    BY <1>1, <2>1, <2>7, DeleteEffect
  <2> QED BY <1>1, <2>2, <2>3, <2>6, <2>7, TableStep
<1> HIDE DEF Rest
<1>2. Inv /\ [Next]_vars => [Rest]_vars
  BY <1>1
<1>3. Spec => [][Rest]_vars
  BY <1>2, Invariant, PTL DEF Spec
<1> QED BY <1>3 DEF PatchKeepsRest, Rest

\* What the answers say: listings the policy lets through or the one just created, no
\* listing only if the policy lets none through, a deletion only at its commit.
LEMMA AnswersMean ==
  ASSUME Inv, Next, NEW a \in sent'
  PROVE  /\ a.to \in Requests
         /\ \/ a.shows = {}
            \/ pc[a.to] = "select" /\ UNCHANGED table /\ a.shows \subseteq Visible(a.to)
            \/ CommitCreate(a.to) /\ a.shows = {lid[a.to]}
         /\ a.outcome \in {"not_found", "stale"} =>
              pc[a.to] \in {"select", "flush"} /\ lid[a.to] \notin Visible(a.to)
         /\ (op[a.to] = "delete" /\ a.outcome = "ok") => CommitDelete(a.to)
<1>1. PICK r \in Requests : Arrive(r) \/ Reject(r) \/ Handle(r) \/ Fail(r)
  BY DEF Next
<1>2. CASE \/ Arrive(r) \/ SetRlsUser(r) \/ SelectToWrite(r) \/ InsertListing(r)
           \/ DeleteListing(r)
  BY <1>2 DEF Arrive, SetRlsUser, SelectToWrite, InsertListing, DeleteListing, Await
<1>3. CASE Reject(r) \/ FlushRefused(r) \/ Fail(r) \/ CommitPatch(r)
  BY <1>3 DEF Reject, FlushRefused, Fail, CommitPatch, Answer
<1>4. CASE List(r)
  BY <1>4 DEF List, Answer
<1>5. CASE Get(r) \/ PatchNothing(r)
  BY <1>5 DEF Get, PatchNothing, Answer
<1>6. CASE NotFound(r)
  BY <1>6 DEF NotFound, Answer
<1>7. CASE UpdateListing(r)
  BY <1>7 DEF UpdateListing, Answer, Await
<1>8. CASE CommitCreate(r)
  <2>1. op[r] = "create"
    BY <1>8 DEF CommitCreate
  <2>2. a.to = r /\ a.outcome \in {"ok", "unavailable"} /\ a.shows \in {{}, {lid[r]}}
    BY <1>8 DEF CommitCreate, Answer
  <2> QED BY <1>8, <2>1, <2>2
<1>9. CASE CommitDelete(r)
  <2>1. a.to = r /\ a.outcome \in {"ok", "unavailable"} /\ a.shows = {}
    BY <1>9 DEF CommitDelete, Answer
  <2> QED BY <1>9, <2>1
<1> QED BY <1>1, <1>2, <1>3, <1>4, <1>5, <1>6, <1>7, <1>8, <1>9 DEF Handle

\* An answer shows only listings of the user whose token it answers.
THEOREM OwnShown == Spec => ShowsOnlyOwn
<1> DEFINE Shown == \A a \in sent' : \A i \in a.shows : listings'[i].owner = user[a.to]
<1>1. ASSUME Inv, Next PROVE Shown
  <2> SUFFICES ASSUME NEW a \in sent', NEW i \in a.shows
               PROVE  listings'[i].owner = user[a.to]
    OBVIOUS
  <2>1. a.to \in Requests
    BY <1>1, AnswersMean
  <2>2. CASE pc[a.to] = "select" /\ UNCHANGED table /\ a.shows \subseteq Visible(a.to)
    <3>1. i \in DOMAIN listings /\ listings[i].owner = user[a.to]
      BY <1>1, <2>1, <2>2, VisibleOwned
    <3> QED BY <2>2, <3>1 DEF table
  <2>3. CASE CommitCreate(a.to) /\ a.shows = {lid[a.to]}
    BY <1>1, <2>1, <2>3, CreateEffect
  <2> QED BY <1>1, <2>2, <2>3, AnswersMean
<1> HIDE DEF Shown
<1>2. Inv /\ [Next]_vars => [Shown]_vars
  BY <1>1
<1>3. Spec => [][Shown]_vars
  BY <1>2, Invariant, PTL DEF Spec
<1> QED BY <1>3 DEF ShowsOnlyOwn, Shown

\* The owner of a listing is never told that it is not there while it is.
THEOREM OwnFound == Spec => OwnerFinds
<1> DEFINE Told ==
      \A a \in sent' :
        (a.outcome \in {"not_found", "stale"} /\ lid[a.to] \in DOMAIN listings) =>
          listings[lid[a.to]].owner # user[a.to]
<1>1. ASSUME Inv, Next PROVE Told
  BY <1>1, AnswersMean, VisibleOwned
<1> HIDE DEF Told
<1>2. Inv /\ [Next]_vars => [Told]_vars
  BY <1>1
<1>3. Spec => [][Told]_vars
  BY <1>2, Invariant, PTL DEF Spec
<1> QED BY <1>3 DEF OwnerFinds, Told

\* A DELETE answered 204 means that the listing is gone, and gone listings stay gone.
THEOREM DeletionFinal == Spec => DeletedForGood
<1> DEFINE Final ==
      /\ gone' \cap DOMAIN listings' = {}
      /\ \A a \in sent' :
           (op[a.to] = "delete" /\ a.outcome = "ok") => lid[a.to] \in gone'
<1>1. ASSUME Inv, Next PROVE Final
  <2>1. gone' \cap DOMAIN listings' = {}
    BY <1>1, InvStep DEF Inv
  <2> QED BY <1>1, <2>1, AnswersMean, DeleteEffect
<1> HIDE DEF Final
<1>2. Inv /\ [Next]_vars => [Final]_vars
  BY <1>1
<1>3. Spec => [][Final]_vars
  BY <1>2, Invariant, PTL DEF Spec
<1> QED BY <1>3 DEF DeletedForGood, Final

\* No deadlock: a commit waits for nobody, a statement that waits for a row waits for a
\* commit, and what waits for a connection has none for others to wait for.
LEMMA WaitsOrdered ==
  ASSUME Inv, NEW S \in SUBSET Requests, S # {}
  PROVE  \E r \in S : \A q \in S : ~ WaitsFor(r, q)
<1>1. CASE \E r \in S : pc[r] \notin {"set_rls", "flush"}
  BY <1>1 DEF WaitsFor
<1>2. CASE /\ \A r \in S : pc[r] \in {"set_rls", "flush"}
           /\ \E r \in S : pc[r] = "flush"
  BY <1>2 DEF WaitsFor, Locks
<1>3. CASE \A r \in S : pc[r] = "set_rls"
  BY <1>3 DEF WaitsFor, Inv, InHandler
<1> QED BY <1>1, <1>2, <1>3

\* There is no deadlock over connections and rows, for any pool and any number of
\* requests.
THEOREM NoDeadlock == Spec => []NoCircularWait
<1>1. Inv => NoCircularWait
  BY WaitsOrdered DEF NoCircularWait
<1> QED BY Invariant, <1>1, PTL
================================================================================
