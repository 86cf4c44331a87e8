------------------------ MODULE ListingsRefinementProofs ------------------------
(* Proof that the listings service implements ListingStore: every step is the   *)
(* moment of a request, one of the two earlier moments, or invisible.           *)
EXTENDS ListingsServiceProofs

Asking == [r \in Requests |-> Serves(r)]
Settling == [r \in Requests |-> Settled(r)]
Replies == {Reply(a) : a \in sent}

--------------------------------------------------------------------------------
(* The mapped state *)

\* A request in a handler is served, for what its client asked.
LEMMA Serving ==
  ASSUME NEW r \in Requests, Inv, pc[r] # "idle"
  PROVE  /\ Asking[r] # NoAsk
         /\ Asking[r].op = op[r] /\ Asking[r].user = user[r] /\ Asking[r].body = body[r]
         /\ op[r] # "create" => Asking[r].id = lid[r]
<1>1. op[r] \in Ops
  BY DEF Inv, TypeOK
<1> QED BY <1>1 DEF Asking, Serves, NoAsk, Ops

\* What the handler sees through the policy is what the store calls the user's own.
LEMMA OwnVisible ==
  ASSUME NEW r \in Requests, Inv, pc[r] \in {"select", "flush", "commit"}
  PROVE  /\ Promise!Own(r) = {i \in DOMAIN listings : listings[i].owner = user[r]}
         /\ Promise!Own(r) = Visible(r)
BY Serving, VisibleOwned DEF Promise!Own, Asking

\* Only the request that moves changes in the mapped state.
LEMMA MappedFrame ==
  ASSUME NEW r \in Requests, \A q \in Requests \ {r} : Untouched(q)
  PROVE  /\ Asking' = [Asking EXCEPT ![r] = Serves(r)']
         /\ Settling' = [Settling EXCEPT ![r] = Settled(r)']
         /\ Found' \ {r} = Found \ {r}
<1>1. ASSUME NEW q \in Requests \ {r}
      PROVE  Serves(q)' = Serves(q) /\ Settled(q)' = Settled(q) /\ (q \in Found' <=> q \in Found)
  BY <1>1 DEF Untouched, Serves, Settled, Found
<1>2. Asking' = [Asking EXCEPT ![r] = Serves(r)']
  BY <1>1 DEF Asking
<1>3. Settling' = [Settling EXCEPT ![r] = Settled(r)']
  BY <1>1 DEF Settling
<1>4. Found' \ {r} = Found \ {r}
  BY <1>1 DEF Found
<1> QED BY <1>2, <1>3, <1>4

\* An answer is a reply of the store.
LEMMA ReplyMaps ==
  ASSUME NEW r \in Requests, NEW outcome \in Outcomes, NEW ids \in SUBSET Ids, Inv,
         Answer(r, outcome, ids)
  PROVE  Promise!Reply(r, Reported(outcome), ids)
<1>1. pc'[r] = "idle" /\ op'[r] = "list" /\ \A q \in Requests \ {r} : Untouched(q)
  BY AnswerTypes, TypeParts DEF Inv
<1>2. Serves(r)' = NoAsk /\ Settled(r)' = {} /\ r \notin Found'
  BY <1>1 DEF Serves, NoAsk, Settled, Found
<1>3. /\ Asking' = [Asking EXCEPT ![r] = NoAsk]
      /\ Settling' = [Settling EXCEPT ![r] = {}]
      /\ Found' = Found \ {r}
  BY <1>1, <1>2, MappedFrame
<1>4. Replies' = {[to |-> r, outcome |-> Reported(outcome), shows |-> ids]}
  <2>1. sent' = {[to |-> r, user |-> user[r], outcome |-> outcome, shows |-> ids]}
    BY DEF Answer
  <2> QED BY <2>1 DEF Replies, Reply
<1> QED BY <1>3, <1>4 DEF Promise!Reply, Asking, Settling, Replies

\* Going on to the next statement does not change what is asked, and shows no answer.
LEMMA AwaitMaps ==
  ASSUME NEW r \in Requests, NEW label \in Labels \ {"idle"}, Inv, pc[r] # "idle",
         Await(r, label), loaded' \in [Requests -> Bodies],
         \A q \in Requests \ {r} : loaded'[q] = loaded[q]
  PROVE  /\ Asking' = Asking
         /\ Settling' = [Settling EXCEPT ![r] = Settled(r)']
         /\ Found' \ {r} = Found \ {r}
         /\ Replies' = {}
<1>1. /\ pc'[r] = label /\ op'[r] = op[r] /\ user'[r] = user[r] /\ lid'[r] = lid[r]
      /\ body'[r] = body[r]
      /\ \A q \in Requests \ {r} : Untouched(q)
  BY AwaitKeeps DEF Inv
<1>2. Serves(r)' = Serves(r)
  BY <1>1 DEF Serves
<1>3. Asking' = Asking
  BY <1>1, <1>2, MappedFrame DEF Asking
<1>4. Replies' = {}
  BY DEF Await, Replies
<1> QED BY <1>1, <1>3, <1>4, MappedFrame

\* A statement that settles nothing and finds nothing is invisible.
LEMMA InvisibleMaps ==
  ASSUME NEW r \in Requests, \A q \in Requests \ {r} : Untouched(q), UNCHANGED table,
         Serves(r)' = Serves(r), Settled(r)' = Settled(r), r \in Found' <=> r \in Found,
         sent' = {}
  PROVE  Promise!Sent
<1>1. Asking' = Asking /\ Settling' = Settling
  BY MappedFrame DEF Asking, Settling
<1>2. Found' = Found
  BY MappedFrame
<1>3. Replies' = {}
  BY DEF Replies
<1> QED BY <1>1, <1>2, <1>3 DEF Promise!Sent, Promise!table, Asking, Settling, Replies, table

\* The outcomes the client can tell apart.
LEMMA ReportedIs ==
  /\ Reported("ok") = "ok" /\ Reported("unauthorized") = "unauthorized"
  /\ Reported("not_found") = "not_found"
  /\ \A o \in {"refused", "stale", "unreadable", "unavailable"} : Reported(o) = "failed"
BY DEF Reported

\* An answer that shows the one listing it is about.
LEMMA ReplyShows ==
  ASSUME NEW r \in Requests, Inv, lid[r] \in Ids, Answer(r, "ok", {lid[r]})
  PROVE  /\ \A i \in Ids : i = lid[r] => Promise!Reply(r, "ok", {i})
         /\ Asking[r].id = lid[r] => Promise!Reply(r, "ok", {Asking[r].id})
<1>1. PICK ids \in SUBSET Ids : ids = {lid[r]}
  OBVIOUS
<1>2. Answer(r, "ok", ids)
  BY <1>1 DEF Answer
<1>3. Promise!Reply(r, "ok", ids)
  BY <1>2, ReplyMaps, ReportedIs DEF Outcomes
<1> QED BY <1>1, <1>3 DEF Promise!Reply

--------------------------------------------------------------------------------
(* The steps that leave the table alone *)

\* A request arrives: it asks.
LEMMA ArriveMaps ==
  ASSUME NEW r \in Requests, Inv, Arrive(r)
  PROVE  Promise!Ask(r)
<1>1. PICK o \in Ops, u \in Users, i \in Ids \cup {NoId}, b \in Bodies :
        /\ pc[r] = "idle"
        /\ pc' = [pc EXCEPT ![r] = "set_rls"]
        /\ op' = [op EXCEPT ![r] = o]
        /\ user' = [user EXCEPT ![r] = u]
        /\ body' = [body EXCEPT ![r] = b]
        /\ lid' = [lid EXCEPT ![r] = i]
        /\ sent' = {}
        /\ UNCHANGED <<table, guc, loaded, conn>>
  BY DEF Arrive
<1>2. /\ pc'[r] = "set_rls" /\ op'[r] = o /\ user'[r] = u /\ body'[r] = b /\ lid'[r] = i
      /\ \A q \in Requests \ {r} : Untouched(q)
  BY <1>1 DEF Inv, TypeOK, Untouched
<1>3. Asking[r] = NoAsk
  BY <1>1 DEF Asking, Serves
<1>4. Serves(r)' \in Promise!Asks
  BY <1>2 DEF Serves, Promise!Asks, Ops
<1>5. Settled(r)' = {} /\ Settled(r) = {} /\ r \notin Found' /\ r \notin Found
  BY <1>1, <1>2 DEF Settled, Found
<1>6. /\ Asking' = [Asking EXCEPT ![r] = Serves(r)']
      /\ Settling' = [Settling EXCEPT ![r] = Settled(r)']
      /\ Found' \ {r} = Found \ {r}
  BY <1>2, MappedFrame
<1>7. Settling' = Settling /\ Found' = Found
  <2>1. Settling' = Settling
    BY <1>5, <1>6 DEF Settling
  <2>2. Found' = Found
    BY <1>5, <1>6
  <2> QED BY <2>1, <2>2
<1>8. Replies' = {}
  BY <1>1 DEF Replies
<1> QED
  BY <1>1, <1>3, <1>4, <1>6, <1>7, <1>8
     DEF Promise!Ask, Promise!table, Asking, Settling, Replies, table

\* The first statement, and the writes that wait for their commit, are invisible.
LEMMA SetRlsUserMaps ==
  ASSUME NEW r \in Requests, Inv, SetRlsUser(r)
  PROVE  Promise!Sent
<1>1. /\ pc[r] = "set_rls" /\ pc'[r] \in {"flush", "select"} /\ (op[r] = "create" <=> pc'[r] = "flush")
      /\ op' = op /\ user' = user /\ lid' = lid /\ body' = body /\ sent' = {}
      /\ UNCHANGED table
      /\ \A q \in Requests \ {r} : Untouched(q)
  BY DEF SetRlsUser, input, Inv, TypeOK, Untouched
<1>2. Serves(r)' = Serves(r) /\ Settled(r)' = Settled(r) /\ (r \in Found' <=> r \in Found)
  BY <1>1 DEF Serves, Settled, Found
<1> QED BY <1>1, <1>2, InvisibleMaps

LEMMA FlushedMaps ==
  ASSUME NEW r \in Requests, Inv, pc[r] = "flush", Await(r, "commit"),
         UNCHANGED <<table, loaded>>
  PROVE  Promise!Sent
<1>1. loaded' \in [Requests -> Bodies] /\ loaded' = loaded
  BY DEF Inv, TypeOK
<1>2. /\ pc'[r] = "commit" /\ op'[r] = op[r] /\ user'[r] = user[r] /\ lid'[r] = lid[r]
      /\ body'[r] = body[r] /\ loaded'[r] = loaded[r] /\ sent' = {}
      /\ \A q \in Requests \ {r} : Untouched(q)
  BY <1>1, AwaitKeeps DEF Inv, Labels, Await
<1>3. Serves(r)' = Serves(r) /\ Settled(r)' = Settled(r) /\ (r \in Found' <=> r \in Found)
  BY <1>2 DEF Serves, Settled, Found
<1> QED BY <1>2, <1>3, InvisibleMaps

\* The SELECT of a PATCH or a DELETE is its earlier moment.
LEMMA SelectToWriteMaps ==
  ASSUME NEW r \in Requests, Inv, SelectToWrite(r)
  PROVE  Promise!Compare(r) \/ Promise!Find(r)
<1>1. /\ pc[r] = "select" /\ op[r] \in {"patch", "delete"} /\ lid[r] \in Visible(r)
      /\ loaded' = [loaded EXCEPT ![r] = listings[lid[r]].fields]
      /\ Await(r, "flush") /\ UNCHANGED table
  BY DEF SelectToWrite
<1>2. /\ lid[r] \in Promise!Own(r) /\ lid[r] \in DOMAIN listings
      /\ Asking[r].op = op[r] /\ Asking[r].id = lid[r] /\ Asking[r].body = body[r]
  BY <1>1, OwnVisible, Serving
<1>3. /\ loaded' \in [Requests -> Bodies] /\ loaded'[r] = listings[lid[r]].fields
      /\ \A q \in Requests \ {r} : loaded'[q] = loaded[q]
  <2>1. listings[lid[r]].fields \in Bodies
    BY <1>2, FieldsType DEF Inv, TypeOK, Rows
  <2> QED BY <1>1, <2>1 DEF Inv, TypeOK
<1>4. pc'[r] = "flush" /\ op'[r] = op[r] /\ body'[r] = body[r]
  BY <1>1, <1>3, AwaitKeeps DEF Inv, Labels
<1>5. /\ Asking' = Asking
      /\ Settling' = [Settling EXCEPT ![r] = Settled(r)']
      /\ Found' \ {r} = Found \ {r}
      /\ Replies' = {}
  BY <1>1, <1>3, AwaitMaps DEF Labels
<1>6. CASE op[r] = "patch"
  <2>1. Settled(r)' = {f \in DOMAIN body[r] : body[r][f] = listings[lid[r]].fields[f]}
    BY <1>3, <1>4, <1>6 DEF Settled
  <2>2. Found' = Found
    BY <1>4, <1>5, <1>6 DEF Found
  <2> QED
    BY <1>1, <1>2, <1>5, <1>6, <2>1, <2>2
       DEF Promise!Compare, Promise!table, Asking, Settling, Replies, table
<1>7. CASE op[r] = "delete"
  <2>1. Settled(r)' = {} /\ Settled(r) = {}
    BY <1>4, <1>7 DEF Settled
  <2>2. Settling' = Settling
    BY <1>5, <2>1 DEF Settling
  <2>3. Found' = Found \cup {r}
    BY <1>4, <1>5, <1>7 DEF Found
  <2> QED
    BY <1>1, <1>2, <1>5, <1>7, <2>2, <2>3
       DEF Promise!Find, Promise!table, Asking, Settling, Replies, table
<1> QED BY <1>1, <1>6, <1>7

\* The answers of a failure, of whatever kind, that leave the table alone.
LEMMA FailsMap ==
  ASSUME NEW r \in Requests, NEW outcome \in {"refused", "stale", "unavailable"}, Inv,
         pc[r] # "idle", Answer(r, outcome, {}), UNCHANGED table
  PROVE  Promise!Fail(r)
<1>1. Promise!Reply(r, Reported(outcome), {})
  BY ReplyMaps DEF Outcomes
<1>2. Reported(outcome) = "failed"
  BY DEF Reported
<1> QED BY <1>1, <1>2, Serving DEF Promise!Fail, Promise!table, Asking, table

LEMMA RejectMaps ==
  ASSUME NEW r \in Requests, Inv, Reject(r)
  PROVE  Promise!Reject(r)
<1>1. Promise!Reply(r, "unauthorized", {})
  BY ReplyMaps, ReportedIs DEF Reject, Outcomes
<1> QED BY <1>1 DEF Promise!Reject, Promise!table, Reject, Serves, table

LEMMA ListMaps ==
  ASSUME NEW r \in Requests, Inv, List(r)
  PROVE  Promise!List(r)
<1>1. PICK page \in SUBSET Visible(r) : Answer(r, "ok", page)
  BY DEF List
<1>2. pc[r] = "select" /\ op[r] = "list" /\ UNCHANGED table
  BY DEF List
<1>3. page \in SUBSET Promise!Own(r) /\ page \in SUBSET Ids
  BY <1>2, OwnVisible, VisibleOwned
<1>4. Promise!Reply(r, "ok", page)
  BY <1>1, <1>3, ReplyMaps, ReportedIs DEF Outcomes
<1> QED
  BY <1>2, <1>3, <1>4, Serving DEF Promise!List, Promise!table, Asking, table

LEMMA GetMaps ==
  ASSUME NEW r \in Requests, Inv, Get(r)
  PROVE  Promise!Get(r)
<1>1. /\ pc[r] = "select" /\ op[r] = "get" /\ UNCHANGED table
      /\ lid[r] \in Visible(r) /\ Answer(r, "ok", {lid[r]})
  BY DEF Get
<1>2. /\ lid[r] \in Promise!Own(r) /\ lid[r] \in Ids
      /\ Asking[r].op = "get" /\ Asking[r].id = lid[r]
  BY <1>1, OwnVisible, VisibleOwned, Serving
<1>3. Promise!Reply(r, "ok", {Asking[r].id})
  BY <1>1, <1>2, ReplyShows
<1> QED
  BY <1>1, <1>2, <1>3 DEF Promise!Get, Promise!table, Asking, table

LEMMA NotFoundMaps ==
  ASSUME NEW r \in Requests, Inv, NotFound(r)
  PROVE  Promise!NotFound(r)
<1>1. /\ pc[r] = "select" /\ op[r] # "list" /\ UNCHANGED table
      /\ lid[r] \notin Visible(r) /\ Answer(r, "not_found", {})
  BY DEF NotFound
<1>2. op[r] \in {"get", "patch", "delete"}
  BY <1>1 DEF Inv, InHandler, TypeOK, Ops
<1>3. lid[r] \notin Promise!Own(r)
  BY <1>1, OwnVisible
<1>4. Promise!Reply(r, "not_found", {})
  BY <1>1, ReplyMaps, ReportedIs DEF Outcomes
<1> QED
  BY <1>1, <1>2, <1>3, <1>4, Serving DEF Promise!NotFound, Promise!table, Asking, table

\* A PATCH that changes nothing has its two moments in one.
LEMMA PatchNothingMaps ==
  ASSUME NEW r \in Requests, Inv, PatchNothing(r)
  PROVE  Promise!Patch(r)
<1> DEFINE sends == DOMAIN body[r] \ Settled(r)
           old == listings[lid[r]].fields
           new == [f \in Fields |-> IF f \in sends THEN body[r][f] ELSE old[f]]
<1>1. /\ pc[r] = "select" /\ op[r] = "patch" /\ UNCHANGED table
      /\ lid[r] \in Visible(r) /\ Answer(r, "ok", {lid[r]})
      /\ \A f \in DOMAIN body[r] : body[r][f] = old[f]
  BY DEF PatchNothing
<1>2. /\ lid[r] \in Promise!Own(r) /\ lid[r] \in Ids /\ lid[r] \in DOMAIN listings
      /\ Asking[r].op = "patch" /\ Asking[r].id = lid[r] /\ Asking[r].body = body[r]
  BY <1>1, OwnVisible, VisibleOwned, Serving
<1>3. Promise!Reply(r, "ok", {Asking[r].id})
  BY <1>1, <1>2, ReplyShows
<1>4. /\ listings \in [DOMAIN listings -> Rows] /\ old \in [Fields -> Values]
      /\ listings[lid[r]] \in Rows
      /\ DOMAIN body[r] \subseteq Fields
  BY <1>2 DEF Inv, TypeOK, Rows, Bodies
<1>5. \A f \in sends : body[r][f] \in Values
  BY <1>1, <1>4
<1>6. new = old
  BY <1>1, <1>4
<1>7. listings' = [listings EXCEPT ![lid[r]].fields = new]
  <2>1. [listings[lid[r]] EXCEPT !.fields = old] = listings[lid[r]]
    BY <1>4 DEF Rows
  <2> QED BY <1>1, <1>2, <1>4, <1>6, <2>1 DEF table
<1> HIDE DEF new
<1>8. gone' = gone
  BY <1>1 DEF table
<1> QED
  BY <1>2, <1>3, <1>5, <1>7, <1>8 DEF Promise!Patch, Asking, Settling, new

--------------------------------------------------------------------------------
(* The commits *)

LEMMA CreateMaps ==
  ASSUME NEW r \in Requests, Inv, CommitCreate(r)
  PROVE  Promise!Create(r)
<1>1. /\ pc[r] = "commit" /\ op[r] = "create" /\ gone' = gone
      /\ listings' = [j \in DOMAIN listings \cup {lid[r]} |->
            IF j = lid[r] THEN [owner |-> user[r], fields |-> body[r]] ELSE listings[j]]
      /\ Answer(r, "ok", {lid[r]}) \/ Answer(r, "unavailable", {})
  BY DEF CommitCreate
<1>2. PICK i \in Ids \ (DOMAIN listings \cup gone) : i = lid[r]
  BY <1>1 DEF Inv, InHandler, Alone
<1>3. body[r] \in [Fields -> Values]
  <2>1. body[r] \in Bodies /\ DOMAIN body[r] = Fields /\ Written(r) = body[r]
    BY <1>1 DEF Inv, TypeOK, InHandler, Written
  <2>2. \A f \in Fields : body[r][f] \in Values
    BY <1>1, <2>1 DEF Inv, InHandler
  <2> QED BY <2>1, <2>2 DEF Bodies
<1>4. /\ Asking[r].op = "create" /\ Asking[r].body = body[r] /\ Asking[r].user = user[r]
  BY <1>1, Serving
<1>5. Promise!Reply(r, "ok", {i}) \/ Promise!Reply(r, "failed", {})
  BY <1>1, <1>2, ReplyShows, ReplyMaps, ReportedIs DEF Outcomes
<1>6. listings' = [j \in DOMAIN listings \cup {i} |->
        IF j = i THEN [owner |-> Asking[r].user, fields |-> Asking[r].body] ELSE listings[j]]
  BY <1>1, <1>2, <1>4
<1> QED BY <1>1, <1>2, <1>3, <1>4, <1>5, <1>6 DEF Promise!Create, Asking

LEMMA PatchMaps ==
  ASSUME NEW r \in Requests, Inv, CommitPatch(r)
  PROVE  Promise!Patch(r)
<1> DEFINE sends == DOMAIN body[r] \ Settled(r)
           old == listings[lid[r]].fields
           new == [f \in Fields |-> IF f \in sends THEN body[r][f] ELSE old[f]]
<1>1. /\ pc[r] = "commit" /\ op[r] = "patch" /\ gone' = gone
      /\ listings' = [listings EXCEPT ![lid[r]].fields = Merge(r)]
      /\ Answer(r, "unreadable", {}) \/ Answer(r, "unavailable", {})
  BY DEF CommitPatch
<1>2. /\ lid[r] \in Promise!Own(r)
      /\ Asking[r].op = "patch" /\ Asking[r].id = lid[r] /\ Asking[r].body = body[r]
  BY <1>1, OwnVisible, PatchEffect, Serving
<1>3. sends = Changed(r)
  BY <1>1 DEF Settled, Changed
<1>4. \A f \in sends : body[r][f] \in Values
  BY <1>1, <1>3 DEF Inv, InHandler, Written
<1>5. new = Merge(r)
  BY <1>3 DEF Merge
<1>6. Promise!Reply(r, "failed", {})
  BY <1>1, ReplyMaps, ReportedIs DEF Outcomes
<1> HIDE DEF new
<1> QED
  BY <1>1, <1>2, <1>4, <1>5, <1>6 DEF Promise!Patch, Asking, Settling, new

LEMMA DeleteMaps ==
  ASSUME NEW r \in Requests, Inv, CommitDelete(r)
  PROVE  Promise!Delete(r)
<1>1. /\ pc[r] = "commit" /\ op[r] = "delete"
      /\ listings' = [i \in DOMAIN listings \ {lid[r]} |-> listings[i]]
      /\ Answer(r, "ok", {}) \/ Answer(r, "unavailable", {})
  BY DEF CommitDelete
<1>2. Asking[r].op = "delete" /\ Asking[r].id = lid[r] /\ r \in Found
  BY <1>1, Serving DEF Found
<1>3. lid[r] \in gone \cup Promise!Own(r)
  BY <1>1, OwnVisible DEF Inv, InHandler
<1>4. gone' = gone \cup {lid[r]}
  BY DeleteEffect
<1>5. Promise!Reply(r, "ok", {}) \/ Promise!Reply(r, "failed", {})
  BY <1>1, ReplyMaps, ReportedIs DEF Outcomes
<1> QED BY <1>1, <1>2, <1>3, <1>4, <1>5 DEF Promise!Delete, Asking

--------------------------------------------------------------------------------
(* The refinement *)

\* A step of a handler is the moment of its request, an earlier moment, or invisible.
Moment(r) ==
  \/ Promise!Fail(r) \/ Promise!List(r) \/ Promise!Get(r) \/ Promise!NotFound(r)
  \/ Promise!Create(r) \/ Promise!Compare(r) \/ Promise!Patch(r)
  \/ Promise!Find(r) \/ Promise!Delete(r) \/ Promise!Sent

LEMMA MomentMaps ==
  ASSUME NEW r \in Requests, Inv, Handle(r) \/ Fail(r)
  PROVE  Moment(r)
<1>1. CASE SetRlsUser(r)
  BY <1>1, SetRlsUserMaps DEF Moment
<1>2. CASE List(r) \/ Get(r) \/ NotFound(r) \/ PatchNothing(r)
  BY <1>2, ListMaps, GetMaps, NotFoundMaps, PatchNothingMaps DEF Moment
<1>3. CASE SelectToWrite(r)
  BY <1>3, SelectToWriteMaps DEF Moment
<1>4. CASE FlushRefused(r) \/ Fail(r)
  BY <1>4, FailsMap DEF FlushRefused, Fail, Moment
<1>5. CASE InsertListing(r) \/ DeleteListing(r)
  BY <1>5, FlushedMaps DEF InsertListing, DeleteListing, Moment, table
<1>6. CASE UpdateListing(r)
  BY <1>6, FlushedMaps, FailsMap DEF UpdateListing, Moment, table
<1>7. CASE CommitCreate(r) \/ CommitPatch(r) \/ CommitDelete(r)
  BY <1>7, CreateMaps, PatchMaps, DeleteMaps DEF Moment
<1> QED BY <1>1, <1>2, <1>3, <1>4, <1>5, <1>6, <1>7 DEF Handle

LEMMA StepMaps == Inv /\ [Next]_vars => [Promise!Next]_(Promise!vars)
<1> SUFFICES ASSUME Inv, [Next]_vars PROVE [Promise!Next]_(Promise!vars)
  OBVIOUS
<1>1. CASE UNCHANGED vars
  <2>1. Asking' = Asking
    BY <1>1 DEF vars, input, Asking, Serves
  <2>2. Settling' = Settling
    BY <1>1 DEF vars, input, Settling, Settled
  <2>3. Found' = Found
    BY <1>1 DEF vars, input, Found
  <2>4. Replies' = Replies
    BY <1>1 DEF vars, Replies
  <2> QED
    BY <1>1, <2>1, <2>2, <2>3, <2>4
       DEF vars, table, Promise!vars, Promise!table, Asking, Settling, Replies
<1>2. ASSUME NEW r \in Requests, Handle(r) \/ Fail(r) PROVE Promise!Next
  BY <1>2, MomentMaps DEF Moment, Promise!Next
<1>3. ASSUME NEW r \in Requests, Arrive(r) \/ Reject(r) PROVE Promise!Next
  BY <1>3, ArriveMaps, RejectMaps DEF Promise!Next
<1> QED BY <1>1, <1>2, <1>3 DEF Next

LEMMA InitMaps == Init => Promise!Init
<1> SUFFICES ASSUME Init PROVE Promise!Init
  OBVIOUS
<1>1. listings = [i \in {} |-> NoAsk] /\ gone = {}
  BY DEF Init
<1>2. Asking = [r \in Requests |-> NoAsk]
  BY DEF Init, Asking, Serves
<1>3. Settling = [r \in Requests |-> {}]
  BY DEF Init, Settling, Settled
<1>4. Found = {} /\ Replies = {}
  BY DEF Init, Found, Replies
<1> QED BY <1>1, <1>2, <1>3, <1>4 DEF Promise!Init, Asking, Settling, Replies

\* The listings service implements ListingStore, for every set of users, listings,
\* fields, requests and connections, and whatever fails.
THEOREM ListingsRefinement == Spec => ImplementsListingStore
<1>1. Init => Promise!Init
  BY InitMaps
<1>2. Inv /\ [Next]_vars => [Promise!Next]_(Promise!vars)
  BY StepMaps
<1> QED BY <1>1, <1>2, Invariant, PTL DEF Spec, ImplementsListingStore, Promise!Spec

--------------------------------------------------------------------------------
(* One user's view of the mapped state *)

ViewRows(u) == [i \in OwnIds(u) |-> listings[i]]
ViewGone(u) == gone \cup (DOMAIN listings \ OwnIds(u))
ViewAsks(u) == [r \in Requests |-> IF user[r] = u THEN Serves(r) ELSE NoAsk]
ViewSettled(u) == [r \in Requests |-> IF user[r] = u THEN Settled(r) ELSE {}]
ViewFound(u) == {r \in Found : user[r] = u}
ViewReplies(u) == {Reply(a) : a \in {b \in sent : b.user = u}}

\* A step of a handler moves one request, which keeps its user or is over, and is
\* answered as the user it had.
LEMMA Moves ==
  ASSUME NEW r \in Requests, Inv, Handle(r) \/ Fail(r)
  PROVE  /\ pc[r] # "idle"
         /\ user'[r] = user[r] \/ pc'[r] = "idle"
         /\ \A a \in sent' : a.user = user[r]
         /\ \A q \in Requests \ {r} : Untouched(q)
         /\ \/ UNCHANGED table
            \/ CommitCreate(r) \/ CommitPatch(r) \/ CommitDelete(r)
<1>1. pc[r] # "idle"
  BY DEF Handle, Fail, SetRlsUser, List, Get, NotFound, PatchNothing, SelectToWrite,
         FlushRefused, InsertListing, UpdateListing, DeleteListing, CommitCreate,
         CommitPatch, CommitDelete
<1>2. \/ UNCHANGED table
      \/ CommitCreate(r) \/ CommitPatch(r) \/ CommitDelete(r)
  BY DEF Handle, Fail, SetRlsUser, List, Get, NotFound, PatchNothing, SelectToWrite,
         FlushRefused, InsertListing, UpdateListing, DeleteListing, table
<1> DEFINE Over == \E outcome \in Outcomes : \E ids : Answer(r, outcome, ids)
           GoesOn == \/ SetRlsUser(r)
                     \/ /\ \E label \in Labels : Await(r, label)
                        /\ loaded' = loaded \/ \E l : loaded' = [loaded EXCEPT ![r] = l]
<1>3. Over \/ GoesOn
  <2>1. CASE List(r) \/ Get(r) \/ NotFound(r) \/ PatchNothing(r) \/ FlushRefused(r) \/ Fail(r)
    BY <2>1 DEF List, Get, NotFound, PatchNothing, FlushRefused, Fail, Outcomes
  <2>2. CASE SelectToWrite(r) \/ InsertListing(r) \/ DeleteListing(r)
    BY <2>2 DEF SelectToWrite, InsertListing, DeleteListing, Labels
  <2>3. CASE UpdateListing(r)
    BY <2>3 DEF UpdateListing, Outcomes, Labels
  <2>4. CASE CommitCreate(r) \/ CommitPatch(r) \/ CommitDelete(r)
    BY <2>4 DEF CommitCreate, CommitPatch, CommitDelete, Outcomes
  <2> QED BY <2>1, <2>2, <2>3, <2>4 DEF Handle
<1>4. CASE Over
  BY <1>1, <1>2, <1>4 DEF Answer, EndTransaction, Untouched, Inv, TypeOK
<1>5. CASE GoesOn
  BY <1>1, <1>2, <1>5 DEF SetRlsUser, Await, Untouched, Inv, TypeOK, input
<1> QED BY <1>3, <1>4, <1>5

\* The view of a request's user changes as the mapped state does: in its slot.
LEMMA ViewMoves ==
  ASSUME NEW u \in Users, NEW r \in Requests, Inv, user[r] = u,
         \A q \in Requests \ {r} : Untouched(q),
         user'[r] = u \/ pc'[r] = "idle",
         \A a \in sent' : a.user = u
  PROVE  /\ ViewAsks(u)[r] = Asking[r] /\ ViewSettled(u)[r] = Settling[r]
         /\ r \in ViewFound(u) <=> r \in Found
         /\ ViewAsks(u)' = [ViewAsks(u) EXCEPT ![r] = Asking'[r]]
         /\ ViewSettled(u)' = [ViewSettled(u) EXCEPT ![r] = Settling'[r]]
         /\ ViewFound(u)' = (ViewFound(u) \ {r}) \cup (Found' \cap {r})
         /\ ViewReplies(u)' = Replies'
<1>1. ASSUME NEW q \in Requests \ {r}
      PROVE  /\ user'[q] = user[q] /\ Serves(q)' = Serves(q) /\ Settled(q)' = Settled(q)
             /\ q \in Found' <=> q \in Found
  BY <1>1 DEF Untouched, Serves, Settled, Found
<1>2. /\ (IF user[r] = u THEN Serves(r) ELSE NoAsk)' = Serves(r)'
      /\ (IF user[r] = u THEN Settled(r) ELSE {})' = Settled(r)'
      /\ r \in Found' => user'[r] = u
  BY DEF Serves, Settled, Found
<1>3. ViewAsks(u)' = [ViewAsks(u) EXCEPT ![r] = Asking'[r]]
  BY <1>1, <1>2 DEF ViewAsks, Asking
<1>4. ViewSettled(u)' = [ViewSettled(u) EXCEPT ![r] = Settling'[r]]
  BY <1>1, <1>2 DEF ViewSettled, Settling
<1>5. ViewFound(u)' = (ViewFound(u) \ {r}) \cup (Found' \cap {r})
  BY <1>1, <1>2 DEF ViewFound, Found
<1>6. ViewReplies(u)' = Replies'
  BY DEF ViewReplies, Replies
<1>7. /\ ViewAsks(u)[r] = Asking[r] /\ ViewSettled(u)[r] = Settling[r]
      /\ r \in ViewFound(u) <=> r \in Found
  BY DEF ViewAsks, ViewSettled, ViewFound, Asking, Settling
<1> QED BY <1>3, <1>4, <1>5, <1>6, <1>7

\* The user's own listings, in the view and in the store.
LEMMA ViewOwn ==
  ASSUME NEW u \in Users, NEW r \in Requests, Inv, user[r] = u, pc[r] # "idle"
  PROVE  /\ View(u)!Own(r) = OwnIds(u) /\ Promise!Own(r) = OwnIds(u)
         /\ ViewAsks(u)[r] = Asking[r] /\ Asking[r].user = u
         /\ ViewSettled(u)[r] = Settling[r] /\ (r \in ViewFound(u) <=> r \in Found)
<1>1. Asking[r].user = u /\ ViewAsks(u)[r] = Asking[r]
  BY Serving DEF ViewAsks, Asking
<1>2. ViewSettled(u)[r] = Settling[r] /\ (r \in ViewFound(u) <=> r \in Found)
  BY DEF ViewSettled, ViewFound, Settling
<1>3. Promise!Own(r) = OwnIds(u)
  BY <1>1 DEF Promise!Own, Asking, OwnIds
<1>4. View(u)!Own(r) = OwnIds(u)
  BY <1>1 DEF View!Own, ViewAsks, OwnIds
<1> QED BY <1>1, <1>2, <1>3, <1>4

\* The answer of a request of the user.
LEMMA ViewReply ==
  ASSUME NEW u \in Users, NEW r \in Requests, Inv, user[r] = u,
         \A q \in Requests \ {r} : Untouched(q),
         user'[r] = u \/ pc'[r] = "idle",
         \A a \in sent' : a.user = u,
         NEW outcome, NEW ids, Promise!Reply(r, outcome, ids)
  PROVE  View(u)!Reply(r, outcome, ids)
<1>1. /\ Asking' = [Asking EXCEPT ![r] = NoAsk]
      /\ Settling' = [Settling EXCEPT ![r] = {}]
      /\ Found' = Found \ {r}
      /\ Replies' = {[to |-> r, outcome |-> outcome, shows |-> ids]}
  BY DEF Promise!Reply, Asking, Settling, Replies
<1>2. Asking'[r] = NoAsk /\ Settling'[r] = {}
  BY <1>1 DEF Asking, Settling
<1>3. /\ ViewAsks(u)' = [ViewAsks(u) EXCEPT ![r] = NoAsk]
      /\ ViewSettled(u)' = [ViewSettled(u) EXCEPT ![r] = {}]
      /\ ViewFound(u)' = ViewFound(u) \ {r}
      /\ ViewReplies(u)' = {[to |-> r, outcome |-> outcome, shows |-> ids]}
  BY <1>1, <1>2, ViewMoves
<1> QED BY <1>3 DEF View!Reply, ViewAsks, ViewSettled, ViewFound, ViewReplies

LEMMA ViewShows ==
  ASSUME NEW u \in Users, NEW r \in Requests, Inv, user[r] = u, pc[r] # "idle",
         \A q \in Requests \ {r} : Untouched(q),
         user'[r] = u \/ pc'[r] = "idle",
         \A a \in sent' : a.user = u,
         Promise!Reply(r, "ok", {Asking[r].id})
  PROVE  View(u)!Reply(r, "ok", {ViewAsks(u)[r].id})
<1>1. PICK ids : ids = {Asking[r].id}
  OBVIOUS
<1>2. Promise!Reply(r, "ok", ids)
  BY <1>1 DEF Promise!Reply
<1>3. View(u)!Reply(r, "ok", ids)
  BY <1>2, ViewReply
<1>4. ids = {ViewAsks(u)[r].id}
  BY <1>1, ViewOwn
<1> QED BY <1>3, <1>4 DEF View!Reply

\* The tables of the view, when the tables of the service do not change.
LEMMA ViewTableSame ==
  ASSUME NEW u \in Users, UNCHANGED table
  PROVE  ViewRows(u)' = ViewRows(u) /\ ViewGone(u)' = ViewGone(u) /\ OwnIds(u)' = OwnIds(u)
BY DEF table, ViewRows, ViewGone, OwnIds

\* The moments of the user's requests that leave the tables alone.
LEMMA OwnReads ==
  ASSUME NEW u \in Users, NEW r \in Requests, Inv, user[r] = u, pc[r] # "idle",
         \A q \in Requests \ {r} : Untouched(q),
         user'[r] = u \/ pc'[r] = "idle",
         \A a \in sent' : a.user = u,
         UNCHANGED table
  PROVE  /\ Promise!Fail(r) => View(u)!Fail(r)
         /\ Promise!List(r) => View(u)!List(r)
         /\ Promise!Get(r) => View(u)!Get(r)
         /\ Promise!NotFound(r) => View(u)!NotFound(r)
<1>1. UNCHANGED View(u)!table
  BY ViewTableSame DEF View!table, ViewRows, ViewGone
<1>2. /\ ViewAsks(u)[r] = Asking[r]
      /\ View(u)!Own(r) = OwnIds(u) /\ Promise!Own(r) = OwnIds(u)
  BY ViewOwn
<1>3. Promise!Fail(r) => View(u)!Fail(r)
  BY <1>1, <1>2, ViewReply DEF Promise!Fail, View!Fail, ViewAsks, Asking
<1>4. Promise!List(r) => View(u)!List(r)
  BY <1>1, <1>2, ViewReply DEF Promise!List, View!List, ViewAsks, Asking
<1>5. Promise!NotFound(r) => View(u)!NotFound(r)
  BY <1>1, <1>2, ViewReply DEF Promise!NotFound, View!NotFound, ViewAsks, Asking
<1>6. ASSUME Promise!Get(r) PROVE View(u)!Get(r)
  <2>1. View(u)!Reply(r, "ok", {ViewAsks(u)[r].id})
    BY <1>6, ViewShows DEF Promise!Get, Asking
  <2>2. ViewAsks(u)[r].op = "get" /\ ViewAsks(u)[r].id \in View(u)!Own(r)
    BY <1>2, <1>6 DEF Promise!Get, Asking
  <2> QED BY <1>1, <2>1, <2>2 DEF View!Get, ViewAsks
<1> QED BY <1>3, <1>4, <1>5, <1>6

\* The earlier moments of the user's requests, and the invisible steps.
LEMMA OwnGoesOn ==
  ASSUME NEW u \in Users, NEW r \in Requests, Inv, user[r] = u, pc[r] # "idle",
         \A q \in Requests \ {r} : Untouched(q),
         user'[r] = u \/ pc'[r] = "idle",
         \A a \in sent' : a.user = u,
         UNCHANGED table
  PROVE  /\ Promise!Compare(r) => View(u)!Compare(r)
         /\ Promise!Find(r) => View(u)!Find(r)
         /\ Promise!Sent => View(u)!Sent
<1>1. UNCHANGED View(u)!table
  BY ViewTableSame DEF View!table, ViewRows, ViewGone
<1>2. /\ ViewAsks(u)[r] = Asking[r]
      /\ View(u)!Own(r) = OwnIds(u) /\ Promise!Own(r) = OwnIds(u)
  BY ViewOwn
<1>3. Asking' = Asking => ViewAsks(u)' = ViewAsks(u)
  <2>1. ViewAsks(u)' = [ViewAsks(u) EXCEPT ![r] = Asking'[r]]
    BY ViewMoves
  <2> QED BY <1>2, <2>1 DEF ViewAsks
<1>4. Settling' = Settling => ViewSettled(u)' = ViewSettled(u)
  <2>1. /\ ViewSettled(u)' = [ViewSettled(u) EXCEPT ![r] = Settling'[r]]
        /\ ViewSettled(u)[r] = Settling[r]
    BY ViewMoves
  <2> QED BY <2>1 DEF ViewSettled
<1>5. Found' = Found => ViewFound(u)' = ViewFound(u)
  <2>1. /\ ViewFound(u)' = (ViewFound(u) \ {r}) \cup (Found' \cap {r})
        /\ r \in ViewFound(u) <=> r \in Found
    BY ViewMoves
  <2> QED BY <2>1
<1>6. Replies' = {} => ViewReplies(u)' = {}
  BY ViewMoves
<1>7. Promise!Sent => View(u)!Sent
  BY <1>1, <1>3, <1>4, <1>5, <1>6
     DEF Promise!Sent, View!Sent, ViewAsks, ViewSettled, ViewFound, ViewReplies, Asking,
         Settling, Replies
<1>8. ASSUME Promise!Find(r) PROVE View(u)!Find(r)
  <2>1. Found' = Found \cup {r} /\ Asking' = Asking /\ Settling' = Settling /\ Replies' = {}
    BY <1>8 DEF Promise!Find, Asking, Settling, Replies
  <2>2. ViewFound(u)' = ViewFound(u) \cup {r}
    BY <2>1, ViewMoves
  <2> QED
    BY <1>1, <1>2, <1>3, <1>4, <1>6, <1>8, <2>1, <2>2
       DEF Promise!Find, View!Find, ViewAsks, ViewSettled, ViewFound, ViewReplies, Asking
<1>9. ASSUME Promise!Compare(r) PROVE View(u)!Compare(r)
  <2> DEFINE same(b, l) == {f \in DOMAIN b : b[f] = l[f]}
  <2>1. /\ Settling' = [Settling EXCEPT ![r] = same(Asking[r].body, listings[Asking[r].id].fields)]
        /\ Asking[r].op = "patch" /\ Asking[r].id \in OwnIds(u)
        /\ Asking' = Asking /\ Found' = Found /\ Replies' = {}
    BY <1>2, <1>9 DEF Promise!Compare, Asking, Settling, Replies
  <2>2. Settling'[r] = same(ViewAsks(u)[r].body, ViewRows(u)[ViewAsks(u)[r].id].fields)
    BY <1>2, <2>1 DEF Settling, ViewRows
  <2>3. ViewSettled(u)' = [ViewSettled(u) EXCEPT ![r] =
          same(ViewAsks(u)[r].body, ViewRows(u)[ViewAsks(u)[r].id].fields)]
    BY <2>2, ViewMoves
  <2> QED
    BY <1>1, <1>2, <1>3, <1>5, <1>6, <2>1, <2>3
       DEF View!Compare, ViewAsks, ViewSettled, ViewFound, ViewReplies, ViewRows
<1> QED BY <1>7, <1>8, <1>9

\* The commits of the user's requests.
LEMMA OwnCreates ==
  ASSUME NEW u \in Users, NEW r \in Requests, Inv, user[r] = u, pc[r] # "idle",
         \A q \in Requests \ {r} : Untouched(q),
         user'[r] = u \/ pc'[r] = "idle",
         \A a \in sent' : a.user = u,
         Promise!Create(r)
  PROVE  View(u)!Create(r)
<1>1. PICK i \in Ids \ (DOMAIN listings \cup gone) :
        /\ listings' = [j \in DOMAIN listings \cup {i} |->
             IF j = i THEN [owner |-> Asking[r].user, fields |-> Asking[r].body]
             ELSE listings[j]]
        /\ Promise!Reply(r, "ok", {i}) \/ Promise!Reply(r, "failed", {})
  BY DEF Promise!Create, Asking
<1>2. /\ Asking[r].op = "create" /\ Asking[r].body \in [Fields -> Values]
      /\ gone' = gone
  BY DEF Promise!Create, Asking
<1>3. ViewAsks(u)[r] = Asking[r] /\ Asking[r].user = u
  BY ViewOwn
<1>4. i \in Ids \ (DOMAIN ViewRows(u) \cup ViewGone(u))
  BY DEF ViewRows, ViewGone, OwnIds
<1>5. OwnIds(u)' = OwnIds(u) \cup {i}
  BY <1>1, <1>3 DEF OwnIds
<1>6. ViewRows(u)' = [j \in DOMAIN ViewRows(u) \cup {i} |->
        IF j = i THEN [owner |-> ViewAsks(u)[r].user, fields |-> ViewAsks(u)[r].body]
        ELSE ViewRows(u)[j]]
  <2>1. \A j \in OwnIds(u) : j \in DOMAIN listings
    BY DEF OwnIds
  <2> QED BY <1>1, <1>3, <1>5, <2>1 DEF ViewRows
<1>7. ViewGone(u)' = ViewGone(u)
  BY <1>1, <1>2, <1>5 DEF ViewGone
<1>8. View(u)!Reply(r, "ok", {i}) \/ View(u)!Reply(r, "failed", {})
  BY <1>1, ViewReply
<1> QED
  BY <1>2, <1>3, <1>4, <1>6, <1>7, <1>8 DEF View!Create, ViewAsks, ViewRows, ViewGone

LEMMA OwnPatches ==
  ASSUME NEW u \in Users, NEW r \in Requests, Inv, user[r] = u, pc[r] # "idle",
         \A q \in Requests \ {r} : Untouched(q),
         user'[r] = u \/ pc'[r] = "idle",
         \A a \in sent' : a.user = u,
         Promise!Patch(r)
  PROVE  View(u)!Patch(r)
<1> DEFINE ask == Asking[r]
           sends == DOMAIN ask.body \ Settling[r]
           old == listings[ask.id].fields
           new == [f \in Fields |-> IF f \in sends THEN ask.body[f] ELSE old[f]]
<1>1. /\ ask.op = "patch" /\ ask.id \in Promise!Own(r)
      /\ \A f \in sends : ask.body[f] \in Values
      /\ listings' = [listings EXCEPT ![ask.id].fields = new]
      /\ Promise!Reply(r, "ok", {Asking[r].id}) \/ Promise!Reply(r, "failed", {})
      /\ gone' = gone
  BY DEF Promise!Patch, Asking, Settling
<1>2. /\ ViewAsks(u)[r] = ask /\ ViewSettled(u)[r] = Settling[r]
      /\ ask.id \in OwnIds(u) /\ View(u)!Own(r) = OwnIds(u)
  BY <1>1, ViewOwn
<1>3. ViewRows(u)[ask.id].fields = old
  BY <1>2 DEF ViewRows
<1> HIDE DEF ask, new
<1>4. OwnIds(u)' = OwnIds(u) /\ DOMAIN listings' = DOMAIN listings
  BY <1>1, <1>2 DEF OwnIds, Inv, TypeOK, Rows
<1>5. ViewRows(u)' = [ViewRows(u) EXCEPT ![ask.id].fields = new]
  BY <1>1, <1>2, <1>4 DEF ViewRows, OwnIds
<1>6. ViewGone(u)' = ViewGone(u)
  BY <1>1, <1>4 DEF ViewGone
<1>7. View(u)!Reply(r, "ok", {ViewAsks(u)[r].id}) \/ View(u)!Reply(r, "failed", {})
  BY <1>1, ViewReply, ViewShows
<1>8. new = [f \in Fields |-> IF f \in DOMAIN ViewAsks(u)[r].body \ ViewSettled(u)[r]
                              THEN ViewAsks(u)[r].body[f]
                              ELSE ViewRows(u)[ViewAsks(u)[r].id].fields[f]]
  BY <1>2, <1>3 DEF new
<1> QED
  BY <1>1, <1>2, <1>5, <1>6, <1>7, <1>8
     DEF View!Patch, ViewAsks, ViewSettled, ViewRows, ViewGone

LEMMA OwnDeletes ==
  ASSUME NEW u \in Users, NEW r \in Requests, Inv, user[r] = u, pc[r] # "idle",
         \A q \in Requests \ {r} : Untouched(q),
         user'[r] = u \/ pc'[r] = "idle",
         \A a \in sent' : a.user = u,
         Promise!Delete(r)
  PROVE  View(u)!Delete(r)
<1> DEFINE i == Asking[r].id
<1>1. /\ Asking[r].op = "delete" /\ r \in Found /\ i \in gone \cup Promise!Own(r)
      /\ listings' = [j \in DOMAIN listings \ {i} |-> listings[j]]
      /\ gone' = gone \cup {i}
      /\ Promise!Reply(r, "ok", {}) \/ Promise!Reply(r, "failed", {})
  BY DEF Promise!Delete, Asking
<1>2. /\ ViewAsks(u)[r] = Asking[r] /\ r \in ViewFound(u)
      /\ i \in gone \cup OwnIds(u) /\ View(u)!Own(r) = OwnIds(u)
  BY <1>1, ViewOwn
<1> HIDE DEF i
<1>3. OwnIds(u)' = OwnIds(u) \ {i}
  BY <1>1 DEF OwnIds
<1>4. ViewRows(u)' = [j \in DOMAIN ViewRows(u) \ {i} |-> ViewRows(u)[j]]
  BY <1>1, <1>3 DEF ViewRows, OwnIds
<1>5. ViewGone(u)' = ViewGone(u) \cup {i}
  BY <1>1, <1>3 DEF ViewGone, OwnIds
<1>6. View(u)!Reply(r, "ok", {}) \/ View(u)!Reply(r, "failed", {})
  BY <1>1, ViewReply
<1>7. ViewAsks(u)[r].id = i /\ ViewAsks(u)[r].op = "delete" /\ i \in ViewGone(u) \cup View(u)!Own(r)
  BY <1>1, <1>2 DEF i, ViewGone
<1> QED
  BY <1>2, <1>4, <1>5, <1>6, <1>7 DEF View!Delete, ViewAsks, ViewFound, ViewRows, ViewGone

\* Every step of a request of the user is a step of their view.
LEMMA OwnStep ==
  ASSUME NEW u \in Users, NEW r \in Requests, Inv, user[r] = u, Handle(r) \/ Fail(r)
  PROVE  View(u)!Next
<1>1. /\ pc[r] # "idle"
      /\ user'[r] = u \/ pc'[r] = "idle"
      /\ \A a \in sent' : a.user = u
      /\ \A q \in Requests \ {r} : Untouched(q)
  BY Moves
<1>2. CASE Promise!Fail(r) \/ Promise!List(r) \/ Promise!Get(r) \/ Promise!NotFound(r)
  <2>1. UNCHANGED table
    BY <1>2 DEF Promise!Fail, Promise!List, Promise!Get, Promise!NotFound, Promise!table, table
  <2> QED BY <1>1, <1>2, <2>1, OwnReads DEF View!Next
<1>3. CASE Promise!Compare(r) \/ Promise!Find(r) \/ Promise!Sent
  <2>1. UNCHANGED table
    BY <1>3 DEF Promise!Compare, Promise!Find, Promise!Sent, Promise!table, table
  <2> QED BY <1>1, <1>3, <2>1, OwnGoesOn DEF View!Next
<1>4. CASE Promise!Create(r) \/ Promise!Patch(r) \/ Promise!Delete(r)
  BY <1>1, <1>4, OwnCreates, OwnPatches, OwnDeletes DEF View!Next
<1> QED BY <1>2, <1>3, <1>4, MomentMaps DEF Moment

\* A request arrives for the user.
LEMMA OwnArrives ==
  ASSUME NEW u \in Users, NEW r \in Requests, Inv, Arrive(r), user'[r] = u
  PROVE  View(u)!Ask(r)
<1>1. /\ pc[r] = "idle" /\ pc'[r] = "set_rls" /\ UNCHANGED table /\ sent' = {}
      /\ op'[r] \in Ops /\ lid'[r] \in Ids \cup {NoId} /\ body'[r] \in Bodies
      /\ \A q \in Requests \ {r} : Untouched(q)
  BY DEF Arrive, Inv, TypeOK, Untouched
<1>2. user[r] # u
  BY <1>1, UserAssumption DEF Inv, InHandler
<1>3. Serves(r)' \in View(u)!Asks
  BY <1>1 DEF Serves, View!Asks, Ops
<1>4. Settled(r)' = {} /\ r \notin Found'
  BY <1>1 DEF Settled, Found
<1>5. ASSUME NEW q \in Requests \ {r}
      PROVE  /\ user'[q] = user[q] /\ Serves(q)' = Serves(q) /\ Settled(q)' = Settled(q)
             /\ q \in Found' <=> q \in Found
  BY <1>1, <1>5 DEF Untouched, Serves, Settled, Found
<1>6. ViewAsks(u)[r] = NoAsk /\ ViewAsks(u)' = [ViewAsks(u) EXCEPT ![r] = Serves(r)']
  BY <1>2, <1>5 DEF ViewAsks
<1>7. ViewSettled(u)' = ViewSettled(u)
  BY <1>2, <1>4, <1>5 DEF ViewSettled
<1>8. ViewFound(u)' = ViewFound(u)
  BY <1>2, <1>4, <1>5 DEF ViewFound, Found
<1>9. ViewReplies(u)' = {}
  BY <1>1 DEF ViewReplies
<1>10. UNCHANGED View(u)!table
  BY <1>1, ViewTableSame DEF View!table, ViewRows, ViewGone
<1> QED
  BY <1>3, <1>6, <1>7, <1>8, <1>9, <1>10
     DEF View!Ask, ViewAsks, ViewSettled, ViewFound, ViewReplies

\* A step of somebody else's request: the user's requests and answers do not change.
LEMMA OthersFrame ==
  ASSUME NEW u \in Users, NEW r \in Requests, user[r] # u, user'[r] # u,
         \A q \in Requests \ {r} : Untouched(q),
         \A a \in sent' : a.user # u
  PROVE  /\ ViewAsks(u)' = ViewAsks(u) /\ ViewSettled(u)' = ViewSettled(u)
         /\ ViewFound(u)' = ViewFound(u) /\ ViewReplies(u)' = {}
<1>1. ASSUME NEW q \in Requests \ {r}
      PROVE  /\ user'[q] = user[q] /\ Serves(q)' = Serves(q) /\ Settled(q)' = Settled(q)
             /\ q \in Found' <=> q \in Found
  BY <1>1 DEF Untouched, Serves, Settled, Found
<1>2. ViewAsks(u)' = ViewAsks(u)
  BY <1>1 DEF ViewAsks
<1>3. ViewSettled(u)' = ViewSettled(u)
  BY <1>1 DEF ViewSettled
<1>4. ViewFound(u)' = ViewFound(u)
  BY <1>1 DEF ViewFound, Found
<1>5. ViewReplies(u)' = {}
  BY DEF ViewReplies
<1> QED BY <1>2, <1>3, <1>4, <1>5

\* Nor do the user's listings; at most an id is taken.
LEMMA OthersTables ==
  ASSUME NEW u \in Users, NEW r \in Requests, Inv, user[r] # u,
         \/ UNCHANGED table
         \/ CommitCreate(r) \/ CommitPatch(r) \/ CommitDelete(r)
  PROVE  /\ ViewRows(u)' = ViewRows(u)
         /\ \/ ViewGone(u)' = ViewGone(u)
            \/ \E i \in Ids \ (DOMAIN ViewRows(u) \cup ViewGone(u)) : ViewGone(u)' = ViewGone(u) \cup {i}
<1>1. CASE UNCHANGED table
  BY <1>1, ViewTableSame
<1>2. CASE CommitCreate(r)
  <2>1. OwnIds(u)' = OwnIds(u)
    BY <1>2, CreateEffect DEF OwnIds
  <2>2. ViewRows(u)' = ViewRows(u)
    BY <1>2, <2>1, CreateEffect DEF ViewRows, OwnIds
  <2>3. lid[r] \in Ids \ (DOMAIN ViewRows(u) \cup ViewGone(u))
    BY <1>2, CreateEffect DEF ViewRows, OwnIds, ViewGone
  <2>4. ViewGone(u)' = ViewGone(u) \cup {lid[r]}
    BY <1>2, <2>1, CreateEffect DEF ViewGone, OwnIds
  <2> QED BY <2>2, <2>3, <2>4
<1>3. CASE CommitPatch(r)
  <2>1. OwnIds(u)' = OwnIds(u)
    BY <1>3, PatchEffect DEF OwnIds
  <2>2. ViewRows(u)' = ViewRows(u)
    BY <1>3, <2>1, PatchEffect DEF ViewRows, OwnIds
  <2>3. ViewGone(u)' = ViewGone(u)
    BY <1>3, <2>1, PatchEffect DEF ViewGone
  <2> QED BY <2>2, <2>3
<1>4. CASE CommitDelete(r)
  <2>1. /\ lid[r] \in gone \/ lid[r] \in DOMAIN listings
        /\ gone' = gone \cup {lid[r]} /\ DOMAIN listings' = DOMAIN listings \ {lid[r]}
        /\ \A i \in DOMAIN listings \ {lid[r]} : listings'[i] = listings[i]
    BY <1>4, DeleteEffect DEF CommitDelete, Inv, InHandler
  <2>2. lid[r] \notin OwnIds(u)
    BY <1>4, DeleteEffect DEF OwnIds
  <2>3. OwnIds(u)' = OwnIds(u)
    BY <2>1, <2>2 DEF OwnIds
  <2>4. ViewRows(u)' = ViewRows(u)
    BY <2>1, <2>2, <2>3 DEF ViewRows, OwnIds
  <2>5. ViewGone(u)' = ViewGone(u)
    BY <2>1, <2>2, <2>3 DEF ViewGone
  <2> QED BY <2>4, <2>5
<1> QED BY <1>1, <1>2, <1>3, <1>4

\* What is nobody's business but the other's: the step leaves the view as it was, an
\* answer of the step before excepted, or takes an id.
LEMMA OthersStep ==
  ASSUME NEW u \in Users, NEW r \in Requests, Inv, user[r] # u, user'[r] # u,
         \A q \in Requests \ {r} : Untouched(q),
         \A a \in sent' : a.user # u,
         \/ UNCHANGED table
         \/ CommitCreate(r) \/ CommitPatch(r) \/ CommitDelete(r)
  PROVE  View(u)!ViewNext
<1>1. /\ ViewAsks(u)' = ViewAsks(u) /\ ViewSettled(u)' = ViewSettled(u)
      /\ ViewFound(u)' = ViewFound(u) /\ ViewReplies(u)' = {}
  BY OthersFrame
<1>2. ViewRows(u)' = ViewRows(u)
  BY OthersTables
<1>3. CASE ViewGone(u)' = ViewGone(u)
  <2>1. View(u)!Sent
    BY <1>1, <1>2, <1>3
       DEF View!Sent, View!table, ViewAsks, ViewSettled, ViewFound, ViewReplies, ViewRows, ViewGone
  <2> QED BY <2>1 DEF View!ViewNext, View!Next
<1>4. CASE \E i \in Ids \ (DOMAIN ViewRows(u) \cup ViewGone(u)) : ViewGone(u)' = ViewGone(u) \cup {i}
  <2>1. View(u)!Elsewhere
    BY <1>1, <1>2, <1>4
       DEF View!Elsewhere, ViewAsks, ViewSettled, ViewFound, ViewReplies, ViewRows, ViewGone
  <2> QED BY <2>1 DEF View!ViewNext
<1> QED BY <1>3, <1>4, OthersTables

--------------------------------------------------------------------------------
(* Users apart *)

LEMMA ViewStep ==
  ASSUME NEW u \in Users, Inv, Next
  PROVE  View(u)!ViewNext
<1>1. PICK r \in Requests : Arrive(r) \/ Reject(r) \/ Handle(r) \/ Fail(r)
  BY DEF Next
<1>2. CASE Arrive(r)
  <2>1. /\ pc[r] = "idle" /\ UNCHANGED table /\ sent' = {}
        /\ \A q \in Requests \ {r} : Untouched(q)
    BY <1>2 DEF Arrive, Inv, TypeOK, Untouched
  <2>2. user[r] # u
    BY <2>1, UserAssumption DEF Inv, InHandler
  <2> QED BY <1>2, <2>1, <2>2, OwnArrives, OthersStep DEF View!ViewNext, View!Next
<1>3. CASE Reject(r)
  <2>1. pc[r] = "idle" /\ UNCHANGED table /\ Answer(r, "unauthorized", {})
    BY <1>3 DEF Reject
  <2>2. user[r] = NoUser /\ u # NoUser
    BY <2>1, UserAssumption DEF Inv, InHandler
  <2>3. user'[r] = NoUser /\ \A q \in Requests \ {r} : Untouched(q)
    BY <2>1, AnswerTypes, TypeParts DEF Inv, Outcomes
  <2>4. \A a \in sent' : a.user = NoUser
    BY <2>1, <2>2 DEF Answer
  <2> QED BY <2>1, <2>2, <2>3, <2>4, OthersStep
<1>4. ASSUME Handle(r) \/ Fail(r), user[r] # u PROVE View(u)!ViewNext
  <2>1. /\ user'[r] = user[r] \/ pc'[r] = "idle"
        /\ \A a \in sent' : a.user = user[r]
        /\ \A q \in Requests \ {r} : Untouched(q)
        /\ \/ UNCHANGED table
           \/ CommitCreate(r) \/ CommitPatch(r) \/ CommitDelete(r)
    BY <1>4, Moves
  <2>2. pc'[r] = "idle" => user'[r] = NoUser
    BY InvStep DEF Inv, InHandler
  <2>3. user'[r] # u
    BY <1>4, <2>1, <2>2, UserAssumption
  <2> QED BY <1>4, <2>1, <2>3, OthersStep
<1>5. CASE (Handle(r) \/ Fail(r)) /\ user[r] = u
  BY <1>5, OwnStep DEF View!ViewNext
<1> QED BY <1>1, <1>2, <1>3, <1>4, <1>5

LEMMA ViewStutters ==
  ASSUME NEW u \in Users, UNCHANGED vars
  PROVE  UNCHANGED View(u)!vars
<1> USE DEF vars, table, input
<1>1. \A r \in Requests : Serves(r)' = Serves(r) /\ Settled(r)' = Settled(r)
  BY DEF Serves, Settled
<1>2. ViewAsks(u)' = ViewAsks(u) /\ ViewSettled(u)' = ViewSettled(u)
  BY <1>1 DEF ViewAsks, ViewSettled
<1>3. ViewFound(u)' = ViewFound(u) /\ ViewReplies(u)' = ViewReplies(u)
  BY DEF ViewFound, Found, ViewReplies
<1>4. ViewRows(u)' = ViewRows(u) /\ ViewGone(u)' = ViewGone(u)
  BY ViewTableSame
<1> QED
  BY <1>2, <1>3, <1>4
     DEF View!vars, View!table, ViewAsks, ViewSettled, ViewFound, ViewReplies, ViewRows, ViewGone

LEMMA ViewInit ==
  ASSUME NEW u \in Users, Init
  PROVE  View(u)!Init
<1>1. ViewRows(u) = [i \in {} |-> NoAsk] /\ ViewGone(u) = {}
  BY DEF Init, ViewRows, OwnIds, ViewGone
<1>2. ViewAsks(u) = [r \in Requests |-> NoAsk]
  BY DEF Init, ViewAsks, Serves
<1>3. ViewSettled(u) = [r \in Requests |-> {}]
  BY DEF Init, ViewSettled, Settled
<1>4. ViewFound(u) = {} /\ ViewReplies(u) = {}
  BY DEF Init, ViewFound, Found, ViewReplies
<1> QED
  BY <1>1, <1>2, <1>3, <1>4
     DEF View!Init, ViewAsks, ViewSettled, ViewFound, ViewReplies, ViewRows, ViewGone

\* Users do not notice each other, for any number of them on any pool of connections:
\* what each is answered, a store of their own would answer.
THEOREM UsersSeparated == Spec => UsersApart
<1> DEFINE Apart == \A u \in Users : View(u)!ViewNext \/ UNCHANGED View(u)!vars
           Starts == \A u \in Users : View(u)!Init
<1>1. Init => Starts
  BY ViewInit
<1>2. ASSUME Inv, [Next]_vars PROVE Apart
  BY <1>2, ViewStep, ViewStutters
<1> HIDE DEF Apart, Starts
<1>3. Inv /\ [Next]_vars => [Apart]_vars
  BY <1>2
<1>4. Spec => Starts /\ [][Apart]_vars
  BY <1>1, <1>3, Invariant, PTL DEF Spec
<1> QED BY <1>4 DEF UsersApart, Apart, Starts
================================================================================
