------------------------------ MODULE ListingStore ------------------------------
(****************************************************************************)
(* What the listings service promises its clients, with no connections, no  *)
(* policies and no locks in sight: a request is answered at one moment, at  *)
(* which it reads or changes the listings of its user and no others.        *)
(*                                                                          *)
(* Two requests need an earlier moment as well.  A PATCH leaves out of its  *)
(* write the fields that already had, at one moment while it was served,    *)
(* the value it sends; a DELETE may succeed because its listing was there   *)
(* at one moment, although it is gone at the other.  An answer of a failure *)
(* says nothing: the request may have taken effect.                         *)
(****************************************************************************)
CONSTANTS
  Users, Ids, Fields, Values,
  Bodies,    \* the fields a client may send, with their values
  Requests,
  NoId,
  NoAsk      \* a slot that serves no request

VARIABLES
  listings,  \* id -> [owner, fields]
  gone,      \* ids of deleted listings
  asks,      \* the request each slot serves
  settled,   \* fields of a PATCH found to have the value it sends
  found,     \* the DELETEs that found their listing
  replies    \* the answer the last step gave, if it gave one

table == <<listings, gone>>
vars == <<table, asks, settled, found, replies>>

\* The id of a new listing is not the client's to choose.
Asks == [op : {"create", "list", "get", "patch", "delete"}, user : Users,
         id : Ids \cup {NoId}, body : Bodies]

Own(r) == {i \in DOMAIN listings : listings[i].owner = asks[r].user}

Init ==
  /\ listings = [i \in {} |-> NoAsk]
  /\ gone = {}
  /\ asks = [r \in Requests |-> NoAsk]
  /\ settled = [r \in Requests |-> {}]
  /\ found = {}
  /\ replies = {}

Ask(r) ==
  /\ asks[r] = NoAsk
  /\ replies' = {}
  /\ \E a \in Asks : asks' = [asks EXCEPT ![r] = a]
  /\ UNCHANGED <<table, settled, found>>

Reply(r, outcome, ids) ==
  /\ asks' = [asks EXCEPT ![r] = NoAsk]
  /\ settled' = [settled EXCEPT ![r] = {}]
  /\ found' = found \ {r}
  /\ replies' = {[to |-> r, outcome |-> outcome, shows |-> ids]}

Reject(r) ==
  /\ asks[r] = NoAsk
  /\ Reply(r, "unauthorized", {})
  /\ UNCHANGED table

Fail(r) ==
  /\ asks[r] # NoAsk
  /\ Reply(r, "failed", {})
  /\ UNCHANGED table

List(r) ==
  /\ asks[r].op = "list"
  /\ \E page \in SUBSET Own(r) : Reply(r, "ok", page)
  /\ UNCHANGED table

Get(r) ==
  /\ asks[r].op = "get" /\ asks[r].id \in Own(r)
  /\ Reply(r, "ok", {asks[r].id})
  /\ UNCHANGED table

NotFound(r) ==
  /\ asks[r].op \in {"get", "patch", "delete"} /\ asks[r].id \notin Own(r)
  /\ Reply(r, "not_found", {})
  /\ UNCHANGED table

Create(r) ==
  /\ asks[r].op = "create" /\ asks[r].body \in [Fields -> Values]
  /\ \E i \in Ids \ (DOMAIN listings \cup gone) :
       /\ listings' = [j \in DOMAIN listings \cup {i} |->
            IF j = i THEN [owner |-> asks[r].user, fields |-> asks[r].body] ELSE listings[j]]
       /\ Reply(r, "ok", {i}) \/ Reply(r, "failed", {})
  /\ UNCHANGED gone

\* The earlier moment of a PATCH.
Compare(r) ==
  /\ asks[r].op = "patch" /\ asks[r].id \in Own(r)
  /\ settled' = [settled EXCEPT ![r] =
       {f \in DOMAIN asks[r].body : asks[r].body[f] = listings[asks[r].id].fields[f]}]
  /\ replies' = {}
  /\ UNCHANGED <<table, asks, found>>

Patch(r) ==
  LET sends == DOMAIN asks[r].body \ settled[r]
      old == listings[asks[r].id].fields IN
  /\ asks[r].op = "patch" /\ asks[r].id \in Own(r)
  /\ \A f \in sends : asks[r].body[f] \in Values
  /\ listings' = [listings EXCEPT ![asks[r].id].fields =
       [f \in Fields |-> IF f \in sends THEN asks[r].body[f] ELSE old[f]]]
  /\ Reply(r, "ok", {asks[r].id}) \/ Reply(r, "failed", {})
  /\ UNCHANGED gone

\* The earlier moment of a DELETE.
Find(r) ==
  /\ asks[r].op = "delete" /\ asks[r].id \in Own(r)
  /\ found' = found \cup {r}
  /\ replies' = {}
  /\ UNCHANGED <<table, asks, settled>>

Delete(r) ==
  /\ asks[r].op = "delete" /\ r \in found
  /\ asks[r].id \in gone \cup Own(r)
  /\ listings' = [i \in DOMAIN listings \ {asks[r].id} |-> listings[i]]
  /\ gone' = gone \cup {asks[r].id}
  /\ Reply(r, "ok", {}) \/ Reply(r, "failed", {})

\* The answer has left the service.
Sent ==
  /\ replies' = {}
  /\ UNCHANGED <<table, asks, settled, found>>

Next ==
  \/ \E r \in Requests :
       \/ Ask(r) \/ Reject(r) \/ Fail(r)
       \/ List(r) \/ Get(r) \/ NotFound(r) \/ Create(r)
       \/ Compare(r) \/ Patch(r) \/ Find(r) \/ Delete(r)
  \/ Sent

Spec == Init /\ [][Next]_vars
================================================================================
