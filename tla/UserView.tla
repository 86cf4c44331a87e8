-------------------------------- MODULE UserView --------------------------------
(****************************************************************************)
(* What one user sees of the listings service: a ListingStore of their own. *)
(* The requests of other users change nothing in it, delay excepted; all    *)
(* they do is use up ids.                                                   *)
(****************************************************************************)
EXTENDS ListingStore

\* An id is taken by a listing of somebody else.
Elsewhere ==
  /\ replies' = {}
  /\ \E i \in Ids \ (DOMAIN listings \cup gone) : gone' = gone \cup {i}
  /\ UNCHANGED <<listings, asks, settled, found>>

ViewNext == Next \/ Elsewhere
================================================================================
