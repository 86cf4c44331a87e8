--------------------------- MODULE MCListingsService ---------------------------
(* Small instances of ListingsService for TLC. *)
EXTENDS ListingsService, TLC

Slots == Permutations(Requests) \cup Permutations(Connections)

\* Users, values and connections are interchangeable too.
Alike == Slots \cup Permutations(Users) \cup Permutations(Values)
================================================================================
