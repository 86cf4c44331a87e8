------------------------------ MODULE MCDelivery ------------------------------
(* Small instances of Delivery for TLC. *)
EXTENDS Delivery, TLC

CONSTANTS c1, c2

\* Each commit adds a revision.
InOrder == c1 :> 1 @@ c2 :> 2
OnlyOne == c1 :> 1

\* The password of one role is rotated once, or none.
RwRotates == [r \in Roles |-> IF r = "rw" THEN 2 ELSE 1]
NoneRotates == [r \in Roles |-> 1]

Slots == Permutations(Tasks)
================================================================================
