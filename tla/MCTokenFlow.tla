------------------------------ MODULE MCTokenFlow ------------------------------
(* Small instances of TokenFlow for TLC. *)
EXTENDS TokenFlow, TLC

\* Both types live equally long in an instance: a refresh token that outlives an access
\* token shows nothing that two access tokens of different age do not.
OneSecond == [type \in Types |-> 1]
================================================================================
