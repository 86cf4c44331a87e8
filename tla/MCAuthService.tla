----------------------------- MODULE MCAuthService -----------------------------
(* Small instances of AuthService for TLC. *)
EXTENDS AuthService, TLC

\* Requests are interchangeable, and so are addresses (safety runs only).
Slots == Permutations(Requests)
================================================================================
