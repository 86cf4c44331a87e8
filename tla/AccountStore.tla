------------------------------ MODULE AccountStore ------------------------------
(****************************************************************************)
(* What the auth service promises its clients about accounts and refresh    *)
(* tokens, with no database statements and no locks in sight, and no clock  *)
(* but that the time of a token may end.  A request takes effect at one     *)
(* moment, at which it is answered; an answer of a failure says nothing,    *)
(* the request may have taken effect.                                       *)
(*                                                                          *)
(* What gives a right to new tokens is looked at in earlier moments, each   *)
(* while the request is served: a login finds its account active, a refresh *)
(* its token live and its account active.  None of it need last, and the    *)
(* time of a token may end while it is refreshed.  Several                  *)
(* refreshes may find one token live before any of them spends it: that a   *)
(* token is exchanged once is not promised.                                 *)
(****************************************************************************)
CONSTANTS Emails, Tokens, Requests, NoUser, NoToken

VARIABLES
  accounts,  \* the state of each address
  live,      \* tokens that can be refreshed
  spent,     \* tokens that no longer can
  given,     \* tokens a client was given
  ended,     \* tokens whose time is over
  asks,      \* the request each slot serves
  passed,    \* what each request has found in its favour
  answers    \* the last answer of each slot

tokens == <<live, spent, given>>
vars == <<accounts, tokens, ended, asks, passed, answers>>

NoAsk == [op |-> "none", user |-> NoUser, token |-> NoToken]

\* Clients register and log in with any address, refresh what they were given in its
\* time, and may log out with anything.
Asks ==
  [op : {"register", "login"}, user : Emails, token : {NoToken}]
  \cup {[op |-> "refresh", user |-> t.user, token |-> t] : t \in given \ ended}
  \cup [op : {"logout"}, user : {NoUser}, token : given \cup {NoToken}]

Init ==
  /\ accounts = [e \in Emails |-> "absent"]
  /\ live = {} /\ spent = {} /\ given = {} /\ ended = {}
  /\ asks = [r \in Requests |-> NoAsk]
  /\ passed = [r \in Requests |-> {}]
  /\ answers = [r \in Requests |-> "none"]

Ask(r) ==
  /\ asks[r] = NoAsk
  /\ \E a \in Asks : asks' = [asks EXCEPT ![r] = a]
  /\ answers' = [answers EXCEPT ![r] = "none"]
  /\ UNCHANGED <<accounts, tokens, ended, passed>>

Answer(r, outcome) ==
  /\ asks' = [asks EXCEPT ![r] = NoAsk]
  /\ passed' = [passed EXCEPT ![r] = {}]
  /\ answers' = [answers EXCEPT ![r] = outcome]

\* A refresh with what is no refresh token of ours, or one that has expired.
Reject(r) ==
  /\ asks[r] = NoAsk
  /\ Answer(r, "unauthorized")
  /\ UNCHANGED <<accounts, tokens, ended>>

Fail(r) ==
  /\ asks[r] # NoAsk
  /\ Answer(r, "failed")
  /\ UNCHANGED <<accounts, tokens, ended>>

Conflict(r) ==
  /\ asks[r].op = "register" /\ accounts[asks[r].user] # "absent"
  /\ Answer(r, "conflict")
  /\ UNCHANGED <<accounts, tokens, ended>>

Register(r) ==
  /\ asks[r].op = "register" /\ accounts[asks[r].user] = "absent"
  /\ accounts' = [accounts EXCEPT ![asks[r].user] = "active"]
  /\ Answer(r, "ok") \/ Answer(r, "failed")
  /\ UNCHANGED <<tokens, ended>>

Pass(r, check) ==
  /\ passed' = [passed EXCEPT ![r] = @ \cup {check}]
  /\ UNCHANGED <<accounts, tokens, ended, asks, answers>>

FindToken(r) ==
  /\ asks[r].op = "refresh" /\ asks[r].token \in live
  /\ Pass(r, "token")

FindAccount(r) ==
  /\ \/ asks[r].op = "login"
     \/ asks[r].op = "refresh" /\ "token" \in passed[r]
  /\ accounts[asks[r].user] = "active"
  /\ Pass(r, "account")

\* A login may have the wrong password; a refresh is refused for a reason that is there.
Refuse(r) ==
  /\ \/ asks[r].op = "login"
     \/ /\ asks[r].op = "refresh"
        /\ \/ asks[r].token \in spent
           \/ asks[r].token \in ended /\ "token" \notin passed[r]
           \/ accounts[asks[r].user] # "active"
  /\ Answer(r, "unauthorized")
  /\ UNCHANGED <<accounts, tokens, ended>>

\* A new token for the account of the request.
Mintable(r, t) == t \in Tokens \ (live \cup spent) /\ t.user = asks[r].user

Give(r, t) ==
  \/ Answer(r, "ok") /\ given' = given \cup {t}
  \/ Answer(r, "failed") /\ UNCHANGED given

Login(r, t) ==
  /\ asks[r].op = "login" /\ "account" \in passed[r]
  /\ Mintable(r, t)
  /\ live' = live \cup {t}
  /\ Give(r, t)
  /\ UNCHANGED <<accounts, spent, ended>>

Refresh(r, t) ==
  /\ asks[r].op = "refresh" /\ {"token", "account"} \subseteq passed[r]
  /\ Mintable(r, t)
  /\ live' = (live \ {asks[r].token}) \cup {t}
  /\ spent' = spent \cup {asks[r].token}
  /\ Give(r, t)
  /\ UNCHANGED <<accounts, ended>>

\* After its answer the token cannot be refreshed, whether it could before or not.
Logout(r) ==
  /\ asks[r].op = "logout"
  /\ live' = live \ {asks[r].token}
  /\ spent' = spent \cup (live \cap {asks[r].token})
  /\ Answer(r, "ok") \/ Answer(r, "failed")
  /\ UNCHANGED <<accounts, given, ended>>

\* By an operator, for good.
Deactivate(e) ==
  /\ accounts[e] = "active"
  /\ accounts' = [accounts EXCEPT ![e] = "inactive"]
  /\ UNCHANGED <<tokens, ended, asks, passed, answers>>

\* Time passes, and with it that of some tokens; it does not come back.
Elapse ==
  /\ ended' \in SUBSET Tokens /\ ended \subseteq ended'
  /\ UNCHANGED <<accounts, tokens, asks, passed, answers>>

Next ==
  \/ \E r \in Requests :
       \/ Ask(r) \/ Reject(r) \/ Fail(r)
       \/ Conflict(r) \/ Register(r)
       \/ FindToken(r) \/ FindAccount(r) \/ Refuse(r)
       \/ \E t \in Tokens : Login(r, t) \/ Refresh(r, t)
       \/ Logout(r)
  \/ \E e \in Emails : Deactivate(e)
  \/ Elapse

Spec == Init /\ [][Next]_vars
================================================================================
