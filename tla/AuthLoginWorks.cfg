\* Two logins of one account within a second.
CONSTANTS
  Emails = {e1}
  Requests = {r1, r2}
  NoUser = NoUser
  NoToken = NoToken
  TicksPerSecond = 2
  RefreshSeconds = 1
  MaxTime = 1
SPECIFICATION Spec
PROPERTIES
  LoginWorks
