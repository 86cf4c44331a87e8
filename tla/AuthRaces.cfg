\* Three requests race on one account while a token lives.
CONSTANTS
  Emails = {e1}
  Requests = {r1, r2, r3}
  NoUser = NoUser
  NoToken = NoToken
  TicksPerSecond = 1
  RefreshSeconds = 2
  MaxTime = 1
SPECIFICATION Spec
SYMMETRY Slots
INVARIANTS
  Inv
  NoTokensForBarred
  NoCircularWait
  OnlyWaitsBlock
PROPERTIES
  RevocationExplained
  AccountCreatedOnce
