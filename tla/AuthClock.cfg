\* Two requests, two ticks to the second: long enough for a token to be issued,
\* exchanged twice, revoked and to expire.
CONSTANTS
  Emails = {e1}
  Requests = {r1, r2}
  NoUser = NoUser
  NoToken = NoToken
  TicksPerSecond = 2
  RefreshSeconds = 1
  MaxTime = 4
SPECIFICATION Spec
SYMMETRY Slots
INVARIANTS
  TypeOK
  RowOutlivesJwt
  ExchangeSpendsOld
PROPERTIES
  RevocationIsFinal
  RefusalExplained
