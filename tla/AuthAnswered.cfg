\* Two requests without symmetry, under the fairness of the database, while a token is
\* minted, exchanged and runs out between two readings of the clock.
CONSTANTS
  Emails = {e1}
  Requests = {r1, r2}
  NoUser = NoUser
  NoToken = NoToken
  TicksPerSecond = 1
  RefreshSeconds = 1
  MaxTime = 1
SPECIFICATION FairSpec
PROPERTIES
  Answered
  ImplementsAccountStore
