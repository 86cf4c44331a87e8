\* Two requests race on the two fields of one listing, each of either of two users and
\* on either of two connections.
CONSTANTS
  Users = {u1, u2}
  Ids = {i1}
  Fields = {f1, f2}
  Values = {v1, v2}
  BadValue = BadValue
  Requests = {r1, r2}
  Connections = {c1, c2}
  NoUser = NoUser
  NoId = NoId
  NoConn = NoConn
SPECIFICATION Spec
SYMMETRY Alike
INVARIANTS
  Inv
  IdentityFollowsRequest
PROPERTIES
  ShowsOnlyOwn
  OnlyOwnerWrites
  OwnerFinds
  PatchKeepsRest
  DeletedForGood
  ImplementsListingStore
  UsersApart
