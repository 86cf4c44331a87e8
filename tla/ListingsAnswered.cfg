\* Three requests wait for two connections and for one row.
CONSTANTS
  Users = {u1}
  Ids = {i1}
  Fields = {f1}
  Values = {v1, v2}
  BadValue = BadValue
  Requests = {r1, r2, r3}
  Connections = {c1, c2}
  NoUser = NoUser
  NoId = NoId
  NoConn = NoConn
SPECIFICATION FairSpec
INVARIANTS
  NoCircularWait
  OnlyWaitsBlock
PROPERTIES
  Answered
