\* One request creates a listing and changes it.
CONSTANTS
  Users = {u1}
  Ids = {i1}
  Fields = {f1}
  Values = {v1, v2}
  BadValue = BadValue
  Requests = {r1}
  Connections = {c1}
  NoUser = NoUser
  NoId = NoId
  NoConn = NoConn
SPECIFICATION Spec
PROPERTIES
  PatchAnswers
