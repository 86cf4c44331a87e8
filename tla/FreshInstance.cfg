\* A service created with a placeholder image; one commit, one migration task, one run of
\* the bootstrap at a time, no rotation.
CONSTANTS
  c1 = c1
  c2 = c2
  Bootstraps = {b1}
  Tasks = {t1}
  MaxRevision = 1
  GrantingRevisions = {1}
  MaxVersion <- NoneRotates
  Commits = {c1}
  NoCommit = NoCommit
  Schema <- OnlyOne
  Created = {NoCommit}
SPECIFICATION FairDeliverySpec
PROPERTIES
  GetsRoles
