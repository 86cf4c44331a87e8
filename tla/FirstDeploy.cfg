\* A service created with the image of its one commit; one migration task, two runs of
\* the bootstrap at once, no rotation, a revision that leaves its grants to the default
\* privileges, as that of auth does.
CONSTANTS
  c1 = c1
  c2 = c2
  Bootstraps = {b1, b2}
  Tasks = {t1}
  MaxRevision = 1
  GrantingRevisions = {}
  MaxVersion <- NoneRotates
  Commits = {c1}
  NoCommit = NoCommit
  Schema <- OnlyOne
  Created = {c1}
SPECIFICATION FairDeliverySpec
INVARIANTS
  DbInv
PROPERTIES
  
  FirstDeploy
