\* Two commits, each with a revision of its own, two migration tasks, one run of the
\* bootstrap at a time, one rotation of the password of the rw role.
CONSTANTS
  c1 = c1
  c2 = c2
  Bootstraps = {b1}
  Tasks = {t1, t2}
  MaxRevision = 2
  GrantingRevisions = {1}
  MaxVersion <- RwRotates
  Commits = {c1, c2}
  NoCommit = NoCommit
  Schema <- InOrder
  Created = {NoCommit, c1}
SPECIFICATION DeliverySpec
SYMMETRY Slots
INVARIANTS
  SchemaApplied
  DeliveryInv
PROPERTIES
  RolloutMatches
  
