CONSTANTS
  Person = {x1, x2, x3}
  Email = {e1, e2, e3}
  Owned = {o1, o2}
  Tenancy = {t1, t2}
  Building = {b1}
  None = None
SPECIFICATION Spec
SYMMETRY Symmetry
INVARIANTS
  EmailIsIdentity
PROPERTIES
  PersonGoesWithLastReference
  OrphanedOnlyByRepointing
