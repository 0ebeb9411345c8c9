CONSTANTS
  None = None
  Policies = {p1}
  VersionIds = {v1, v2}
  RequestIds = {r1}
  Contents = {c1}
  Actors = {author, reviewer}
  Reviewers = {reviewer}
  Admins = {}
  Workers = {w1, w2}
  Endpoints <- ActivationRace
SPECIFICATION Spec
SYMMETRY Interchangeable
INVARIANTS
  TypeOK
  
  ActiveVersionWasApproved
PROPERTIES
  ImplementsContract
