CONSTANTS
  None = None
  Policies = {p1, p2}
  VersionIds = {v1, v2, v3}
  RequestIds = {}
  Contents = {c1}
  Actors = {author}
  Reviewers = {}
  Admins = {}
  Workers = {w1, w2}
  Endpoints <- CreationRace
SPECIFICATION Spec
SYMMETRY Interchangeable
INVARIANTS
  VersionNumbersAreConsecutive
