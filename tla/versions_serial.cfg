CONSTANTS
  None = None
  Policies = {p1}
  VersionIds = {v1, v2}
  RequestIds = {r1}
  Contents = {c1, c2}
  Actors = {author, reviewer}
  Reviewers = {reviewer}
  Admins = {}
  Workers = {w1}
  Endpoints <- AllEndpoints
SPECIFICATION Spec
SYMMETRY Interchangeable
PROPERTIES
  DecidedRequestsAreFinal
  AssignedReviewerDecides
  ImplementsLifecycle
