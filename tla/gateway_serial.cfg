CONSTANTS
  None = None
  run1 = run1
  q1 = q1
  q2 = q2
  z1 = z1
  t1 = t1
  t2 = t2
  c1 = c1
  service = service
  reviewer = reviewer
  Runs = {run1}
  EventIds = {q1, q2, z1}
  Tools = {t1, t2}
  Modes = {"simulation", "enforcement"}
  FailureDefault = "record_only"
  MaxApprovals = 1
  Actors = {service, reviewer}
  Services = {service}
  Reviewers = {reviewer}
  Admins = {}
  Connections = {c1}
  Workers = {w1}
  Incoming <- TwoCalls
  Reviewing = {"approve", "reject", "cancel", "create", "expire"}
SPECIFICATION Spec
INVARIANTS
  
  EnforcementIsDecided
PROPERTIES
  DecidedApprovalsAreFinal
