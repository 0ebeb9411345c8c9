CONSTANTS
  None = None
  run1 = run1
  q1 = q1
  q2 = q2
  z1 = z1
  t1 = t1
  t2 = t2
  c1 = c1
  service = service
  reviewer = reviewer
  Runs = {run1}
  EventIds = {q1, z1}
  Tools = {t1, t2}
  Modes = {"simulation", "enforcement"}
  FailureDefault = "fail_closed_human_review"
  MaxApprovals = 2
  Actors = {service, reviewer}
  Services = {service}
  Reviewers = {reviewer}
  Admins = {}
  Connections = {c1}
  Workers = {w1, w2}
  Incoming <- OneCall
  Reviewing = {"approve", "create"}
SPECIFICATION Spec
SYMMETRY Interchangeable
INVARIANTS
  TypeOK
  AnswersMatchEvidence
  ReviewCanBeResumed
  
