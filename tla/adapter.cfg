CONSTANTS
  None = None
  run1 = run1
  t1 = t1
  Runs = {run1}
  EventIds <- Ids
  Tools = {t1}
  Modes = {"enforcement"}
  FailureDefault = "fail_closed_human_review"
  MaxApprovals = 1
  Actors = {service, reviewer}
  Services = {service}
  Reviewers = {reviewer}
  Admins = {}
  Connections = {1, 2, 3}
  Workers = {w1, w2}
  Incoming <- Reports
  Reviewing = {"approve", "reject"}
  Calls <- OneCall
  Service = service
  MaxAttempts = 2
  MaxFaults = 2
  AwaitsReview = TRUE
SPECIFICATION AdapterSpec
CHECK_DEADLOCK FALSE
INVARIANTS
  AdapterTypeOK
PROPERTIES
  ImplementsGovernedExecution
  EveryCallReturns
  ApprovedCallsRun
