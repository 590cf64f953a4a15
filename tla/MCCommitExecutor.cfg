\* Two executions of one plan race; tokens are withdrawn, the access policy is
\* replaced, an I/O operation fails, a process dies.
SPECIFICATION Spec
CONSTANTS
  e1 = e1
  e2 = e2
  a = a
  b = b
  c = c
  d = d
  Exec = {e1, e2}
  Path = {a, b, c, d}
  NoPath = NoPath
  NoToken = NoToken
  PlanOf <- MCSamePlan
  Requests <- MCRequests
  Policies <- MCShipped
  AccessPolicies <- MCAccess
  Files = {a, c}
  Drifting <- MCDrifting
  MaxSaves = 1
  MaxIoErrors = 1
  MaxCrashes = 1
INVARIANTS
  TypeOK
  WithdrawalStops
  
  
  AnswerAudited
  AuditTruthful
PROPERTIES
  ImplementsPlanExecution
CHECK_DEADLOCK FALSE
