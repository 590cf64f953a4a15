\* Two executions of odd plans with odd tokens and commits under every policy:
\* each way of refusing occurs, an I/O operation fails.
SPECIFICATION FairSpec
CONSTANTS
  e1 = e1
  e2 = e2
  a = a
  b = b
  c = c
  d = d
  Exec = {e1, e2}
  Path = {a, b}
  NoPath = NoPath
  NoToken = NoToken
  PlanOf <- MCOddPlans
  Requests <- MCOddRequests
  Policies <- MCPolicies
  AccessPolicies <- MCOddAccess
  Files = {a, b}
  Drifting <- MCDrifting
  MaxSaves = 0
  MaxIoErrors = 1
  MaxCrashes = 0
PROPERTIES
  EveryExecutionEnds
CHECK_DEADLOCK FALSE
