\* A startup workflow with its sweep, and a sweep by hand; one crash or exception.
SPECIFICATION FairSpec
CONSTANTS
  s1 = s1
  s2 = s2
  u1 = u1
  u2 = u2
  Task = {2}
  Sweep = {s1, s2}
  Startup = {u1}
  ChildOf <- MCChildOf
  TypeOf <- MCTypeOf
  Kind <- MCKind
  DueAt <- MCDueAt
  Created <- MCCreated
  AutoRunTypes = {"record", "validate_plan"}
  NoFile = NoFile
  Ttl = 1
  Day = 2
  MaxTime = 1
  MaxFaults = 1

  
PROPERTIES
  EveryProcessEnds
CHECK_DEADLOCK FALSE
