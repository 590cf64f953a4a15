\* Two sweeps overlap; one crash or exception.
SPECIFICATION Spec
CONSTANTS
  s1 = s1
  s2 = s2
  u1 = u1
  u2 = u2
  Task = {1, 2}
  Sweep = {s1, s2}
  Startup = {}
  ChildOf <- MCNoChild
  TypeOf <- MCTypeOf
  Kind <- MCKind
  DueAt <- MCDueAt
  Created <- MCCreated
  AutoRunTypes = {"record", "validate_plan"}
  NoFile = NoFile
  Ttl = 1
  Day = 2
  MaxTime = 2
  MaxFaults = 1
SYMMETRY Symmetry
INVARIANTS
  TypeOK
  SweepsExclude
  
  SweepThorough
  LockOwnerInside
CHECK_DEADLOCK FALSE
