\* One runner and no fault: what becomes of a refusal inside runTask.
SPECIFICATION Spec
CONSTANTS
  t1 = t1
  t2 = t2
  p1 = p1
  p2 = p2
  e1 = e1
  Task = {t1}
  Runner = {p1}
  Editor = {}
  NoFile = NoFile
  TypeOf <- MCTypeMixed
  Created <- MCCreated
  EditStatus = {}
  MaxCrashes = 0
  MaxIoErrors = 0
INVARIANT
  RefusalStoredAsRefused
CHECK_DEADLOCK FALSE
