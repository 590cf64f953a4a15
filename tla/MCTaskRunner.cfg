\* Two runners and one editor race on one task; one crash and one I/O error.
SPECIFICATION Spec
CONSTANTS
  t1 = t1
  t2 = t2
  p1 = p1
  p2 = p2
  e1 = e1
  Task = {t1}
  Runner = {p1, p2}
  Editor = {e1}
  NoFile = NoFile
  TypeOf <- MCTypeExecute
  Created <- MCCreated
  EditStatus = {"running", "completed"}
  MaxCrashes = 1
  MaxIoErrors = 1
SYMMETRY Symmetry
INVARIANTS
  TypeOK
  NoRunWithoutConsent
  LockExcludes
  LockOwnerInside
  NoTaskLost
  ResultIsAudited
CHECK_DEADLOCK FALSE
