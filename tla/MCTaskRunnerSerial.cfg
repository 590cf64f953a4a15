\* Two runners and one editor that never overlap on one of three tasks.
SPECIFICATION SerialSpec
CONSTANTS
  t1 = t1
  t2 = t2
  t3 = t3
  p1 = p1
  p2 = p2
  e1 = e1
  Task = {t1, t2, t3}
  Runner = {p1, p2}
  Editor = {e1}
  NoFile = NoFile
  TypeOf <- MCTypeOf
  Created <- MCCreated
  EditStatus = {"completed"}
  MaxCrashes = 0
  MaxIoErrors = 0
PROPERTIES
  ImplementsTaskQueue
CHECK_DEADLOCK FALSE
