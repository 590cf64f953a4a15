\* One required and one optional policy file, one exporting process; the files change twice.
SPECIFICATION Spec
CONSTANTS
  Files = 2
  Required = {1}
  Contents = 2
  NoIndex = NoIndex
  MaxArtifacts = 3
  MaxEdits = 2
INVARIANTS
  TypeOK
  VerifiedIsSnapshot
  VerifiersAgree
  
CHECK_DEADLOCK FALSE
