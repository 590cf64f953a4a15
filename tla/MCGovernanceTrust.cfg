\* One signer with the key file it signs with and is trusted by, one trace, one signing and one verifying script at a time.
SPECIFICATION Spec
CONSTANTS
  rot = rot
  rotFile = rotFile
  Signer = {rot}
  KeyFile = {rotFile}
  SignFile <- MCFile
  TrustFile <- MCFile
  SignerList <- MCSignerList
  NoFile = NoFile
  Malformed = Malformed
  MaxTime = 1
  MaxKeys = 2
  MaxLog = 0
  MaxExports = 3
  MaxEdits = 1
  MaxEntries = 2
  MaxRebuilds = 1
INVARIANTS
  TypeOK
  
  

  
CHECK_DEADLOCK FALSE
