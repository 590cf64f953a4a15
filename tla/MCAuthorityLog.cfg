\* Two grants of one trace; two damaged lines, one crash or failed write.
SPECIFICATION Spec
CONSTANTS
  g1 = g1
  g2 = g2
  tr1 = tr1
  Grant = {g1, g2}
  Trace = {tr1}
  TraceOf <- MCOneTrace
  NoBaseline = NoBaseline
  MaxDamage = 2
  MaxErrors = 1
SYMMETRY Symmetry
INVARIANTS
  TypeOK
  
  OnlyEndsAreLost
  
  EvidenceInOrder
CHECK_DEADLOCK FALSE
