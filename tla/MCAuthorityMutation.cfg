\* One grant; one damaged line.
SPECIFICATION Spec
CONSTANTS
  g1 = g1
  g2 = g2
  tr1 = tr1
  Grant = {g1}
  Trace = {tr1}
  TraceOf <- MCOneTrace
  NoBaseline = NoBaseline
  MaxDamage = 1
  MaxErrors = 0

INVARIANTS
  MutationDetectable
CHECK_DEADLOCK FALSE
