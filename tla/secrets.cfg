SPECIFICATION Spec
CONSTANTS
  n1 = n1
  n2 = n2
  c1 = c1
  c2 = c2
  Names = {n1, n2}
  Callers = {c1, c2}
  MaxCalls = 4
  MaxDeaths = 1
SYMMETRY Symmetry
INVARIANTS TypeOK NeverStranded ValuesOpen SetIsWelcome
PROPERTIES UnlistedUntouched SoloWriteIsExact
CHECK_DEADLOCK FALSE
