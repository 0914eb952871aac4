SPECIFICATION Spec
CONSTANTS
  f1 = f1
  f2 = f2
  f3 = f3
  FIR = {f1, f2, f3}
  Limite = 2
INVARIANTS
  TypeOK
PROPERTIES
  
  SospeseRiprese
CHECK_DEADLOCK FALSE
