SPECIFICATION Spec
CONSTANTS
  w1 = w1
  Workers = {w1}
  Lenti = {}
  Richieste = {}
  Operazioni = {}
  Conferme <- SoloIbrida
  Nessuno = Nessuno
  MaxTentativi = 3
  MaxPost = 2
  MaxPrenotazioni = 2
  MaxRiaperture = 0
  MaxDeroghe = 0
  MaxImprevisti = 0
INVARIANTS
  PropostaConfermabile
CHECK_DEADLOCK FALSE
