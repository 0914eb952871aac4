SPECIFICATION Spec
CONSTANTS
  w1 = w1
  Workers = {w1}
  Lenti = {}
  Richieste = {}
  Operazioni = {}
  Conferme <- SoloAutomatica
  Nessuno = Nessuno
  MaxTentativi = 3
  MaxPost = 2
  MaxPrenotazioni = 2
  MaxRiaperture = 0
  MaxDeroghe = 1
  MaxImprevisti = 1
INVARIANTS
  PostUnico
CHECK_DEADLOCK FALSE
