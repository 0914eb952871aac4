SPECIFICATION FairSpec
CONSTANTS
  w1 = w1
  w2 = w2
  Workers = {w1, w2}
  Lenti = {w1}
  Richieste = {}
  Operazioni = {}
  Conferme <- OgniModalita
  Nessuno = Nessuno
  MaxTentativi = 2
  MaxPost = 1
  MaxPrenotazioni = 14
  MaxRiaperture = 0
  MaxDeroghe = 1
  MaxImprevisti = 2
PROPERTIES
  SospeseRiprese
CHECK_DEADLOCK FALSE
