SPECIFICATION Spec
CONSTANTS
  w1 = w1
  r1 = r1
  r2 = r2
  Workers = {w1}
  Lenti = {w1}
  Richieste = {r1, r2}
  Operazioni <- OperazioniTutte
  Conferme <- OgniModalita
  Nessuno = Nessuno
  MaxTentativi = 1
  MaxPost = 1
  MaxPrenotazioni = 1
  MaxRiaperture = 0
  MaxDeroghe = 1
  MaxImprevisti = 0
SYMMETRY SimmetriaRichieste
INVARIANTS
  LegameAutentico
PROPERTIES
  AnnullamentiDefinitivi
CHECK_DEADLOCK FALSE
