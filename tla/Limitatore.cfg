SPECIFICATION Spec
CONSTANTS
  i1 = i1
  i2 = i2
  p1 = p1
  Processi = {i1, i2, p1}
  Interroganti = {i1, i2}
  Ritentanti = {p1}
  Guastabili = {i1}
  SogliaRichieste = 3
  Finestra = 3
  ConcorrenzaMassima = 2
  TtlConcorrenza = 3
  MaxTentativi = 2
  Durata = 1
  Ritardo = 1
INVARIANTS
  TypeOK
  VolumeRispettato
  InVoloLimitate
CHECK_DEADLOCK FALSE
PROPERTIES
  AttesaFinita
