SPECIFICATION Spec
CONSTANTS
  f1 = f1
  f2 = f2
  r1 = r1
  r2 = r2
  r3 = r3
  r4 = r4
  Fir = {f1, f2}
  Richieste = {r1, r2, r3, r4}
  Creazione = Creazione
  ConParti = {f1}
  UltimoAnno = 2
SYMMETRY Simmetria
INVARIANTS
  TypeOK
  Numerazione
  StatoFirmato
  OrdineDelleFirme
  CoerenteSenzaSovrapposizioni
CHECK_DEADLOCK FALSE
PROPERTIES
  FirmeConservate
