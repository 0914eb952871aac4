SPECIFICATION Spec
CONSTANTS
  f1 = f1
  f2 = f2
  n1 = n1
  n2 = n2
  r1 = r1
  r2 = r2
  r3 = r3
  ConFirma = {r1}
  Nessuno = Nessuno
  Fir = {f1, f2}
  Numeri = {n1, n2}
  Richieste = {r1, r2, r3}
SYMMETRY Simmetria
INVARIANTS
  TypeOK
  VisibilitaSpiegata
  EsitoDellEnte
CHECK_DEADLOCK FALSE
PROPERTIES
  TerminaliConservati
