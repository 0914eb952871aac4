SPECIFICATION Spec
CONSTANTS
  c1 = c1
  c2 = c2
  Chiamanti = {c1, c2}
  MaxTentativi = 3
  MaxRiprove = 3
  MaxRiaperture = 1
  MaxImprevisti = 1
INVARIANTS
  TypeOK
  RiproveSufficienti
  ConfermaRispettata
  CodaInv
PROPERTIES
  RichiestaServita
CHECK_DEADLOCK FALSE
