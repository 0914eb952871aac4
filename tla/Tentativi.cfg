SPECIFICATION Spec
CONSTANTS
  w1 = w1
  w2 = w2
  r1 = r1
  Workers = {w1, w2}
  Lenti = {w1, w2}
  Richieste = {r1}
  Operazioni <- OperazioniTentativi
  Conferme <- SoloAutomatica
  Nessuno = Nessuno
  MaxTentativi = 2
  MaxPost = 2
  MaxPrenotazioni = 2
  MaxRiaperture = 1
  MaxDeroghe = 1
  MaxImprevisti = 1
SYMMETRY Simmetria
INVARIANTS
  TypeOK
  UnSoloTentativo
  CreazioniAutorizzate
  IInv
PROPERTIES
  FormularioUnicoRispettato
  PrenotazioneRispettata
  NessunaPostConTransazioneAperta
CHECK_DEADLOCK FALSE
