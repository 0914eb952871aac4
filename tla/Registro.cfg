SPECIFICATION Spec
CONSTANTS
  r1 = r1
  r2 = r2
  i1 = i1
  f1 = f1
  cer1 = cer1
  Richieste = {r1, r2}
  Impostazioni = {i1}
  Fir = {f1}
  NessunFir = NessunFir
  Cer = {cer1}
  Anni = {1, 2}
  Comandi <- MCComandi
  Primi = {3}
  Storici <- MCStorici
  Hash <- MCHash
  NessunAnno = 0
  Libero = Libero
  MaxInvii = 3
INVARIANTS
  ProgressiviContigui
  RegistroInv
  IndiciMaiViolati
  NessunaAttesaCircolare
CHECK_DEADLOCK FALSE
PROPERTIES
  GiacenzaRispettata
  RitentativoRiconosciuto
  RegistroCronologicoRispettato
