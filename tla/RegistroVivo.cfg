SPECIFICATION Spec
CONSTANTS
  r1 = r1
  r2 = r2
  r3 = r3
  f1 = f1
  cer1 = cer1
  Richieste = {r1, r2, r3}
  Impostazioni = {}
  Fir = {f1}
  NessunFir = NessunFir
  Cer = {cer1}
  Anni = {1}
  Comandi <- MCComandi
  Primi = {3}
  Storici <- MCStorici
  Hash <- MCHash
  NessunAnno = 0
  Libero = Libero
  MaxInvii = 3
PROPERTIES
  RichiesteFinite
CHECK_DEADLOCK FALSE
