------------------------- MODULE CicloDiVitaFirProof --------------------------
(***************************************************************************)
(* Theorems about CicloDiVitaFir, for any FIRs, requests and years.        *)
(***************************************************************************)
EXTENDS CicloDiVitaFir, FiniteSetTheorems, WellFoundedInduction, TLAPS

-----------------------------------------------------------------------------
(* The inductive invariant, in three parts besides the types.                *)

\* What is true of a row is true of every copy of it: a number was given to
\* this FIR, and a draft has none.
NumeroNoto(f, c) ==
  /\ c.stato = "BOZZA" => c.numero = SenzaNumero
  /\ c.numero # SenzaNumero => [fir |-> f, numero |-> c.numero] \in assegnati

\* Numbers: a number that was given is on its row or was taken off by a save.
InvNumeri ==
  /\ \A f \in Fir : NumeroNoto(f, firs[f])
  /\ \A r \in Richieste : NumeroNoto(di[r], copia[r])
  /\ \A a \in assegnati : firs[a.fir].numero = a.numero \/ a.numero \in cancellati
  /\ \A f, g \in Fir : f # g /\ firs[f].numero # SenzaNumero
                         => firs[f].numero # firs[g].numero
  /\ \A a \in Anni : SenzaBuchi(a)

\* The signatures a state needs, of a row or of a copy of it.
FirmataComeStato(f, c) ==
  /\ c.stato \in {"EMESSO", "IN_TRANSITO", "CONSEGNATO"} => Firmato(f, "PRODUTTORE")
  /\ c.stato \in {"IN_TRANSITO", "CONSEGNATO"} => Firmato(f, "TRASPORTATORE")
  /\ c.stato = "CONSEGNATO" => Firmato(f, "DESTINATARIO")
  /\ c.numero # SenzaNumero => Firmato(f, "PRODUTTORE")

UnaPerRuolo(righe) ==
  \A s, t \in righe : s.ruolo = t.ruolo /\ s.ruolo \in Ruoli => s = t

\* Copies are not ahead of the rows, and who is about to insert a signature has
\* seen those it needs.
CopiaFirmata(r) ==
  /\ FirmataComeStato(di[r], copia[r])
  /\ lette[r] \subseteq firme[di[r]]
  /\ fase[r] = "verificata" => op[r] \in RuoliQes /\ FirmaAmmessa(op[r], lette[r])

InvFirme ==
  /\ \A f \in Fir : FirmataComeStato(f, firs[f]) /\ UnaPerRuolo(firme[f])
  /\ \A r \in Richieste : CopiaFirmata(r)
  /\ OrdineDelleFirme

\* On a row never written from an older copy the transport date is the one of
\* the creation until the presa in carico, and then changes no more.
RigaCoerente(f) ==
  /\ firs[f].stato \in {"EMESSO", "IN_TRANSITO", "CONSEGNATO"}
       => firs[f].numero # SenzaNumero
  /\ firs[f].stato \in {"BOZZA", "EMESSO"}
       => firs[f].carico = Creazione /\ ~Firmato(f, "TRASPORTATORE")
                                     /\ ~Firmato(f, "DESTINATARIO")
  /\ firs[f].stato = "IN_TRANSITO" => firs[f].carico # Creazione
  /\ \A s \in firme[f] :
       /\ s.ruolo = "PRODUTTORE" => s.documento = Creazione
       /\ s.ruolo = "TRASPORTATORE" => firs[f].carico = s.da
       /\ s.ruolo = "DESTINATARIO" => s.documento = firs[f].carico

\* The document a request signed on it is one of the two versions, and a copy
\* taken after the presa in carico agrees with it.
CopiaCoerente(r) ==
  di[r] \notin sovrascritti =>
    /\ documento[r] \in {Creazione, firs[di[r]].carico}
    /\ copia[r].carico # Creazione =>
         copia[r].carico = firs[di[r]].carico /\ documento[r] = copia[r].carico

InvCoerenza ==
  /\ \A f \in Fir \ sovrascritti : RigaCoerente(f)
  /\ \A r \in Richieste : CopiaCoerente(r)

Inv == TypeOK /\ InvNumeri /\ InvFirme /\ InvCoerenza

-----------------------------------------------------------------------------
(* Lemmas about the operators.                                               *)

\* The greatest number of a bounded set is one of the set, or 0.
LEMMA MassimoLimitato ==
  ASSUME NEW S \in SUBSET Nat, NEW u \in Nat, \A m \in S : m <= u
  PROVE  /\ Massimo(S) \in S \cup {0}
         /\ \A m \in S : m <= Massimo(S)
<1> DEFINE N == S \cup {0}
           Oltre(m) == {k \in N : k > m}
           T == {Oltre(m) : m \in N}
<1>1. IsFiniteSet(N)
  BY FS_BoundedSetOfNaturals, FS_AddElement
<1>2. T \subseteq SUBSET N /\ T # {}
  OBVIOUS
<1>3. PICK X \in T : \A Y \in T : <<Y, X>> \notin StrictSubsetOrdering(N)
  <2>1. IsWellFoundedOn(StrictSubsetOrdering(N), SUBSET N)
    <3>1. FiniteSubsetsOf(N) = SUBSET N
      BY <1>1, FS_FiniteSubsetsOfFinite
    <3> QED BY <3>1, FS_StrictSubsetOrderingWellFounded
  <2> HIDE DEF T, N
  <2> QED BY <1>2, <2>1, WFMin
<1>4. PICK n \in N : X = Oltre(n)
  OBVIOUS
<1>5. ASSUME NEW m \in N, m > n PROVE FALSE
  <2>1. Oltre(m) \in T
    BY <1>5
  <2>a. N \subseteq Nat /\ n \in Nat /\ m \in Nat
    OBVIOUS
  <2>b. m \in X
    BY <1>4, <1>5
  <2>c. m \notin Oltre(m)
    BY <2>a
  <2>d. \A k \in Oltre(m) : k \in Oltre(n)
    BY <1>5, <2>a
  <2>2. m \in X /\ m \notin Oltre(m) /\ Oltre(m) \subseteq X
    BY <1>4, <2>b, <2>c, <2>d
  <2>3. X \in SUBSET N
    BY <1>4
  <2>4. <<Oltre(m), X>> \in StrictSubsetOrdering(N)
    BY <2>2, <2>3 DEF StrictSubsetOrdering
  <2> QED BY <1>3, <2>1, <2>4
<1>6. \A m \in N : m <= n
  BY <1>5
<1> QED BY <1>6 DEF Massimo

\* The FIR a request that has ended points to.
LEMMA UnFir == (CHOOSE f \in Fir : TRUE) \in Fir
BY CicloDiVitaAssumption

\* Bozza is a row, without signature or number.
LEMMA RigaBozza ==
  /\ Bozza \in Riga
  /\ Bozza.stato = "BOZZA" /\ Bozza.numero = SenzaNumero
  /\ Bozza.carico = Creazione
  /\ SenzaNumero \notin Numeri
BY DEF Bozza, Riga, Stati, Date, SenzaNumero, Numeri, Anni

\* What the domain methods that a save follows do to a copy.
LEMMA EffettoApplica ==
  ASSUME NEW o \in Operazioni \ {"emetti"}, NEW c \in Riga, NEW r \in Richieste,
         Ammessa(o, c)
  PROVE  /\ Applica(o, c, r) \in Riga
         /\ Applica(o, c, r).numero = c.numero
         /\ Applica(o, c, r).carico = IF o = "presaInCarico" THEN r ELSE c.carico
         /\ Applica(o, c, r).stato = IF o = "presaInCarico" THEN "IN_TRANSITO"
                                     ELSE IF o = "confermaConsegna" THEN "CONSEGNATO"
                                     ELSE IF o = "annulla" THEN "ANNULLATO" ELSE c.stato
         /\ o = "presaInCarico" => c.stato = "EMESSO"
         /\ o = "confermaConsegna" => c.stato = "IN_TRANSITO"
<1>1. CASE o = "presaInCarico"
  BY <1>1 DEF Applica, Ammessa, Riga, Stati, Date
<1>2. CASE o = "confermaConsegna"
  BY <1>2 DEF Applica, Ammessa, Riga, Stati
<1>3. CASE o = "annulla"
  BY <1>3 DEF Applica, Ammessa, Riga, Stati
<1>4. CASE o \notin {"presaInCarico", "confermaConsegna", "annulla"}
  <2>1. Applica(o, c, r) = [c EXCEPT !.legato = TRUE]
    BY <1>4 DEF Applica
  <2> QED BY <1>4, <2>1 DEF Riga
<1> QED BY <1>1, <1>2, <1>3, <1>4

\* persistSignatures adds a signature or nothing, and leaves one of the role.
LEMMA EffettoPersisti ==
  ASSUME NEW righe, NEW s
  PROVE  /\ righe \subseteq Persisti(righe, s)
         /\ Persisti(righe, s) \subseteq righe \cup {s}
         /\ ConRuolo(Persisti(righe, s), s.ruolo) # {}
         /\ s \in Persisti(righe, s) => s \in righe \/ ConRuolo(righe, s.ruolo) = {}
         /\ UnaPerRuolo(righe) => UnaPerRuolo(Persisti(righe, s))
<1>1. CASE ConRuolo(righe, s.ruolo) = {}
  BY <1>1 DEF Persisti, ConRuolo, UnaPerRuolo
<1>2. CASE ConRuolo(righe, s.ruolo) # {}
  BY <1>2 DEF Persisti, ConRuolo, UnaPerRuolo
<1> QED BY <1>1, <1>2

\* The signature a request writes.
LEMMA TipoFirma ==
  ASSUME TypeOK, NEW r \in Richieste, NEW ruolo \in Ruoli \cup RuoliQes
  PROVE  /\ NuovaFirma(r, ruolo) \in Firma
         /\ NuovaFirma(r, ruolo).ruolo = ruolo
         /\ NuovaFirma(r, ruolo).da = r
         /\ NuovaFirma(r, ruolo).documento = documento[r]
BY DEF TypeOK, NuovaFirma, Firma

\* The roles of the two subsystems are different.
LEMMA RuoliDistinti ==
  /\ Ruoli \cap RuoliQes = {}
  /\ \A o \in ConFirma : RuoloDi[o] \in Ruoli
  /\ RuoloDi.emetti = "PRODUTTORE"
  /\ RuoloDi["presaInCarico"] = "TRASPORTATORE"
  /\ RuoloDi["confermaConsegna"] = "DESTINATARIO"
BY DEF Ruoli, RuoliQes, RuoloDi, ConFirma

-----------------------------------------------------------------------------
(* The end of an execution, and types.                                       *)

AltreFerme(r) ==
  \A q \in Richieste \ {r} :
    /\ fase'[q] = fase[q] /\ op'[q] = op[q] /\ di'[q] = di[q]
    /\ copia'[q] = copia[q] /\ lette'[q] = lette[q]
    /\ documento'[q] = documento[q] /\ annoDi'[q] = annoDi[q]

TipiRichiesta ==
  /\ fase \in [Richieste -> Fasi]
  /\ op \in [Richieste -> Operazioni]
  /\ di \in [Richieste -> Fir]
  /\ copia \in [Richieste -> Riga]
  /\ lette \in [Richieste -> SUBSET Firma]
  /\ documento \in [Richieste -> Date]
  /\ annoDi \in [Richieste -> Anni]

\* An execution that ends leaves the others as they are.
LEMMA Conclusione ==
  ASSUME NEW r \in Richieste, TypeOK, Concludi(r)
  PROVE  /\ TipiRichiesta'
         /\ AltreFerme(r)
         /\ fase'[r] = "finita" /\ di'[r] \in Fir /\ copia'[r] = Bozza
         /\ lette'[r] = {} /\ documento'[r] = Creazione
<1>1. /\ TipiRichiesta
      /\ Bozza \in Riga
      /\ (CHOOSE f \in Fir : TRUE) \in Fir
      /\ "finita" \in Fasi /\ "annulla" \in Operazioni
      /\ Creazione \in Date /\ 1 \in Anni /\ {} \in SUBSET Firma
  BY UnFir, RigaBozza, CicloDiVitaAssumption
     DEF TypeOK, TipiRichiesta, Fasi, Operazioni, SenzaFirma, Date, Anni
<1> QED BY <1>1 DEF TipiRichiesta, AltreFerme, Concludi

-----------------------------------------------------------------------------
(* Numbers.                                                                  *)

\* The numbers in use: on a row, or taken off one.
NumeriUsati == ({firs[f].numero : f \in Fir} \cup cancellati) \ {SenzaNumero}

Contigui(numeri, a) ==
  \E u \in Nat : {n.progressivo : n \in {m \in numeri : m.anno = a}} = 1 .. u

\* Numbers in use are numbers.
LEMMA TipoNumeri ==
  ASSUME TypeOK
  PROVE  NumeriUsati \subseteq Numeri
BY DEF TypeOK, NumeriUsati, Riga

\* SenzaBuchi speaks of the numbers in use of the year.
LEMMA SenzaBuchiUsati ==
  ASSUME TypeOK, NEW a \in Anni
  PROVE  SenzaBuchi(a) <=> Contigui(NumeriUsati, a)
<1> DEFINE P == Progressivi(a) \cup {n.progressivo : n \in {m \in cancellati : m.anno = a}}
           Q == {n.progressivo : n \in {m \in NumeriUsati : m.anno = a}}
<1>1. a # 0 /\ SenzaNumero.anno = 0
  BY DEF Anni, SenzaNumero
<1>2. P = Q
  BY <1>1 DEF Progressivi, NumeriUsati
<1>3. Q \subseteq Nat \ {0}
  BY TipoNumeri DEF Numeri
<1>4. (\E u \in {0} \cup Q : Q = 1 .. u) <=> (\E u \in Nat : Q = 1 .. u)
  <2>1. ASSUME NEW u \in Nat, Q = 1 .. u PROVE u \in {0} \cup Q
    BY <2>1
  <2> QED BY <1>3, <2>1
<1> QED BY <1>2, <1>4 DEF SenzaBuchi, Contigui

\* The next number is positive and above those on the rows of the year; and
\* the numbers in use, with it, have no gaps.
LEMMA ProssimoNumero ==
  ASSUME TypeOK, NEW a \in Anni, SenzaBuchi(a)
  PROVE  /\ Prossimo(a) \in Nat \ {0}
         /\ \A m \in Progressivi(a) : m < Prossimo(a)
         /\ \A u \in Nat : Progressivi(a) \subseteq 1 .. u => Prossimo(a) <= u + 1
<1> DEFINE Q == {n.progressivo : n \in {m \in NumeriUsati : m.anno = a}}
<1>1. PICK u \in Nat : Q = 1 .. u
  BY SenzaBuchiUsati DEF Contigui
<1>2. Progressivi(a) \subseteq Q
  <2>1. a # 0 /\ SenzaNumero.anno = 0
    BY DEF Anni, SenzaNumero
  <2> QED BY <2>1 DEF Progressivi, NumeriUsati
<1>3. Progressivi(a) \in SUBSET Nat /\ \A m \in Progressivi(a) : m <= u
  BY <1>1, <1>2
<1>4. /\ Massimo(Progressivi(a)) \in Progressivi(a) \cup {0}
      /\ \A m \in Progressivi(a) : m <= Massimo(Progressivi(a))
  BY <1>3, MassimoLimitato
<1> QED BY <1>3, <1>4 DEF Prossimo

-----------------------------------------------------------------------------
(* The types.                                                                *)

\* The types hold at the start.
LEMMA TipiIniziali == Init => TypeOK
BY UnFir, RigaBozza, CicloDiVitaAssumption
   DEF Init, TypeOK, Anni, Fasi, Operazioni, SenzaFirma, Date

\* The number an issue writes.
LEMMA NumeroEmesso ==
  ASSUME TypeOK, InvNumeri, NEW r \in Richieste
  PROVE  [anno |-> annoDi[r], progressivo |-> Prossimo(annoDi[r])] \in Numeri
<1>1. annoDi[r] \in Anni
  BY DEF TypeOK
<1>2. SenzaBuchi(annoDi[r])
  BY <1>1 DEF InvNumeri
<1> QED BY <1>1, <1>2, ProssimoNumero DEF Numeri

\* Every step keeps the types.
LEMMA TipiPasso == TypeOK /\ InvNumeri /\ InvFirme /\ [Next]_vars => TypeOK'
<1> SUFFICES ASSUME TypeOK, InvNumeri, InvFirme, [Next]_vars PROVE TypeOK'
  OBVIOUS
<1>2. ASSUME NEW r \in Richieste, NEW f \in Fir, NEW o \in Operazioni, Carica(r, f, o)
      PROVE  TypeOK'
  <2>1. "caricata" \in Fasi /\ firs[f] \in Riga /\ firs[f].carico \in Date
          /\ firme[f] \in SUBSET Firma
    BY DEF TypeOK, Fasi, Riga
  <2> QED BY <1>2, <2>1 DEF Carica, TypeOK, storia
<1>3. ASSUME NEW r \in Richieste, FirmaDocumento(r) PROVE TypeOK'
  <2>1. "firmata" \in Fasi /\ firs[di[r]].carico \in Date
    BY DEF TypeOK, Fasi, Riga
  <2> QED BY <1>3, <2>1 DEF FirmaDocumento, TypeOK, storia
<1>4. ASSUME NEW r \in Richieste, Emetti(r) PROVE TypeOK'
  <2> DEFINE f == di[r]
             n == [anno |-> annoDi[r], progressivo |-> Prossimo(annoDi[r])]
             riga == [copia[r] EXCEPT !.stato = "EMESSO", !.numero = n]
             s == NuovaFirma(r, "PRODUTTORE")
  <2>1. /\ Concludi(r)
        /\ firs' = [firs EXCEPT ![f] = riga]
        /\ firme' = [firme EXCEPT ![f] = Persisti(@, s)]
        /\ assegnati' = assegnati \cup {[fir |-> f, numero |-> n]}
        /\ sovrascritti' = sovrascritti \cup (IF copia[r] = firs[f] THEN {} ELSE {f})
        /\ UNCHANGED <<anno, cancellati>>
    BY <1>4 DEF Emetti
  <2>2. n \in Numeri
    BY NumeroEmesso
  <2>3. f \in Fir /\ copia[r] \in Riga /\ firme[f] \in SUBSET Firma
    BY DEF TypeOK
  <2>4. riga \in Riga
    <3> HIDE DEF n
    <3> QED BY <2>2, <2>3 DEF Riga, Stati
  <2>5. s \in Firma
    BY TipoFirma DEF Ruoli
  <2>6. Persisti(firme[f], s) \in SUBSET Firma
    BY <2>3, <2>5, EffettoPersisti
  <2>7. TipiRichiesta'
    BY <2>1, Conclusione
  <2> HIDE DEF f, n, riga, s
  <2>8. firs' \in [Fir -> Riga] /\ firme' \in [Fir -> SUBSET Firma]
    BY <2>1, <2>3, <2>4, <2>6 DEF TypeOK
  <2>9. /\ anno' \in Anni
        /\ assegnati' \subseteq [fir : Fir, numero : Numeri]
        /\ cancellati' \subseteq Numeri
        /\ sovrascritti' \subseteq Fir
    BY <2>1, <2>2, <2>3 DEF TypeOK
  <2> QED BY <2>7, <2>8, <2>9 DEF TipiRichiesta, TypeOK
<1>5. ASSUME NEW r \in Richieste, Salva(r) PROVE TypeOK'
  <2> DEFINE f == di[r]
             riga == Applica(op[r], copia[r], r)
             s == NuovaFirma(r, RuoloDi[op[r]])
  <2>1. /\ Concludi(r)
        /\ op[r] \in Operazioni \ {"emetti"}
        /\ Ammessa(op[r], copia[r])
        /\ firs' = [firs EXCEPT ![f] = riga]
        /\ firme' = IF op[r] \in ConFirma THEN [firme EXCEPT ![f] = Persisti(@, s)]
                    ELSE firme
        /\ cancellati' = cancellati \cup ({firs[f].numero} \ {SenzaNumero, riga.numero})
        /\ sovrascritti' = sovrascritti \cup (IF copia[r] = firs[f] THEN {} ELSE {f})
        /\ UNCHANGED <<anno, assegnati>>
    BY <1>5 DEF Salva, Operazioni, SenzaFirma
  <2>3. f \in Fir /\ copia[r] \in Riga /\ firme[f] \in SUBSET Firma
          /\ firs[f].numero \in Numeri \cup {SenzaNumero}
    BY DEF TypeOK, Riga
  <2>4. riga \in Riga
    BY <2>1, <2>3, EffettoApplica
  <2>6. op[r] \in ConFirma => Persisti(firme[f], s) \in SUBSET Firma
    <3>1. SUFFICES ASSUME op[r] \in ConFirma PROVE Persisti(firme[f], s) \in SUBSET Firma
      OBVIOUS
    <3>2. s \in Firma
      BY <3>1, TipoFirma, RuoliDistinti
    <3> QED BY <2>3, <3>2, EffettoPersisti
  <2>7. TipiRichiesta'
    BY <2>1, Conclusione
  <2> HIDE DEF f, riga, s
  <2>8. firs' \in [Fir -> Riga] /\ firme' \in [Fir -> SUBSET Firma]
    BY <2>1, <2>3, <2>4, <2>6 DEF TypeOK
  <2>9. /\ anno' \in Anni
        /\ assegnati' \subseteq [fir : Fir, numero : Numeri]
        /\ cancellati' \subseteq Numeri
        /\ sovrascritti' \subseteq Fir
    BY <2>1, <2>3 DEF TypeOK
  <2> QED BY <2>7, <2>8, <2>9 DEF TipiRichiesta, TypeOK
<1>6. ASSUME NEW r \in Richieste, VerificaRuolo(r) PROVE TypeOK'
  <2>1. CASE Concludi(r)
    BY <1>6, <2>1, Conclusione DEF VerificaRuolo, storia, TipiRichiesta, TypeOK
  <2>2. CASE /\ fase' = [fase EXCEPT ![r] = "verificata"]
             /\ UNCHANGED <<op, di, copia, lette, documento, annoDi>>
    BY <1>6, <2>2 DEF VerificaRuolo, storia, TypeOK, Fasi
  <2> QED BY <1>6, <2>1, <2>2 DEF VerificaRuolo
<1>7. ASSUME NEW r \in Richieste, InserisciFirma(r) PROVE TypeOK'
  <2> DEFINE s == NuovaFirma(r, op[r])
  <2>1. /\ Concludi(r)
        /\ firme' = [firme EXCEPT ![di[r]] = @ \cup {s}]
        /\ UNCHANGED <<firs, anno, assegnati, cancellati, sovrascritti>>
    BY <1>7 DEF InserisciFirma, storia
  <2>2. op[r] \in RuoliQes
    BY <1>7 DEF InserisciFirma, InvFirme, CopiaFirmata
  <2>3. s \in Firma
    BY <2>2, TipoFirma
  <2>4. TipiRichiesta'
    BY <2>1, Conclusione
  <2> HIDE DEF s
  <2>5. firme' \in [Fir -> SUBSET Firma]
    BY <2>1, <2>3 DEF TypeOK
  <2> QED BY <2>1, <2>4, <2>5 DEF TipiRichiesta, TypeOK
<1>8. ASSUME NEW r \in Richieste, Rinuncia(r) PROVE TypeOK'
  BY <1>8, Conclusione DEF Rinuncia, storia, TipiRichiesta, TypeOK
<1>9. CASE Capodanno
  BY <1>9, CicloDiVitaAssumption DEF Capodanno, TypeOK, richiesta, storia, Anni
<1>10. CASE UNCHANGED vars
  BY <1>10 DEF vars, richiesta, storia, TypeOK
<1> QED BY <1>2, <1>3, <1>4, <1>5, <1>6, <1>7, <1>8, <1>9, <1>10 DEF Next

-----------------------------------------------------------------------------
(* The numbers given.                                                        *)

\* At the start there is no number.
LEMMA NumeriIniziali == Init => InvNumeri
<1> SUFFICES ASSUME Init PROVE InvNumeri
  OBVIOUS
<1>1. ASSUME NEW a \in Anni PROVE SenzaBuchi(a)
  <2>1. NumeriUsati = {}
    BY RigaBozza DEF Init, NumeriUsati
  <2>2. {n.progressivo : n \in {m \in NumeriUsati : m.anno = a}} = 1 .. 0
    BY <2>1
  <2> QED BY <2>2, SenzaBuchiUsati, TipiIniziali DEF Contigui
<1>2. \A f \in Fir : NumeroNoto(f, firs[f]) /\ firs[f].numero = SenzaNumero
  BY RigaBozza DEF Init, NumeroNoto
<1>3. \A r \in Richieste : NumeroNoto(di[r], copia[r])
  BY RigaBozza DEF Init, NumeroNoto
<1> QED BY <1>1, <1>2, <1>3 DEF Init, InvNumeri

\* What is known of the copies stays known when a request ends and numbers are
\* only given.
LEMMA CopieNote ==
  ASSUME TypeOK, InvNumeri, NEW r \in Richieste, Concludi(r), assegnati \subseteq assegnati'
  PROVE  (\A q \in Richieste : NumeroNoto(di[q], copia[q]))'
<1>1. ASSUME NEW q \in Richieste PROVE NumeroNoto(di[q], copia[q])'
  <2>1. CASE q = r
    BY <2>1, Conclusione, RigaBozza DEF NumeroNoto
  <2>2. CASE q # r
    <3>1. di'[q] = di[q] /\ copia'[q] = copia[q]
      BY <2>2, Conclusione DEF AltreFerme
    <3> QED BY <3>1 DEF NumeroNoto, InvNumeri
  <2> QED BY <2>1, <2>2
<1> QED BY <1>1

\* A step that changes neither rows nor histories.
LEMMA NumeriFermi ==
  ASSUME TypeOK, TypeOK', InvNumeri, UNCHANGED <<firs, assegnati, cancellati>>,
         (\A q \in Richieste : NumeroNoto(di[q], copia[q]))'
  PROVE  InvNumeri'
<1>1. \A f \in Fir : NumeroNoto(f, firs[f])'
  BY DEF InvNumeri, NumeroNoto
<1>2. ASSUME NEW a \in Anni PROVE SenzaBuchi(a)'
  <2>1. SenzaBuchi(a)
    BY DEF InvNumeri
  <2>2. firs' = firs /\ cancellati' = cancellati
    OBVIOUS
  <2>3. Progressivi(a)' = Progressivi(a)
    BY <2>2 DEF Progressivi
  <2> QED BY <2>1, <2>2, <2>3 DEF SenzaBuchi
<1> QED BY <1>1, <1>2 DEF InvNumeri

\* One row is written.
LEMMA NumeriScritti ==
  ASSUME TypeOK, InvNumeri, NEW f \in Fir, NEW riga \in Riga,
         firs' = [firs EXCEPT ![f] = riga],
         assegnati \subseteq assegnati', cancellati \subseteq cancellati',
         riga.stato = "BOZZA" => riga.numero = SenzaNumero,
         riga.numero # SenzaNumero => [fir |-> f, numero |-> riga.numero] \in assegnati',
         riga.numero # SenzaNumero => \A g \in Fir \ {f} : firs[g].numero # riga.numero,
         \A a \in assegnati' : \/ a \in assegnati /\ a.fir # f
                             \/ firs'[a.fir].numero = a.numero
                             \/ a.numero \in cancellati',
         \A a \in Anni : SenzaBuchi(a)',
         (\A q \in Richieste : NumeroNoto(di[q], copia[q]))'
  PROVE  InvNumeri'
<1>1. firs'[f] = riga /\ \A g \in Fir \ {f} : firs'[g] = firs[g]
  BY DEF TypeOK
<1>2. ASSUME NEW g \in Fir PROVE NumeroNoto(g, firs[g])'
  BY <1>1 DEF NumeroNoto, InvNumeri
<1>3. ASSUME NEW a \in assegnati' PROVE (firs[a.fir].numero = a.numero \/ a.numero \in cancellati)'
  <2>1. CASE a \in assegnati /\ a.fir # f
    <3>1. a.fir \in Fir
      BY <2>1 DEF TypeOK
    <3>2. firs'[a.fir] = firs[a.fir]
      BY <1>1, <2>1, <3>1
    <3> QED BY <2>1, <3>2 DEF InvNumeri
  <2> QED BY <2>1
<1>4. ASSUME NEW g \in Fir, NEW h \in Fir, g # h, firs'[g].numero # SenzaNumero
      PROVE  firs'[g].numero # firs'[h].numero
  <2>1. CASE g = f
    BY <1>1, <1>4, <2>1
  <2>2. CASE h = f
    BY <1>1, <1>4, <2>2
  <2>3. CASE g # f /\ h # f
    <3>1. firs'[g] = firs[g] /\ firs'[h] = firs[h]
      BY <1>1, <2>3
    <3> QED BY <1>4, <3>1 DEF InvNumeri
  <2> QED BY <2>1, <2>2, <2>3
<1> QED BY <1>2, <1>3, <1>4 DEF InvNumeri

\* SenzaBuchi and the numbers in use, of the state after a step.
LEMMA SenzaBuchiDopo == (TypeOK => \A a \in Anni : SenzaBuchi(a) <=> Contigui(NumeriUsati, a))'
<1>1. TypeOK => \A a \in Anni : SenzaBuchi(a) <=> Contigui(NumeriUsati, a)
  BY SenzaBuchiUsati
<1> QED BY <1>1, PTL

\* Every step keeps what is known of the numbers: an issue adds the next one of
\* the year, a save moves the number of the row among those taken off.
LEMMA NumeriPasso ==
  TypeOK /\ TypeOK' /\ InvNumeri /\ InvFirme /\ [Next]_vars => InvNumeri'
<1> SUFFICES ASSUME TypeOK, TypeOK', InvNumeri, InvFirme, [Next]_vars PROVE InvNumeri'
  OBVIOUS
<1>2. ASSUME NEW r \in Richieste, NEW f \in Fir, NEW o \in Operazioni, Carica(r, f, o)
      PROVE  InvNumeri'
  <2>1. ASSUME NEW q \in Richieste PROVE NumeroNoto(di[q], copia[q])'
    <3>1. CASE q = r
      <4>1. di'[q] = f /\ copia'[q] = firs[f] /\ assegnati' = assegnati
        BY <1>2, <3>1 DEF Carica, TypeOK, storia
      <4> QED BY <4>1 DEF NumeroNoto, InvNumeri
    <3>2. CASE q # r
      <4>1. di'[q] = di[q] /\ copia'[q] = copia[q] /\ assegnati' = assegnati
        BY <1>2, <3>2 DEF Carica, TypeOK, storia
      <4> QED BY <4>1 DEF NumeroNoto, InvNumeri
    <3> QED BY <3>1, <3>2
  <2>2. UNCHANGED <<firs, assegnati, cancellati>>
    BY <1>2 DEF Carica, storia
  <2> QED BY <2>1, <2>2, NumeriFermi
<1>3. ASSUME NEW r \in Richieste, FirmaDocumento(r) PROVE InvNumeri'
  <2>1. UNCHANGED <<firs, assegnati, cancellati, di, copia>>
    BY <1>3 DEF FirmaDocumento, storia
  <2>2. (\A q \in Richieste : NumeroNoto(di[q], copia[q]))'
    BY <2>1 DEF InvNumeri, NumeroNoto
  <2> QED BY <2>1, <2>2, NumeriFermi
<1>4. ASSUME NEW r \in Richieste, Emetti(r) PROVE InvNumeri'
  <2> DEFINE f == di[r]
             y == annoDi[r]
             n == [anno |-> y, progressivo |-> Prossimo(y)]
             riga == [copia[r] EXCEPT !.stato = "EMESSO", !.numero = n]
  <2>1. /\ Concludi(r)
        /\ firs[f].stato = "BOZZA"
        /\ firs' = [firs EXCEPT ![f] = riga]
        /\ assegnati' = assegnati \cup {[fir |-> f, numero |-> n]}
        /\ cancellati' = cancellati
    BY <1>4 DEF Emetti
  <2>2. f \in Fir /\ copia[r] \in Riga /\ y \in Anni
    BY DEF TypeOK
  <2>3. n \in Numeri /\ n.anno = y /\ n.progressivo = Prossimo(y) /\ n # SenzaNumero
    BY NumeroEmesso, RigaBozza
  <2>4. firs[f].numero = SenzaNumero
    BY <2>1, <2>2 DEF InvNumeri, NumeroNoto
  <2>5. /\ SenzaBuchi(y)
        /\ Prossimo(y) \in Nat \ {0}
        /\ \A m \in Progressivi(y) : m < Prossimo(y)
        /\ \A u \in Nat : Progressivi(y) \subseteq 1 .. u => Prossimo(y) <= u + 1
    BY <2>2, ProssimoNumero DEF InvNumeri
  <2>6. \A g \in Fir : firs[g].numero # n
    <3>1. SUFFICES ASSUME NEW g \in Fir, firs[g].numero = n PROVE FALSE
      OBVIOUS
    <3>2. firs[g].numero.anno = y /\ firs[g].numero.progressivo = Prossimo(y)
      BY <2>3, <3>1
    <3>3. Prossimo(y) \in Progressivi(y)
      BY <3>2 DEF Progressivi
    <3> QED BY <2>5, <3>3
  <2> HIDE DEF n
  <2>7. riga \in Riga /\ riga.numero = n /\ riga.stato = "EMESSO"
    BY <2>2, <2>3 DEF Riga, Stati
  <2>8. /\ riga.stato = "BOZZA" => riga.numero = SenzaNumero
        /\ riga.numero # SenzaNumero => [fir |-> f, numero |-> riga.numero] \in assegnati'
    BY <2>1, <2>7
  <2>9. ASSUME NEW a \in assegnati'
        PROVE  \/ a \in assegnati /\ a.fir # f
               \/ firs'[a.fir].numero = a.numero
               \/ a.numero \in cancellati'
    <3>1. firs'[f].numero = n
      BY <2>1, <2>2, <2>7 DEF TypeOK
    <3>2. CASE a = [fir |-> f, numero |-> n]
      BY <3>1, <3>2
    <3>3. CASE a \in assegnati /\ a.fir = f
      <4>1. a.numero \in Numeri
        BY <3>3 DEF TypeOK
      <4>2. firs[a.fir].numero = a.numero \/ a.numero \in cancellati
        BY <3>3 DEF InvNumeri
      <4>3. a.numero # SenzaNumero
        BY <4>1, RigaBozza
      <4> QED BY <2>1, <2>4, <3>3, <4>2, <4>3
    <3> QED BY <2>1, <3>2, <3>3
  <2>10. NumeriUsati' = NumeriUsati \cup {n}
    <3>1. ASSUME NEW m PROVE m \in NumeriUsati' <=> m \in NumeriUsati \cup {n}
      <4> HIDE DEF f, riga
      <4>1. firs'[f].numero = n /\ \A g \in Fir \ {f} : firs'[g] = firs[g]
        BY <2>1, <2>2, <2>7 DEF TypeOK
      <4>2. cancellati' = cancellati
        BY <2>1
      <4> QED BY <2>2, <2>3, <2>4, <4>1, <4>2 DEF NumeriUsati
    <3> QED BY <3>1
  <2>11. ASSUME NEW a \in Anni PROVE SenzaBuchi(a)'
    <3>1. PICK u \in Nat : {k.progressivo : k \in {m \in NumeriUsati : m.anno = a}} = 1 .. u
      BY SenzaBuchiUsati DEF InvNumeri, Contigui
    <3>2. Contigui(NumeriUsati \cup {n}, a)
      <4>1. CASE a # y
        <5>1. {m \in NumeriUsati \cup {n} : m.anno = a} = {m \in NumeriUsati : m.anno = a}
          BY <2>3, <4>1
        <5> QED BY <3>1, <5>1 DEF Contigui
      <4>2. CASE a = y
        <5> DEFINE P == {k.progressivo : k \in {m \in NumeriUsati : m.anno = a}}
                   P1 == {k.progressivo : k \in {m \in NumeriUsati \cup {n} : m.anno = a}}
        <5>1. P1 = P \cup {Prossimo(y)}
          BY <2>3, <4>2
        <5>2. Progressivi(y) \subseteq 1 .. u
          <6>1. SenzaNumero.anno # y
            BY <2>2 DEF Anni, SenzaNumero
          <6>2. Progressivi(y) \subseteq P
            BY <4>2, <6>1 DEF Progressivi, NumeriUsati
          <6> QED BY <3>1, <6>2
        <5>3. Prossimo(y) \in 1 .. (u + 1)
          BY <2>5, <5>2
        <5> HIDE DEF P, P1
        <5>4. P1 = 1 .. u \/ P1 = 1 .. (u + 1)
          <6>1. P = 1 .. u
            BY <3>1 DEF P
          <6>2. CASE Prossimo(y) = u + 1
            BY <5>1, <6>1, <6>2
          <6>3. CASE Prossimo(y) # u + 1
            BY <5>1, <5>3, <6>1, <6>3
          <6> QED BY <6>2, <6>3
        <5> QED BY <5>4 DEF P1, Contigui
      <4> QED BY <4>1, <4>2
    <3> QED BY <2>10, <3>2, SenzaBuchiDopo
  <2>12. (\A q \in Richieste : NumeroNoto(di[q], copia[q]))'
    BY <2>1, CopieNote
  <2>13. assegnati \subseteq assegnati' /\ cancellati \subseteq cancellati'
    BY <2>1
  <2>14. firs' = [firs EXCEPT ![f] = riga]
    BY <2>1
  <2> HIDE DEF f, riga
  <2> QED BY <2>2, <2>6, <2>7, <2>8, <2>9, <2>11, <2>12, <2>13, <2>14, NumeriScritti
<1>5. ASSUME NEW r \in Richieste, Salva(r) PROVE InvNumeri'
  <2> DEFINE f == di[r]
             riga == Applica(op[r], copia[r], r)
             k == firs[f].numero
             m == riga.numero
  <2>1. /\ Concludi(r)
        /\ op[r] \in Operazioni \ {"emetti"}
        /\ Ammessa(op[r], copia[r])
        /\ NumeroLibero(f, m)
        /\ firs' = [firs EXCEPT ![f] = riga]
        /\ cancellati' = cancellati \cup ({k} \ {SenzaNumero, m})
        /\ assegnati' = assegnati
    BY <1>5 DEF Salva, Operazioni, SenzaFirma
  <2>2. f \in Fir /\ copia[r] \in Riga /\ k \in Numeri \cup {SenzaNumero}
    BY DEF TypeOK, Riga
  <2>3. /\ riga \in Riga /\ m = copia[r].numero
        /\ riga.stato = "BOZZA" => copia[r].stato = "BOZZA"
    BY <2>1, <2>2, EffettoApplica
  <2>4. NumeroNoto(f, copia[r])
    BY DEF InvNumeri
  <2> HIDE DEF f, riga, k, m
  <2>5. /\ riga.stato = "BOZZA" => m = SenzaNumero
        /\ m # SenzaNumero => [fir |-> f, numero |-> m] \in assegnati'
    BY <2>1, <2>3, <2>4 DEF NumeroNoto
  <2>6. m # SenzaNumero => \A g \in Fir \ {f} : firs[g].numero # m
    BY <2>1 DEF NumeroLibero
  <2>7. firs'[f] = riga /\ firs'[f].numero = m /\ \A g \in Fir \ {f} : firs'[g] = firs[g]
    BY <2>1, <2>2 DEF TypeOK, m
  <2>8. ASSUME NEW a \in assegnati'
        PROVE  \/ a \in assegnati /\ a.fir # f
               \/ firs'[a.fir].numero = a.numero
               \/ a.numero \in cancellati'
    <3>1. a \in assegnati /\ a.numero # SenzaNumero
      BY <2>1, RigaBozza DEF TypeOK
    <3>2. CASE a.fir = f
      <4>1. k = a.numero \/ a.numero \in cancellati
        BY <3>1, <3>2 DEF InvNumeri, k
      <4> QED BY <2>1, <2>7, <3>1, <3>2, <4>1
    <3> QED BY <3>1, <3>2
  <2>9. m # SenzaNumero => m = k \/ m \in cancellati
    <3>1. SUFFICES ASSUME m # SenzaNumero PROVE m = k \/ m \in cancellati
      OBVIOUS
    <3>2. [fir |-> f, numero |-> m] \in assegnati
      BY <2>1, <2>5, <3>1
    <3> QED BY <3>2 DEF InvNumeri, k
  <2>10. NumeriUsati' = NumeriUsati
    <3>1. ASSUME NEW h PROVE h \in NumeriUsati' <=> h \in NumeriUsati
      BY <2>1, <2>2, <2>7, <2>9 DEF NumeriUsati, k
    <3> QED BY <3>1
  <2>11. ASSUME NEW a \in Anni PROVE SenzaBuchi(a)'
    <3>1. Contigui(NumeriUsati, a)
      BY SenzaBuchiUsati DEF InvNumeri
    <3> QED BY <2>10, <3>1, SenzaBuchiDopo DEF Contigui
  <2>12. (\A q \in Richieste : NumeroNoto(di[q], copia[q]))'
    BY <2>1, CopieNote
  <2>13. assegnati \subseteq assegnati' /\ cancellati \subseteq cancellati'
    BY <2>1
  <2>14. /\ riga.stato = "BOZZA" => riga.numero = SenzaNumero
         /\ riga.numero # SenzaNumero => [fir |-> f, numero |-> riga.numero] \in assegnati'
         /\ riga.numero # SenzaNumero => \A g \in Fir \ {f} : firs[g].numero # riga.numero
    BY <2>5, <2>6 DEF m
  <2>15. firs' = [firs EXCEPT ![f] = riga]
    BY <2>1
  <2> QED BY <2>2, <2>3, <2>8, <2>11, <2>12, <2>13, <2>14, <2>15, NumeriScritti
<1>6. ASSUME NEW r \in Richieste, VerificaRuolo(r) PROVE InvNumeri'
  <2>1. UNCHANGED <<firs, assegnati, cancellati>>
    BY <1>6 DEF VerificaRuolo, storia
  <2>2. CASE Concludi(r)
    BY <2>1, <2>2, CopieNote, NumeriFermi
  <2>3. CASE UNCHANGED <<di, copia>>
    <3>1. (\A q \in Richieste : NumeroNoto(di[q], copia[q]))'
      BY <2>1, <2>3 DEF InvNumeri, NumeroNoto
    <3> QED BY <2>1, <3>1, NumeriFermi
  <2> QED BY <1>6, <2>2, <2>3 DEF VerificaRuolo
<1>7. ASSUME NEW r \in Richieste, InserisciFirma(r) PROVE InvNumeri'
  BY <1>7, CopieNote, NumeriFermi DEF InserisciFirma, storia
<1>8. ASSUME NEW r \in Richieste, Rinuncia(r) PROVE InvNumeri'
  BY <1>8, CopieNote, NumeriFermi DEF Rinuncia, storia
<1>9. CASE Capodanno \/ UNCHANGED vars
  <2>1. UNCHANGED <<firs, assegnati, cancellati, di, copia>>
    BY <1>9 DEF Capodanno, vars, richiesta, storia
  <2>2. (\A q \in Richieste : NumeroNoto(di[q], copia[q]))'
    BY <2>1 DEF InvNumeri, NumeroNoto
  <2> QED BY <2>1, <2>2, NumeriFermi
<1> QED BY <1>2, <1>3, <1>4, <1>5, <1>6, <1>7, <1>8, <1>9 DEF Next

-----------------------------------------------------------------------------
(* The signatures.                                                           *)

\* At the start there is no signature.
LEMMA FirmeIniziali == Init => InvFirme
<1> SUFFICES ASSUME Init PROVE InvFirme
  OBVIOUS
<1>1. ASSUME NEW f \in Fir PROVE FirmataComeStato(f, firs[f]) /\ UnaPerRuolo(firme[f])
  BY RigaBozza DEF Init, FirmataComeStato, UnaPerRuolo
<1>2. ASSUME NEW r \in Richieste PROVE CopiaFirmata(r)
  BY RigaBozza DEF Init, CopiaFirmata, FirmataComeStato
<1>3. OrdineDelleFirme
  BY DEF Init, OrdineDelleFirme, Firmato, ConRuolo
<1> QED BY <1>1, <1>2, <1>3 DEF InvFirme

\* Signatures are only added: what a state needs is still there.
LEMMA FirmeCrescenti ==
  ASSUME \A f \in Fir : firme[f] \subseteq firme'[f]
  PROVE  \A f \in Fir : \A ruolo : Firmato(f, ruolo) => ConRuolo(firme'[f], ruolo) # {}
BY DEF Firmato, ConRuolo

\* A copy that the step leaves alone stays behind its row.
LEMMA CopiaFirmataFerma ==
  ASSUME TypeOK, InvFirme, \A f \in Fir : firme[f] \subseteq firme'[f],
         NEW q \in Richieste,
         fase'[q] = fase[q], op'[q] = op[q], di'[q] = di[q], copia'[q] = copia[q],
         lette'[q] = lette[q]
  PROVE  CopiaFirmata(q)'
<1>1. di[q] \in Fir /\ CopiaFirmata(q)
  BY DEF TypeOK, InvFirme
<1>2. FirmataComeStato(di[q], copia[q])'
  <2>1. PICK f \in Fir : f = di[q]
    BY <1>1
  <2>2. \A ruolo : Firmato(f, ruolo) => Firmato(f, ruolo)'
    BY FirmeCrescenti DEF Firmato
  <2> QED BY <1>1, <2>1, <2>2 DEF CopiaFirmata, FirmataComeStato
<1>3. lette'[q] \subseteq firme'[di'[q]]
  BY <1>1 DEF CopiaFirmata
<1> QED BY <1>1, <1>2, <1>3 DEF CopiaFirmata

\* The copies when a request ends.
LEMMA CopieFirmate ==
  ASSUME TypeOK, InvFirme, \A f \in Fir : firme[f] \subseteq firme'[f],
         NEW r \in Richieste, Concludi(r)
  PROVE  \A q \in Richieste : CopiaFirmata(q)'
<1>1. ASSUME NEW q \in Richieste PROVE CopiaFirmata(q)'
  <2>1. CASE q = r
    BY <2>1, Conclusione, RigaBozza DEF CopiaFirmata, FirmataComeStato
  <2>2. CASE q # r
    BY <2>2, Conclusione, CopiaFirmataFerma DEF AltreFerme
  <2> QED BY <2>1, <2>2
<1> QED BY <1>1

\* One row and its signatures are written.
LEMMA FirmeScritte ==
  ASSUME TypeOK, InvFirme, NEW f \in Fir,
         \A g \in Fir \ {f} : firs'[g] = firs[g] /\ firme'[g] = firme[g],
         firme[f] \subseteq firme'[f], UnaPerRuolo(firme'[f]),
         FirmataComeStato(f, firs[f])',
         \A s \in firme'[f] \ firme[f] :
            /\ s.ruolo = "CARRIER" => Firmato(f, "PRODUCER")
            /\ s.ruolo = "RECEIVER" => Firmato(f, "CARRIER"),
         \A q \in Richieste : CopiaFirmata(q)'
  PROVE  InvFirme'
<1>1. ASSUME NEW g \in Fir PROVE (FirmataComeStato(g, firs[g]) /\ UnaPerRuolo(firme[g]))'
  <2>1. CASE g = f
    BY <2>1 DEF UnaPerRuolo
  <2>2. CASE g # f
    <3>1. FirmataComeStato(g, firs[g]) /\ UnaPerRuolo(firme[g])
      BY DEF InvFirme
    <3>2. firs'[g] = firs[g] /\ firme'[g] = firme[g]
      BY <2>2
    <3> QED BY <3>1, <3>2 DEF FirmataComeStato, Firmato, UnaPerRuolo
  <2> QED BY <2>1, <2>2
<1>2. ASSUME NEW g \in Fir
      PROVE  /\ Firmato(g, "CARRIER")' => Firmato(g, "PRODUCER")'
             /\ Firmato(g, "RECEIVER")' => Firmato(g, "CARRIER")'
  <2>1. /\ Firmato(g, "CARRIER") => Firmato(g, "PRODUCER")
        /\ Firmato(g, "RECEIVER") => Firmato(g, "CARRIER")
    BY DEF InvFirme, OrdineDelleFirme
  <2>2. \A ruolo : Firmato(g, ruolo) => Firmato(g, ruolo)'
    BY DEF Firmato, ConRuolo
  <2>3. /\ Firmato(g, "CARRIER")' => Firmato(g, "CARRIER") \/ Firmato(g, "PRODUCER")
        /\ Firmato(g, "RECEIVER")' => Firmato(g, "RECEIVER") \/ Firmato(g, "CARRIER")
    BY DEF Firmato, ConRuolo
  <2> QED BY <2>1, <2>2, <2>3
<1> QED BY <1>1, <1>2 DEF InvFirme, OrdineDelleFirme

\* No row and no signature is written.
LEMMA FirmeFerme ==
  ASSUME InvFirme, UNCHANGED <<firs, firme>>, \A q \in Richieste : CopiaFirmata(q)'
  PROVE  InvFirme'
<1>1. \A f \in Fir : (FirmataComeStato(f, firs[f]) /\ UnaPerRuolo(firme[f]))'
  BY DEF InvFirme, FirmataComeStato, Firmato, UnaPerRuolo
<1> QED BY <1>1 DEF InvFirme, OrdineDelleFirme, Firmato

\* Every step keeps the signatures that states and orders need.
LEMMA FirmePasso == TypeOK /\ TypeOK' /\ InvFirme /\ [Next]_vars => InvFirme'
<1> SUFFICES ASSUME TypeOK, TypeOK', InvFirme, [Next]_vars PROVE InvFirme'
  OBVIOUS
<1>2. ASSUME NEW r \in Richieste, NEW f \in Fir, NEW o \in Operazioni, Carica(r, f, o)
      PROVE  InvFirme'
  <2>1. UNCHANGED <<firs, firme>>
    BY <1>2 DEF Carica
  <2>2. ASSUME NEW q \in Richieste PROVE CopiaFirmata(q)'
    <3>1. CASE q = r
      <4>1. /\ fase'[q] = "caricata" /\ di'[q] = f /\ copia'[q] = firs[f]
            /\ lette'[q] = firme[f]
        BY <1>2, <3>1 DEF Carica, TypeOK
      <4>2. FirmataComeStato(f, firs[f])
        BY DEF InvFirme
      <4>3. FirmataComeStato(di[q], copia[q])'
        BY <2>1, <4>1, <4>2 DEF FirmataComeStato, Firmato
      <4> QED BY <2>1, <4>1, <4>3 DEF CopiaFirmata
    <3>2. CASE q # r
      <4>1. /\ fase'[q] = fase[q] /\ op'[q] = op[q] /\ di'[q] = di[q]
            /\ copia'[q] = copia[q] /\ lette'[q] = lette[q]
        BY <1>2, <3>2 DEF Carica, TypeOK
      <4> QED BY <2>1, <4>1, CopiaFirmataFerma
    <3> QED BY <3>1, <3>2
  <2> QED BY <2>1, <2>2, FirmeFerme
<1>3. ASSUME NEW r \in Richieste, FirmaDocumento(r) PROVE InvFirme'
  <2>1. UNCHANGED <<firs, firme, op, di, copia, lette>>
    BY <1>3 DEF FirmaDocumento
  <2>2. ASSUME NEW q \in Richieste PROVE CopiaFirmata(q)'
    <3>1. fase'[q] = "verificata" => fase[q] = "verificata"
      BY <1>3 DEF FirmaDocumento, TypeOK
    <3>2. CopiaFirmata(q)
      BY DEF InvFirme
    <3>3. FirmataComeStato(di[q], copia[q])'
      BY <2>1, <3>2 DEF CopiaFirmata, FirmataComeStato, Firmato
    <3> QED BY <2>1, <3>1, <3>2, <3>3 DEF CopiaFirmata
  <2> QED BY <2>1, <2>2, FirmeFerme
<1>4. ASSUME NEW r \in Richieste, Emetti(r) PROVE InvFirme'
  <2> DEFINE n == [anno |-> annoDi[r], progressivo |-> Prossimo(annoDi[r])]
             riga == [copia[r] EXCEPT !.stato = "EMESSO", !.numero = n]
             s == NuovaFirma(r, "PRODUTTORE")
  <2>1. PICK f \in Fir : f = di[r]
    BY DEF TypeOK
  <2>2. /\ Concludi(r)
        /\ firs' = [firs EXCEPT ![f] = riga]
        /\ firme' = [firme EXCEPT ![f] = Persisti(@, s)]
    BY <1>4, <2>1 DEF Emetti
  <2>3. riga.stato = "EMESSO"
    BY DEF TypeOK, Riga
  <2>4. s.ruolo = "PRODUTTORE"
    BY DEF NuovaFirma
  <2> HIDE DEF riga, s
  <2>5. /\ firs'[f] = riga /\ firme'[f] = Persisti(firme[f], s)
        /\ \A g \in Fir \ {f} : firs'[g] = firs[g] /\ firme'[g] = firme[g]
    BY <2>2 DEF TypeOK
  <2>6. /\ firme[f] \subseteq firme'[f] /\ firme'[f] \subseteq firme[f] \cup {s}
        /\ ConRuolo(firme'[f], "PRODUTTORE") # {}
        /\ UnaPerRuolo(firme'[f])
    BY <2>4, <2>5, EffettoPersisti DEF InvFirme
  <2>7. FirmataComeStato(f, firs[f])'
    BY <2>3, <2>5, <2>6 DEF FirmataComeStato, Firmato
  <2>8. \A t \in firme'[f] \ firme[f] : t.ruolo = "PRODUTTORE"
    BY <2>4, <2>6
  <2>9. \A q \in Richieste : CopiaFirmata(q)'
    BY <2>2, <2>5, <2>6, CopieFirmate
  <2> QED BY <2>5, <2>6, <2>7, <2>8, <2>9, FirmeScritte
<1>5. ASSUME NEW r \in Richieste, Salva(r) PROVE InvFirme'
  <2> DEFINE riga == Applica(op[r], copia[r], r)
             s == NuovaFirma(r, RuoloDi[op[r]])
  <2>1. PICK f \in Fir : f = di[r]
    BY DEF TypeOK
  <2>2. /\ Concludi(r)
        /\ op[r] \in Operazioni \ {"emetti"}
        /\ Ammessa(op[r], copia[r])
        /\ firs' = [firs EXCEPT ![f] = riga]
        /\ firme' = IF op[r] \in ConFirma THEN [firme EXCEPT ![f] = Persisti(@, s)]
                    ELSE firme
    BY <1>5, <2>1 DEF Salva, Operazioni, SenzaFirma
  <2>3. copia[r] \in Riga /\ FirmataComeStato(f, copia[r])
    BY <2>1 DEF TypeOK, InvFirme, CopiaFirmata
  <2>4. /\ riga.numero = copia[r].numero
        /\ riga.stato = IF op[r] = "presaInCarico" THEN "IN_TRANSITO"
                        ELSE IF op[r] = "confermaConsegna" THEN "CONSEGNATO"
                        ELSE IF op[r] = "annulla" THEN "ANNULLATO" ELSE copia[r].stato
        /\ op[r] = "presaInCarico" => copia[r].stato = "EMESSO"
        /\ op[r] = "confermaConsegna" => copia[r].stato = "IN_TRANSITO"
    BY <2>2, <2>3, EffettoApplica
  <2>5. s.ruolo = RuoloDi[op[r]]
    BY DEF NuovaFirma
  <2> HIDE DEF riga, s
  <2>6. /\ firs'[f] = riga
        /\ firme'[f] = IF op[r] \in ConFirma THEN Persisti(firme[f], s) ELSE firme[f]
        /\ \A g \in Fir \ {f} : firs'[g] = firs[g] /\ firme'[g] = firme[g]
    BY <2>2 DEF TypeOK
  <2>7. UnaPerRuolo(firme[f])
    BY DEF InvFirme
  <2>8. /\ firme[f] \subseteq firme'[f] /\ UnaPerRuolo(firme'[f])
        /\ op[r] \in ConFirma => /\ firme'[f] \subseteq firme[f] \cup {s}
                                 /\ ConRuolo(firme'[f], RuoloDi[op[r]]) # {}
        /\ op[r] \notin ConFirma => firme'[f] = firme[f]
    <3>1. CASE op[r] \in ConFirma
      BY <2>5, <2>6, <2>7, <3>1, EffettoPersisti
    <3>2. CASE op[r] \notin ConFirma
      BY <2>6, <2>7, <3>2
    <3> QED BY <3>1, <3>2
  <2>9. \A ruolo : Firmato(f, ruolo) => ConRuolo(firme'[f], ruolo) # {}
    BY <2>8 DEF Firmato, ConRuolo
  <2>10. /\ op[r] = "presaInCarico" => ConRuolo(firme'[f], "TRASPORTATORE") # {}
         /\ op[r] = "confermaConsegna" => ConRuolo(firme'[f], "DESTINATARIO") # {}
    BY <2>8, RuoliDistinti DEF ConFirma
  <2>11. FirmataComeStato(f, firs[f])'
    <3>1. /\ copia[r].stato \in {"EMESSO", "IN_TRANSITO", "CONSEGNATO"}
                => ConRuolo(firme'[f], "PRODUTTORE") # {}
          /\ copia[r].stato \in {"IN_TRANSITO", "CONSEGNATO"}
                => ConRuolo(firme'[f], "TRASPORTATORE") # {}
          /\ copia[r].stato = "CONSEGNATO" => ConRuolo(firme'[f], "DESTINATARIO") # {}
          /\ copia[r].numero # SenzaNumero => ConRuolo(firme'[f], "PRODUTTORE") # {}
      BY <2>3, <2>9 DEF FirmataComeStato
    <3> QED BY <2>4, <2>6, <2>10, <3>1 DEF FirmataComeStato, Firmato
  <2>12. \A t \in firme'[f] \ firme[f] : t.ruolo \notin RuoliQes
    BY <2>5, <2>8, RuoliDistinti
  <2>13. \A q \in Richieste : CopiaFirmata(q)'
    BY <2>2, <2>6, <2>8, CopieFirmate
  <2>14. \A t \in firme'[f] \ firme[f] : t.ruolo # "CARRIER" /\ t.ruolo # "RECEIVER"
    BY <2>12 DEF RuoliQes
  <2> QED BY <2>6, <2>8, <2>11, <2>13, <2>14, FirmeScritte
<1>6. ASSUME NEW r \in Richieste, VerificaRuolo(r) PROVE InvFirme'
  <2>1. UNCHANGED <<firs, firme>>
    BY <1>6 DEF VerificaRuolo
  <2>2. CASE Concludi(r)
    BY <2>1, <2>2, CopieFirmate, FirmeFerme
  <2>3. CASE /\ fase' = [fase EXCEPT ![r] = "verificata"]
             /\ UNCHANGED <<op, di, copia, lette, documento, annoDi>>
    <3>1. ASSUME NEW q \in Richieste PROVE CopiaFirmata(q)'
      <4>1. CopiaFirmata(q)
        BY DEF InvFirme
      <4>2. FirmataComeStato(di[q], copia[q])'
        BY <2>1, <2>3, <4>1 DEF CopiaFirmata, FirmataComeStato, Firmato
      <4>3. (fase[q] = "verificata" => op[q] \in RuoliQes /\ FirmaAmmessa(op[q], lette[q]))'
        BY <1>6, <2>3, <4>1 DEF CopiaFirmata, VerificaRuolo, TypeOK
      <4> QED BY <2>1, <2>3, <4>1, <4>2, <4>3 DEF CopiaFirmata
    <3> QED BY <2>1, <3>1, FirmeFerme
  <2> QED BY <1>6, <2>2, <2>3 DEF VerificaRuolo
<1>7. ASSUME NEW r \in Richieste, InserisciFirma(r) PROVE InvFirme'
  <2> DEFINE s == NuovaFirma(r, op[r])
  <2>1. PICK f \in Fir : f = di[r]
    BY DEF TypeOK
  <2>2. Concludi(r) /\ firme' = [firme EXCEPT ![f] = @ \cup {s}] /\ firs' = firs
    BY <1>7, <2>1 DEF InserisciFirma
  <2>3. op[r] \in RuoliQes /\ FirmaAmmessa(op[r], lette[r]) /\ lette[r] \subseteq firme[f]
    BY <1>7, <2>1 DEF InserisciFirma, InvFirme, CopiaFirmata
  <2>4. s.ruolo = op[r]
    BY DEF NuovaFirma
  <2> HIDE DEF s
  <2>5. /\ firme'[f] = firme[f] \cup {s}
        /\ \A g \in Fir \ {f} : firs'[g] = firs[g] /\ firme'[g] = firme[g]
    BY <2>2 DEF TypeOK
  <2>6. UnaPerRuolo(firme'[f])
    <3>1. UnaPerRuolo(firme[f])
      BY DEF InvFirme
    <3> QED BY <2>3, <2>4, <2>5, <3>1, RuoliDistinti DEF UnaPerRuolo
  <2>7. FirmataComeStato(f, firs[f])'
    <3>1. FirmataComeStato(f, firs[f])
      BY DEF InvFirme
    <3>2. \A ruolo : Firmato(f, ruolo) => Firmato(f, ruolo)'
      BY <2>5 DEF Firmato, ConRuolo
    <3> QED BY <2>2, <3>1, <3>2 DEF FirmataComeStato
  <2>8. /\ s.ruolo = "CARRIER" => Firmato(f, "PRODUCER")
        /\ s.ruolo = "RECEIVER" => Firmato(f, "CARRIER")
    BY <2>3, <2>4 DEF FirmaAmmessa, Firmato, ConRuolo
  <2>9. \A q \in Richieste : CopiaFirmata(q)'
    BY <2>2, <2>5, CopieFirmate
  <2> QED BY <2>5, <2>6, <2>7, <2>8, <2>9, FirmeScritte
<1>8. ASSUME NEW r \in Richieste, Rinuncia(r) PROVE InvFirme'
  BY <1>8, CopieFirmate, FirmeFerme DEF Rinuncia
<1>9. CASE Capodanno \/ UNCHANGED vars
  <2>1. UNCHANGED <<firs, firme, fase, op, di, copia, lette>>
    BY <1>9 DEF Capodanno, vars, richiesta
  <2>2. \A q \in Richieste : CopiaFirmata(q)'
    BY <2>1, CopiaFirmataFerma
  <2> QED BY <2>1, <2>2, FirmeFerme
<1> QED BY <1>2, <1>3, <1>4, <1>5, <1>6, <1>7, <1>8, <1>9 DEF Next

-----------------------------------------------------------------------------
(* Rows and signatures.                                                      *)

\* At the start rows and signatures agree.
LEMMA CoerenzaIniziale == Init => InvCoerenza
<1> SUFFICES ASSUME Init PROVE InvCoerenza
  OBVIOUS
<1>1. ASSUME NEW f \in Fir PROVE RigaCoerente(f)
  BY RigaBozza DEF Init, RigaCoerente, Firmato, ConRuolo
<1>2. ASSUME NEW r \in Richieste PROVE CopiaCoerente(r)
  BY RigaBozza DEF Init, CopiaCoerente
<1> QED BY <1>1, <1>2 DEF InvCoerenza

\* The copies of other requests: a transport date is written only over the one
\* of the creation.
LEMMA CopiaCoerenteFerma ==
  ASSUME TypeOK, InvCoerenza, sovrascritti \subseteq sovrascritti',
         \A g \in Fir \ sovrascritti' :
            firs[g].carico = Creazione \/ firs'[g].carico = firs[g].carico,
         NEW q \in Richieste,
         di'[q] = di[q], copia'[q] = copia[q], documento'[q] = documento[q]
  PROVE  CopiaCoerente(q)'
<1>1. di[q] \in Fir /\ CopiaCoerente(q)
  BY DEF TypeOK, InvCoerenza
<1> QED BY <1>1 DEF CopiaCoerente

\* The copies when a request ends.
LEMMA CopieCoerenti ==
  ASSUME TypeOK, InvCoerenza, sovrascritti \subseteq sovrascritti',
         \A g \in Fir \ sovrascritti' :
            firs[g].carico = Creazione \/ firs'[g].carico = firs[g].carico,
         NEW r \in Richieste, Concludi(r)
  PROVE  \A q \in Richieste : CopiaCoerente(q)'
<1>1. ASSUME NEW q \in Richieste PROVE CopiaCoerente(q)'
  <2>1. CASE q = r
    BY <2>1, Conclusione, RigaBozza DEF CopiaCoerente
  <2>2. CASE q # r
    BY <2>2, Conclusione, CopiaCoerenteFerma DEF AltreFerme
  <2> QED BY <2>1, <2>2
<1> QED BY <1>1

\* One row and its signatures are written.
LEMMA CoerenzaScritta ==
  ASSUME InvCoerenza, NEW f \in Fir, sovrascritti \subseteq sovrascritti',
         \A g \in Fir \ {f} : firs'[g] = firs[g] /\ firme'[g] = firme[g],
         f \notin sovrascritti' => RigaCoerente(f)',
         \A q \in Richieste : CopiaCoerente(q)'
  PROVE  InvCoerenza'
<1>1. ASSUME NEW g \in Fir, g \notin sovrascritti' PROVE RigaCoerente(g)'
  <2>1. CASE g = f
    BY <1>1, <2>1
  <2>2. CASE g # f
    <3>1. RigaCoerente(g)
      BY <1>1 DEF InvCoerenza
    <3>2. firs'[g] = firs[g] /\ firme'[g] = firme[g]
      BY <2>2
    <3> QED BY <3>1, <3>2 DEF RigaCoerente, Firmato
  <2> QED BY <2>1, <2>2
<1> QED BY <1>1 DEF InvCoerenza

\* No row and no signature is written.
LEMMA CoerenzaFerma ==
  ASSUME InvCoerenza, UNCHANGED <<firs, firme, sovrascritti>>,
         \A q \in Richieste : CopiaCoerente(q)'
  PROVE  InvCoerenza'
<1>1. ASSUME NEW g \in Fir, g \notin sovrascritti' PROVE RigaCoerente(g)'
  <2>1. RigaCoerente(g)
    BY <1>1 DEF InvCoerenza
  <2> QED BY <2>1 DEF RigaCoerente, Firmato
<1> QED BY <1>1 DEF InvCoerenza

\* Every step keeps the agreement of row and signatures, on the rows that are
\* not written from an older copy.
LEMMA CoerenzaPasso ==
  TypeOK /\ TypeOK' /\ InvNumeri /\ InvFirme /\ InvCoerenza /\ [Next]_vars => InvCoerenza'
<1> SUFFICES ASSUME TypeOK, TypeOK', InvNumeri, InvFirme, InvCoerenza, [Next]_vars
             PROVE  InvCoerenza'
  OBVIOUS
<1>2. ASSUME NEW r \in Richieste, NEW f \in Fir, NEW o \in Operazioni, Carica(r, f, o)
      PROVE  InvCoerenza'
  <2>1. UNCHANGED <<firs, firme, sovrascritti>>
    BY <1>2 DEF Carica, storia
  <2>2. ASSUME NEW q \in Richieste PROVE CopiaCoerente(q)'
    <3>1. CASE q = r
      <4>1. di'[q] = f /\ copia'[q] = firs[f] /\ documento'[q] = firs[f].carico
        BY <1>2, <3>1 DEF Carica, TypeOK
      <4> QED BY <2>1, <4>1 DEF CopiaCoerente
    <3>2. CASE q # r
      <4>1. di'[q] = di[q] /\ copia'[q] = copia[q] /\ documento'[q] = documento[q]
        BY <1>2, <3>2 DEF Carica, TypeOK
      <4> QED BY <2>1, <4>1, CopiaCoerenteFerma
    <3> QED BY <3>1, <3>2
  <2> QED BY <2>1, <2>2, CoerenzaFerma
<1>3. ASSUME NEW r \in Richieste, FirmaDocumento(r) PROVE InvCoerenza'
  <2>1. UNCHANGED <<firs, firme, sovrascritti, di, copia>>
    BY <1>3 DEF FirmaDocumento, storia
  <2>2. ASSUME NEW q \in Richieste PROVE CopiaCoerente(q)'
    <3>1. CASE q = r
      <4>1. documento'[q] = firs[di[q]].carico
        BY <1>3, <3>1 DEF FirmaDocumento, TypeOK
      <4>2. CopiaCoerente(q)
        BY DEF InvCoerenza
      <4> QED BY <2>1, <4>1, <4>2 DEF CopiaCoerente
    <3>2. CASE q # r
      <4>1. documento'[q] = documento[q]
        BY <1>3, <3>2 DEF FirmaDocumento, TypeOK
      <4> QED BY <2>1, <4>1, CopiaCoerenteFerma
    <3> QED BY <3>1, <3>2
  <2> QED BY <2>1, <2>2, CoerenzaFerma
<1>4. ASSUME NEW r \in Richieste, Emetti(r) PROVE InvCoerenza'
  <2> DEFINE n == [anno |-> annoDi[r], progressivo |-> Prossimo(annoDi[r])]
             riga == [copia[r] EXCEPT !.stato = "EMESSO", !.numero = n]
             s == NuovaFirma(r, "PRODUTTORE")
  <2>1. PICK f \in Fir : f = di[r]
    BY DEF TypeOK
  <2>2. /\ Concludi(r)
        /\ firs[f].stato = "BOZZA"
        /\ firs' = [firs EXCEPT ![f] = riga]
        /\ firme' = [firme EXCEPT ![f] = Persisti(@, s)]
        /\ sovrascritti' = sovrascritti \cup (IF copia[r] = firs[f] THEN {} ELSE {f})
    BY <1>4, <2>1 DEF Emetti
  <2>3. n # SenzaNumero
    BY NumeroEmesso, RigaBozza
  <2>4. riga.stato = "EMESSO" /\ riga.numero = n /\ riga.carico = copia[r].carico
    <3>1. copia[r] \in Riga
      BY DEF TypeOK
    <3> HIDE DEF n
    <3> QED BY <3>1 DEF Riga
  <2>5. s.ruolo = "PRODUTTORE" /\ s.documento = documento[r]
    BY DEF NuovaFirma
  <2> HIDE DEF n, riga, s
  <2>6. /\ firs'[f] = riga /\ firme'[f] \subseteq firme[f] \cup {s}
        /\ \A g \in Fir \ {f} : firs'[g] = firs[g] /\ firme'[g] = firme[g]
    BY <2>2, EffettoPersisti DEF TypeOK
  <2>7. ASSUME f \notin sovrascritti'
        PROVE  /\ copia[r] = firs[f] /\ firs[f].carico = Creazione
               /\ documento[r] = Creazione /\ RigaCoerente(f)
    <3>1. f \notin sovrascritti /\ copia[r] = firs[f]
      BY <2>2, <2>7
    <3>2. RigaCoerente(f) /\ CopiaCoerente(r)
      BY <3>1 DEF InvCoerenza
    <3> QED BY <2>1, <2>2, <3>1, <3>2 DEF RigaCoerente, CopiaCoerente
  <2>8. ASSUME f \notin sovrascritti' PROVE RigaCoerente(f)'
    <3>1. ~Firmato(f, "TRASPORTATORE") /\ ~Firmato(f, "DESTINATARIO")
            /\ \A t \in firme[f] : t.ruolo = "PRODUTTORE" => t.documento = Creazione
      BY <2>2, <2>7, <2>8 DEF RigaCoerente
    <3>2. \A t \in firme'[f] : /\ t.ruolo # "TRASPORTATORE" /\ t.ruolo # "DESTINATARIO"
                               /\ t.ruolo = "PRODUTTORE" => t.documento = Creazione
      BY <2>5, <2>6, <2>7, <2>8, <3>1 DEF Firmato, ConRuolo
    <3>3. firs'[f].stato = "EMESSO" /\ firs'[f].numero # SenzaNumero
            /\ firs'[f].carico = Creazione
      BY <2>3, <2>4, <2>6, <2>7, <2>8
    <3> QED BY <3>2, <3>3 DEF RigaCoerente, Firmato, ConRuolo
  <2>9. sovrascritti \subseteq sovrascritti'
    BY <2>2
  <2>10. \A g \in Fir \ sovrascritti' :
            firs[g].carico = Creazione \/ firs'[g].carico = firs[g].carico
    BY <2>6, <2>7
  <2>11. \A q \in Richieste : CopiaCoerente(q)'
    BY <2>2, <2>9, <2>10, CopieCoerenti
  <2> QED BY <2>6, <2>8, <2>9, <2>11, CoerenzaScritta
<1>5. ASSUME NEW r \in Richieste, Salva(r) PROVE InvCoerenza'
  <2> DEFINE riga == Applica(op[r], copia[r], r)
             s == NuovaFirma(r, RuoloDi[op[r]])
  <2>1. PICK f \in Fir : f = di[r]
    BY DEF TypeOK
  <2>2. /\ Concludi(r)
        /\ op[r] \in (ConFirma \ {"emetti"}) \cup SenzaFirma
        /\ Ammessa(op[r], copia[r])
        /\ firs' = [firs EXCEPT ![f] = riga]
        /\ firme' = IF op[r] \in ConFirma THEN [firme EXCEPT ![f] = Persisti(@, s)]
                    ELSE firme
        /\ sovrascritti' = sovrascritti \cup (IF copia[r] = firs[f] THEN {} ELSE {f})
    BY <1>5, <2>1 DEF Salva
  <2>3. op[r] \in {"presaInCarico", "confermaConsegna", "annulla", "agganciaManualmente"}
    BY <2>2 DEF ConFirma, SenzaFirma
  <2>4. /\ riga.numero = copia[r].numero
        /\ riga.carico = IF op[r] = "presaInCarico" THEN r ELSE copia[r].carico
        /\ riga.stato = IF op[r] = "presaInCarico" THEN "IN_TRANSITO"
                        ELSE IF op[r] = "confermaConsegna" THEN "CONSEGNATO"
                        ELSE IF op[r] = "annulla" THEN "ANNULLATO" ELSE copia[r].stato
        /\ op[r] = "presaInCarico" => copia[r].stato = "EMESSO"
        /\ op[r] = "confermaConsegna" => copia[r].stato = "IN_TRANSITO"
    <3>1. copia[r] \in Riga /\ op[r] \in Operazioni \ {"emetti"}
      BY <2>3 DEF TypeOK
    <3> QED BY <2>2, <3>1, EffettoApplica
  <2>5. s.ruolo = RuoloDi[op[r]] /\ s.documento = documento[r] /\ s.da = r
    BY DEF NuovaFirma
  <2>6. r # Creazione
    BY CicloDiVitaAssumption
  <2> HIDE DEF riga, s
  <2>7. /\ firs'[f] = riga
        /\ firme'[f] = IF op[r] \in ConFirma THEN Persisti(firme[f], s) ELSE firme[f]
        /\ \A g \in Fir \ {f} : firs'[g] = firs[g] /\ firme'[g] = firme[g]
    BY <2>2 DEF TypeOK
  <2>8. firme'[f] \subseteq firme[f] \cup {s}
    BY <2>7, EffettoPersisti
  <2>9. ASSUME f \notin sovrascritti'
        PROVE  f \notin sovrascritti /\ copia[r] = firs[f] /\ RigaCoerente(f) /\ CopiaCoerente(r)
    BY <2>2, <2>9 DEF InvCoerenza
  <2>10. ASSUME f \notin sovrascritti' PROVE RigaCoerente(f)'
    <3>1. CASE op[r] = "presaInCarico"
      <4>1. s.ruolo = "TRASPORTATORE"
        BY <2>5, <3>1, RuoliDistinti
      <4>2. ~Firmato(f, "TRASPORTATORE") /\ ~Firmato(f, "DESTINATARIO")
              /\ firs[f].numero # SenzaNumero
              /\ \A t \in firme[f] : t.ruolo = "PRODUTTORE" => t.documento = Creazione
        BY <2>4, <2>9, <2>10, <3>1 DEF RigaCoerente
      <4>3. \A t \in firme'[f] : /\ t.ruolo = "PRODUTTORE" => t.documento = Creazione
                                 /\ t.ruolo = "TRASPORTATORE" => t.da = r
                                 /\ t.ruolo # "DESTINATARIO"
        BY <2>5, <2>8, <4>1, <4>2 DEF Firmato, ConRuolo
      <4>4. firs'[f].stato = "IN_TRANSITO" /\ firs'[f].carico = r
              /\ firs'[f].numero # SenzaNumero
        BY <2>4, <2>7, <2>9, <2>10, <3>1, <4>2
      <4> QED BY <2>6, <4>3, <4>4 DEF RigaCoerente
    <3>2. CASE op[r] = "confermaConsegna"
      <4>1. s.ruolo = "DESTINATARIO"
        BY <2>5, <3>2, RuoliDistinti
      <4>2. firs[f].stato = "IN_TRANSITO" /\ firs[f].carico # Creazione
        BY <2>4, <2>9, <2>10, <3>2 DEF RigaCoerente
      <4>3. documento[r] = firs[f].carico
        BY <2>1, <2>9, <2>10, <4>2 DEF CopiaCoerente
      <4>4. firs'[f].stato = "CONSEGNATO" /\ firs'[f].carico = firs[f].carico
              /\ firs'[f].numero = firs[f].numero /\ firs[f].numero # SenzaNumero
        BY <2>4, <2>7, <2>9, <2>10, <3>2, <4>2 DEF RigaCoerente
      <4>5. \A t \in firme'[f] :
               /\ t.ruolo = "PRODUTTORE" => t.documento = Creazione
               /\ t.ruolo = "TRASPORTATORE" => firs[f].carico = t.da
               /\ t.ruolo = "DESTINATARIO" => t.documento = firs[f].carico
        BY <2>5, <2>8, <2>9, <2>10, <4>1, <4>3 DEF RigaCoerente
      <4> QED BY <4>4, <4>5 DEF RigaCoerente
    <3>3. CASE op[r] \in {"annulla", "agganciaManualmente"}
      <4>1. firme'[f] = firme[f]
        BY <2>7, <3>3 DEF ConFirma
      <4>2. firs'[f].carico = firs[f].carico /\ firs'[f].numero = firs[f].numero
              /\ firs'[f].stato \in {"ANNULLATO", firs[f].stato}
        BY <2>4, <2>7, <2>9, <2>10, <3>3
      <4> QED BY <2>9, <2>10, <4>1, <4>2 DEF RigaCoerente, Firmato
    <3> QED BY <2>3, <3>1, <3>2, <3>3
  <2>11. sovrascritti \subseteq sovrascritti'
    BY <2>2
  <2>12. ASSUME f \notin sovrascritti'
         PROVE  firs[f].carico = Creazione \/ firs'[f].carico = firs[f].carico
    <3>1. CASE op[r] = "presaInCarico"
      BY <2>4, <2>9, <2>12, <3>1 DEF RigaCoerente
    <3>2. CASE op[r] # "presaInCarico"
      BY <2>4, <2>7, <2>9, <2>12, <3>2
    <3> QED BY <3>1, <3>2
  <2>13. \A g \in Fir \ sovrascritti' :
            firs[g].carico = Creazione \/ firs'[g].carico = firs[g].carico
    BY <2>7, <2>12
  <2>14. \A q \in Richieste : CopiaCoerente(q)'
    BY <2>2, <2>11, <2>13, CopieCoerenti
  <2> QED BY <2>7, <2>10, <2>11, <2>14, CoerenzaScritta
<1>6. ASSUME NEW r \in Richieste, VerificaRuolo(r) PROVE InvCoerenza'
  <2>1. UNCHANGED <<firs, firme, sovrascritti>>
    BY <1>6 DEF VerificaRuolo, storia
  <2>2. CASE Concludi(r)
    BY <2>1, <2>2, CopieCoerenti, CoerenzaFerma
  <2>3. CASE UNCHANGED <<di, copia, documento>>
    BY <2>1, <2>3, CopiaCoerenteFerma, CoerenzaFerma
  <2> QED BY <1>6, <2>2, <2>3 DEF VerificaRuolo
<1>7. ASSUME NEW r \in Richieste, InserisciFirma(r) PROVE InvCoerenza'
  <2> DEFINE s == NuovaFirma(r, op[r])
  <2>1. PICK f \in Fir : f = di[r]
    BY DEF TypeOK
  <2>2. /\ Concludi(r) /\ firme' = [firme EXCEPT ![f] = @ \cup {s}]
        /\ UNCHANGED <<firs, sovrascritti>>
    BY <1>7, <2>1 DEF InserisciFirma, storia
  <2>3. s.ruolo \notin Ruoli
    <3>1. op[r] \in RuoliQes
      BY <1>7 DEF InserisciFirma, InvFirme, CopiaFirmata
    <3>2. s.ruolo = op[r]
      BY DEF NuovaFirma
    <3> QED BY <3>1, <3>2, RuoliDistinti
  <2> HIDE DEF s
  <2>4. /\ firme'[f] = firme[f] \cup {s}
        /\ \A g \in Fir \ {f} : firs'[g] = firs[g] /\ firme'[g] = firme[g]
    BY <2>2 DEF TypeOK
  <2>5. ASSUME f \notin sovrascritti' PROVE RigaCoerente(f)'
    <3>1. RigaCoerente(f)
      BY <2>2, <2>5 DEF InvCoerenza
    <3>2. s.ruolo # "PRODUTTORE" /\ s.ruolo # "TRASPORTATORE" /\ s.ruolo # "DESTINATARIO"
      BY <2>3 DEF Ruoli
    <3> QED BY <2>2, <2>4, <3>1, <3>2 DEF RigaCoerente, Firmato, ConRuolo
  <2>6. \A q \in Richieste : CopiaCoerente(q)'
    BY <2>2, CopieCoerenti
  <2> QED BY <2>2, <2>4, <2>5, <2>6, CoerenzaScritta
<1>8. ASSUME NEW r \in Richieste, Rinuncia(r) PROVE InvCoerenza'
  BY <1>8, CopieCoerenti, CoerenzaFerma DEF Rinuncia, storia
<1>9. CASE Capodanno \/ UNCHANGED vars
  <2>1. UNCHANGED <<firs, firme, sovrascritti, di, copia, documento>>
    BY <1>9 DEF Capodanno, vars, richiesta, storia
  <2> QED BY <2>1, CopiaCoerenteFerma, CoerenzaFerma
<1> QED BY <1>2, <1>3, <1>4, <1>5, <1>6, <1>7, <1>8, <1>9 DEF Next

-----------------------------------------------------------------------------
(* Theorems.                                                                 *)

\* Inv holds in every reachable state.
LEMMA Invariante == Spec => []Inv
<1>1. Init => Inv
  BY TipiIniziali, NumeriIniziali, FirmeIniziali, CoerenzaIniziale DEF Inv
<1>2. Inv /\ [Next]_vars => Inv'
  BY TipiPasso, NumeriPasso, FirmePasso, CoerenzaPasso DEF Inv
<1> QED BY <1>1, <1>2, PTL DEF Spec

\* Every variable keeps its type: the number an issue writes is a positive one
\* of the year it read.
THEOREM TipiCorretti == Spec => []TypeOK
<1>1. Inv => TypeOK
  BY DEF Inv
<1> QED BY <1>1, Invariante, PTL

\* Numbers are unique and without gaps in each year, whatever requests overlap,
\* for the numbers that no save from an older copy took off.
THEOREM NumerazioneCorretta == Spec => []Numerazione
<1>1. Inv => Numerazione
  <2> SUFFICES ASSUME TypeOK, InvNumeri PROVE Numerazione
    BY DEF Inv
  <2>1. ASSUME NEW a \in assegnati, NEW b \in assegnati,
               a.fir = b.fir \/ a.numero = b.numero, a # b,
               a.numero \notin cancellati, b.numero \notin cancellati
        PROVE  FALSE
    <3>1. /\ a = [fir |-> a.fir, numero |-> a.numero] /\ a.fir \in Fir /\ a.numero \in Numeri
          /\ b = [fir |-> b.fir, numero |-> b.numero] /\ b.fir \in Fir /\ b.numero \in Numeri
      BY DEF TypeOK
    <3>2. firs[a.fir].numero = a.numero /\ firs[b.fir].numero = b.numero
      BY <2>1 DEF InvNumeri
    <3>3. a.fir # b.fir
      BY <2>1, <3>1, <3>2
    <3>4. a.numero = b.numero /\ a.numero # SenzaNumero
      BY <2>1, <3>1, <3>3, RigaBozza
    <3> QED BY <3>1, <3>2, <3>3, <3>4 DEF InvNumeri
  <2>2. NumeroUnico
    BY <2>1 DEF NumeroUnico
  <2> QED BY <2>2 DEF Numerazione, InvNumeri
<1> QED BY <1>1, Invariante, PTL

\* A FIR is never in a state without the signature the state needs.
THEOREM StatoSempreFirmato == Spec => []StatoFirmato
<1>1. Inv => StatoFirmato
  BY DEF Inv, InvFirme, FirmataComeStato, StatoFirmato
<1> QED BY <1>1, Invariante, PTL

\* The qualified signatures are in the order of the roles.
THEOREM FirmeInOrdine == Spec => []OrdineDelleFirme
<1>1. Inv => OrdineDelleFirme
  BY DEF Inv, InvFirme
<1> QED BY <1>1, Invariante, PTL

\* Row and signatures agree on a FIR never saved from an older copy.
THEOREM RigheCoerenti == Spec => []CoerenteSenzaSovrapposizioni
<1>1. Inv => CoerenteSenzaSovrapposizioni
  <2> SUFFICES ASSUME InvNumeri, InvCoerenza, NEW f \in Fir \ sovrascritti
               PROVE  /\ RigaCoerente(f) /\ NumeroNoto(f, firs[f])
    BY DEF Inv, CoerenteSenzaSovrapposizioni, RigaCoerente, NumeroNoto
  <2> QED BY DEF InvNumeri, InvCoerenza
<1> QED BY <1>1, Invariante, PTL

\* Signatures are only added, and a role of the life cycle has at most one.
THEOREM FirmeSoloAggiunte == Spec => FirmeConservate
<1> DEFINE Conserva == \A f \in Fir :
              /\ firme[f] \subseteq firme'[f]
              /\ \A ruolo \in Ruoli : Cardinality(ConRuolo(firme'[f], ruolo)) <= 1
<1>1. Inv /\ Inv' /\ [Next]_vars => [Conserva]_vars
  <2> SUFFICES ASSUME Inv, Inv', [Next]_vars, NEW f \in Fir
               PROVE  /\ firme[f] \subseteq firme'[f]
                      /\ \A ruolo \in Ruoli : Cardinality(ConRuolo(firme'[f], ruolo)) <= 1
    OBVIOUS
  <2>1. firme[f] \subseteq firme'[f]
    <3>1. TypeOK
      BY DEF Inv
    <3>2. ASSUME NEW r \in Richieste, Emetti(r) \/ Salva(r) \/ InserisciFirma(r)
          PROVE  firme[f] \subseteq firme'[f]
      BY <3>1, <3>2, EffettoPersisti DEF TypeOK, Emetti, Salva, InserisciFirma
    <3>3. ASSUME NEW r \in Richieste,
                 \/ \E g \in Fir, o \in Operazioni : Carica(r, g, o)
                 \/ FirmaDocumento(r) \/ VerificaRuolo(r) \/ Rinuncia(r)
          PROVE  firme' = firme
      BY <3>3 DEF Carica, FirmaDocumento, VerificaRuolo, Rinuncia
    <3>4. CASE Capodanno \/ UNCHANGED vars
      BY <3>4 DEF Capodanno, vars
    <3> QED BY <3>2, <3>3, <3>4 DEF Next
  <2>2. ASSUME NEW ruolo \in Ruoli PROVE Cardinality(ConRuolo(firme'[f], ruolo)) <= 1
    <3>1. UnaPerRuolo(firme'[f])
      BY DEF Inv, InvFirme
    <3>2. \A s, t \in ConRuolo(firme'[f], ruolo) : s = t
      BY <3>1, <2>2 DEF UnaPerRuolo, ConRuolo
    <3>3. CASE ConRuolo(firme'[f], ruolo) = {}
      <4>1. Cardinality({}) = 0
        BY FS_EmptySet
      <4> QED BY <3>3, <4>1
    <3>4. CASE ConRuolo(firme'[f], ruolo) # {}
      <4>1. PICK s : ConRuolo(firme'[f], ruolo) = {s}
        BY <3>2, <3>4
      <4>2. Cardinality({s}) = 1
        BY FS_Singleton
      <4> QED BY <4>1, <4>2
    <3> QED BY <3>3, <3>4
  <2> QED BY <2>1, <2>2
<1>2. Spec => [][Conserva]_vars
  <2>1. Spec => [][Next]_vars
    BY DEF Spec
  <2> QED BY <1>1, <2>1, Invariante, PTL
<1> QED BY <1>2 DEF FirmeConservate

=============================================================================
