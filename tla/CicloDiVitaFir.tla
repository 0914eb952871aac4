---------------------------- MODULE CicloDiVitaFir ----------------------------
(***************************************************************************)
(* The life cycle of the FIRs of one tenant: issue with numbering, presa   *)
(* in carico, delivery, annulment, link to a formulario of others, and the *)
(* signatures of the two subsystems that share the table fir_signatures.   *)
(*                                                                         *)
(* A request is one execution of a use case.  It loads a copy of the row,  *)
(* signs the document of the row as it is then, applies the domain method  *)
(* to the copy and saves the whole copy.  Only the save and the issue are  *)
(* transactions; nothing ties the copy to the row it is written over.      *)
(***************************************************************************)
EXTENDS Naturals, FiniteSets

CONSTANTS Fir,        \* rows of firs, created as drafts
          Richieste,  \* executions of the use cases, each runs once
          Creazione,  \* the transport date written when the row is created
          ConParti,   \* FIRs whose carrier and receiver are users
          UltimoAnno  \* bound: last Italian solar year

Anni == 1 .. UltimoAnno

ASSUME CicloDiVitaAssumption ==
  /\ Fir # {}
  /\ Creazione \notin Richieste
  /\ ConParti \subseteq Fir
  /\ UltimoAnno \in Nat \ {0}

Stati == {"BOZZA", "EMESSO", "IN_TRANSITO", "CONSEGNATO", "ANNULLATO"}

\* Methods of the life cycle, and roles of the qualified signatures.
ConFirma   == {"emetti", "presaInCarico", "confermaConsegna"}
SenzaFirma == {"annulla", "agganciaManualmente"}
RuoliQes   == {"PRODUCER", "CARRIER", "RECEIVER"}
Ruoli      == {"PRODUTTORE", "TRASPORTATORE", "DESTINATARIO"}
Operazioni == ConFirma \cup SenzaFirma \cup RuoliQes

\* FIR-<anno>-<progressivo>; a draft has none.
Numeri == [anno : Anni, progressivo : Nat \ {0}]
SenzaNumero == [anno |-> 0, progressivo |-> 0]

\* The transport date is the instant of the presa in carico: the request that
\* made it stands for it.
Date == Richieste \cup {Creazione}

Riga  == [stato : Stati, numero : Numeri \cup {SenzaNumero}, legato : BOOLEAN,
          carico : Date]

\* A row of fir_signatures: the role, who signed, and which version of the
\* document; only the transport date of the document ever changes.
Firma == [ruolo : Ruoli \cup RuoliQes, da : Richieste, documento : Date]

VARIABLES
  firs,        \* the table
  firme,       \* fir_signatures of each FIR
  anno,        \* the current year
  fase,        \* next step of each request
  op,          \* the use case it runs
  di,          \* the FIR it is about
  copia,       \* the aggregate it loaded
  lette,       \* the signatures it loaded
  documento,   \* the document it signed
  annoDi,      \* the year it read before the issue
  assegnati,   \* history: numbers given, and to whom
  cancellati,  \* history: numbers a save took off a row
  sovrascritti \* history: FIRs saved from a copy that was no longer the row

richiesta == <<fase, op, di, copia, lette, documento, annoDi>>
storia == <<assegnati, cancellati, sovrascritti>>
vars == <<firs, firme, anno, richiesta, storia>>

Fasi == {"attesa", "caricata", "firmata", "verificata", "finita"}

TypeOK ==
  /\ firs \in [Fir -> Riga]
  /\ firme \in [Fir -> SUBSET Firma]
  /\ anno \in Anni
  /\ fase \in [Richieste -> Fasi]
  /\ op \in [Richieste -> Operazioni]
  /\ di \in [Richieste -> Fir]
  /\ copia \in [Richieste -> Riga]
  /\ lette \in [Richieste -> SUBSET Firma]
  /\ documento \in [Richieste -> Date]
  /\ annoDi \in [Richieste -> Anni]
  /\ assegnati \subseteq [fir : Fir, numero : Numeri]
  /\ cancellati \subseteq Numeri
  /\ sovrascritti \subseteq Fir

\* FIR.create, saved by CreateFIRUseCase.
Bozza == [stato |-> "BOZZA", numero |-> SenzaNumero, legato |-> FALSE,
          carico |-> Creazione]

Init ==
  /\ firs = [f \in Fir |-> Bozza]
  /\ firme = [f \in Fir |-> {}]
  /\ anno = 1
  /\ fase = [r \in Richieste |-> "attesa"]
  /\ op = [r \in Richieste |-> "annulla"]
  /\ di = [r \in Richieste |-> CHOOSE f \in Fir : TRUE]
  /\ copia = [r \in Richieste |-> Bozza]
  /\ lette = [r \in Richieste |-> {}]
  /\ documento = [r \in Richieste |-> Creazione]
  /\ annoDi = [r \in Richieste |-> 1]
  /\ assegnati = {}
  /\ cancellati = {}
  /\ sovrascritti = {}

-------------------------------------------------------------------------------
\* Domain methods: the guard and the effect on the copy.

Ammessa(o, c) ==
  \/ o = "emetti" /\ c.stato = "BOZZA"
  \/ o = "presaInCarico" /\ ~c.legato /\ c.stato = "EMESSO"
  \/ o = "confermaConsegna" /\ ~c.legato /\ c.stato = "IN_TRANSITO"
  \/ o = "annulla" /\ ~c.legato /\ c.stato # "CONSEGNATO"
  \/ o = "agganciaManualmente" /\ ~c.legato

\* A variant with a bug: the delivery writes the transport date again.
ApplicaConsegnaDatata(o, c, r) ==
  CASE o = "presaInCarico" ->
         [c EXCEPT !.stato = "IN_TRANSITO", !.carico = r]
    [] o = "confermaConsegna" -> [c EXCEPT !.stato = "CONSEGNATO", !.carico = r]
    [] o = "annulla" -> [c EXCEPT !.stato = "ANNULLATO"]
    [] OTHER -> [c EXCEPT !.legato = TRUE]

Applica(o, c, r) ==
  CASE o = "presaInCarico" ->
         [c EXCEPT !.stato = "IN_TRANSITO", !.carico = r]
    [] o = "confermaConsegna" -> [c EXCEPT !.stato = "CONSEGNATO"]
    [] o = "annulla" -> [c EXCEPT !.stato = "ANNULLATO"]
    [] OTHER -> [c EXCEPT !.legato = TRUE]

\* A variant with a bug: the carrier's block was copied from the producer's.
RuoloDiCopiato == [emetti |-> "PRODUTTORE", presaInCarico |-> "PRODUTTORE",
                   confermaConsegna |-> "DESTINATARIO"]

RuoloDi == [emetti |-> "PRODUTTORE", presaInCarico |-> "TRASPORTATORE",
            confermaConsegna |-> "DESTINATARIO"]

NuovaFirma(r, ruolo) ==
  [ruolo |-> ruolo, da |-> r, documento |-> documento[r]]

ConRuolo(righe, ruolo) == {s \in righe : s.ruolo = ruolo}

\* A variant with a bug: a signature replaces the one of the same role.
PersistiUltima(righe, s) == (righe \ ConRuolo(righe, s.ruolo)) \cup {s}

\* persistSignatures: the first signature of a role stays.
Persisti(righe, s) == IF ConRuolo(righe, s.ruolo) = {} THEN righe \cup {s} ELSE righe

\* The indexes of the table: a number belongs to one row.
NumeroLibero(f, n) ==
  n = SenzaNumero \/ \A g \in Fir \ {f} : firs[g].numero # n

\* MAX(...) over the rows of the year.
Progressivi(a) ==
  {firs[f].numero.progressivo : f \in {g \in Fir : firs[g].numero.anno = a}}

Massimo(numeri) == CHOOSE n \in numeri \cup {0} : \A m \in numeri : m <= n

\* A variant with a bug: the first number of a year is zero.
ProssimoDaZero(a) == IF Progressivi(a) = {} THEN 0 ELSE Massimo(Progressivi(a)) + 1

Prossimo(a) == Massimo(Progressivi(a)) + 1

-------------------------------------------------------------------------------
\* Steps.

\* The execution ends and its copy with it.
Concludi(r) ==
  /\ fase' = [fase EXCEPT ![r] = "finita"]
  /\ op' = [op EXCEPT ![r] = "annulla"]
  /\ di' = [di EXCEPT ![r] = CHOOSE f \in Fir : TRUE]
  /\ copia' = [copia EXCEPT ![r] = Bozza]
  /\ lette' = [lette EXCEPT ![r] = {}]
  /\ documento' = [documento EXCEPT ![r] = Creazione]
  /\ annoDi' = [annoDi EXCEPT ![r] = 1]

\* findById: of FIRRepository for the life cycle, of SignatureFIRRepository,
\* with the check that the user is the party of the role, for the others.
Carica(r, f, o) ==
  /\ fase[r] = "attesa"
  /\ o \in RuoliQes => o = "PRODUCER" \/ f \in ConParti
  /\ fase' = [fase EXCEPT ![r] = "caricata"]
  /\ op' = [op EXCEPT ![r] = o]
  /\ di' = [di EXCEPT ![r] = f]
  /\ copia' = [copia EXCEPT ![r] = firs[f]]
  /\ lette' = [lette EXCEPT ![r] = firme[f]]
  /\ documento' = [documento EXCEPT ![r] = firs[f].carico]
  /\ UNCHANGED <<firs, firme, anno, annoDi, storia>>

\* firmaProduttore, firmaTrasportatore, firmaDestinatario: they sign the row
\* as it is now.  The year of the issue is read next, before the transaction.
FirmaDocumento(r) ==
  /\ fase[r] = "caricata"
  /\ op[r] \in ConFirma
  /\ fase' = [fase EXCEPT ![r] = "firmata"]
  /\ documento' = [documento EXCEPT ![r] = firs[di[r]].carico]
  /\ annoDi' = [annoDi EXCEPT ![r] = anno]
  /\ UNCHANGED <<firs, firme, anno, op, di, copia, lette, storia>>

\* A variant with a bug: the draft is checked on the copy only.
EmettiSenzaRilettura(r) ==
  LET f == di[r]
      n == [anno |-> annoDi[r], progressivo |-> Prossimo(annoDi[r])]
  IN  /\ fase[r] = "firmata"
      /\ op[r] = "emetti"
      /\ Ammessa("emetti", copia[r])
      /\ firs' = [firs EXCEPT ![f] = [copia[r] EXCEPT !.stato = "EMESSO",
                                                      !.numero = n]]
      /\ firme' = [firme EXCEPT ![f] = Persisti(@, NuovaFirma(r, "PRODUTTORE"))]
      /\ Concludi(r)
      /\ assegnati' = assegnati \cup {[fir |-> f, numero |-> n]}
      /\ sovrascritti' = sovrascritti \cup (IF copia[r] = firs[f] THEN {} ELSE {f})
      /\ UNCHANGED <<anno, cancellati>>

\* emettiConNumerazione: one transaction under the lock of the year and of the
\* row.  The status is read again, the rest of the row comes from the copy.
Emetti(r) ==
  LET f == di[r]
      n == [anno |-> annoDi[r], progressivo |-> Prossimo(annoDi[r])]
  IN  /\ fase[r] = "firmata"
      /\ op[r] = "emetti"
      /\ firs[f].stato = "BOZZA"
      /\ Ammessa("emetti", copia[r])
      /\ firs' = [firs EXCEPT ![f] = [copia[r] EXCEPT !.stato = "EMESSO",
                                                      !.numero = n]]
      /\ firme' = [firme EXCEPT ![f] = Persisti(@, NuovaFirma(r, "PRODUTTORE"))]
      /\ Concludi(r)
      /\ assegnati' = assegnati \cup {[fir |-> f, numero |-> n]}
      /\ sovrascritti' = sovrascritti \cup (IF copia[r] = firs[f] THEN {} ELSE {f})
      /\ UNCHANGED <<anno, cancellati>>

\* The other use cases: domain method on the copy, then FIRRepository.save,
\* which refuses to bring an annulled row back and writes everything else.
Salva(r) ==
  LET f == di[r]
      riga == Applica(op[r], copia[r], r)
  IN  /\ \/ fase[r] = "firmata" /\ op[r] \in ConFirma \ {"emetti"}
         \/ fase[r] = "caricata" /\ op[r] \in SenzaFirma
      /\ Ammessa(op[r], copia[r])
      /\ firs[f].stato = "ANNULLATO" => riga.stato = "ANNULLATO"
      /\ NumeroLibero(f, riga.numero)
      /\ firs' = [firs EXCEPT ![f] = riga]
      /\ firme' = IF op[r] \in ConFirma
                  THEN [firme EXCEPT ![f] = Persisti(@, NuovaFirma(r, RuoloDi[op[r]]))]
                  ELSE firme
      /\ Concludi(r)
      /\ cancellati' = cancellati \cup ({firs[f].numero} \ {SenzaNumero, riga.numero})
      /\ sovrascritti' = sovrascritti \cup (IF copia[r] = firs[f] THEN {} ELSE {f})
      /\ UNCHANGED <<anno, assegnati>>

\* isImmutable: three signatures in all, one for each qualified role.
Immutabile(righe) ==
  /\ Cardinality(righe) = 3
  /\ \A ruolo \in RuoliQes : ConRuolo(righe, ruolo) # {}

\* A variant with a bug: the order of the signatures is not looked at.
FirmaAmmessaInOgniOrdine(ruolo, righe) ==
  ~Immutabile(righe) /\ ConRuolo(righe, ruolo) = {}

\* applySignature, on the signatures loaded.
FirmaAmmessa(ruolo, righe) ==
  /\ ~Immutabile(righe)
  /\ ConRuolo(righe, ruolo) = {}
  /\ ruolo = "CARRIER" => ConRuolo(righe, "PRODUCER") # {}
  /\ ruolo = "RECEIVER" => ConRuolo(righe, "CARRIER") # {}

\* SignatureFIRRepository.save looks for a row of the role: if there is one it
\* returns as if it had written its own.
VerificaRuolo(r) ==
  /\ fase[r] = "caricata"
  /\ op[r] \in RuoliQes
  /\ FirmaAmmessa(op[r], lette[r])
  /\ IF ConRuolo(firme[di[r]], op[r]) = {}
     THEN /\ fase' = [fase EXCEPT ![r] = "verificata"]
          /\ UNCHANGED <<op, di, copia, lette, documento, annoDi>>
     ELSE Concludi(r)
  /\ UNCHANGED <<firs, firme, anno, storia>>

\* ... and otherwise inserts its own, two statements later.
InserisciFirma(r) ==
  /\ fase[r] = "verificata"
  /\ firme' = [firme EXCEPT ![di[r]] = @ \cup {NuovaFirma(r, op[r])}]
  /\ Concludi(r)
  /\ UNCHANGED <<firs, anno, storia>>

\* A refusal of the domain or of the repository, a signature that cannot be
\* made, an error of the database, a crash: nothing is written.
Rinuncia(r) ==
  /\ fase[r] \in {"caricata", "firmata", "verificata"}
  /\ Concludi(r)
  /\ UNCHANGED <<firs, firme, anno, storia>>

\* The first of January, in Italy.
Capodanno ==
  /\ anno < UltimoAnno
  /\ anno' = anno + 1
  /\ UNCHANGED <<firs, firme, richiesta, storia>>

Next ==
  \/ \E r \in Richieste :
       \/ \E f \in Fir, o \in Operazioni : Carica(r, f, o)
       \/ FirmaDocumento(r)
       \/ Emetti(r)
       \/ Salva(r)
       \/ VerificaRuolo(r)
       \/ InserisciFirma(r)
       \/ Rinuncia(r)
  \/ Capodanno

Spec == Init /\ [][Next]_vars

-------------------------------------------------------------------------------
\* Properties.

NumeroUnico ==
  \A a, b \in assegnati :
    (a.fir = b.fir \/ a.numero = b.numero) /\ a # b
      => a.numero \in cancellati \/ b.numero \in cancellati

SenzaBuchi(a) ==
  LET numeri == Progressivi(a) \cup {n.progressivo : n \in {m \in cancellati : m.anno = a}}
  IN  \E ultimo \in {0} \cup numeri : numeri = 1 .. ultimo

\* A number is given to one FIR and a FIR is given one number, unless a save
\* from an older copy took the number off the row in between: the lock of the
\* year, the check of the row and the whole-row save of emettiConNumerazione.
\* And the numbers of a year on the rows, with those taken off, have no gaps:
\* a failed issue consumes none, and the year that is counted is the one
\* written.
Numerazione == NumeroUnico /\ \A a \in Anni : SenzaBuchi(a)

Firmato(f, ruolo) == ConRuolo(firme[f], ruolo) # {}

\* No state without the signature it needs, whatever copies are saved and
\* wherever a request stops: row and signature are one transaction.
StatoFirmato ==
  \A f \in Fir :
    /\ firs[f].stato \in {"EMESSO", "IN_TRANSITO", "CONSEGNATO"} => Firmato(f, "PRODUTTORE")
    /\ firs[f].stato \in {"IN_TRANSITO", "CONSEGNATO"} => Firmato(f, "TRASPORTATORE")
    /\ firs[f].stato = "CONSEGNATO" => Firmato(f, "DESTINATARIO")
    /\ firs[f].numero # SenzaNumero => Firmato(f, "PRODUTTORE")

\* The qualified signatures are applied in the order producer, carrier,
\* receiver, also when requests overlap and the order is checked on old rows.
OrdineDelleFirme ==
  \A f \in Fir :
    /\ Firmato(f, "CARRIER") => Firmato(f, "PRODUCER")
    /\ Firmato(f, "RECEIVER") => Firmato(f, "CARRIER")

\* A signature once applied is never changed nor removed, and a life-cycle
\* role keeps its first: also through saves of copies that did not load it.
FirmeConservate ==
  [][\A f \in Fir : /\ firme[f] \subseteq firme'[f]
                    /\ \A ruolo \in Ruoli : Cardinality(ConRuolo(firme'[f], ruolo)) <= 1]_vars

\* On a FIR never saved from an older copy, row and signatures tell one story:
\* the carrier who signed is the one whose presa in carico is recorded, the
\* producer signed what the carrier was given, the receiver what arrived, and
\* there is a number exactly after the issue.
CoerenteSenzaSovrapposizioni ==
  \A f \in Fir \ sovrascritti :
    /\ firs[f].stato \in {"EMESSO", "IN_TRANSITO", "CONSEGNATO"}
         => firs[f].numero # SenzaNumero
    /\ firs[f].numero # SenzaNumero => [fir |-> f, numero |-> firs[f].numero] \in assegnati
    /\ firs[f].stato = "BOZZA" => firs[f].numero = SenzaNumero
    /\ \A s \in firme[f] :
         /\ s.ruolo = "PRODUTTORE" => s.documento = Creazione
         /\ s.ruolo = "TRASPORTATORE" => firs[f].carico = s.da
         /\ s.ruolo = "DESTINATARIO" => s.documento = firs[f].carico
===============================================================================
