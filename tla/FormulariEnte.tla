---------------------------- MODULE FormulariEnte ----------------------------
(***************************************************************************)
(* Formulari at the ente and the FIRs linked to them: search, acquisition  *)
(* and release of the visibility of a formulario of others, the actions    *)
(* the ente offers, acceptance and annulment with the remote signature,    *)
(* the note of annulment.                                                  *)
(*                                                                         *)
(* A request is one execution of a use case: it loads a copy of the row,   *)
(* talks to the ente for seconds or minutes, and saves the whole copy.     *)
(* The ente answers a write with a transaction and settles it later,       *)
(* whether or not the request is still there.                              *)
(***************************************************************************)
EXTENDS Naturals, FiniteSets

CONSTANTS Fir,        \* rows of firs, used and still to be created
          Numeri,     \* formulari of the ente
          Richieste,  \* executions of the use cases, each runs once
          ConFirma,   \* bound: those that may be an acceptance or an annulment
          Nessuno     \* no formulario, or no FIR

ASSUME FormulariEnteAssumption ==
  /\ Nessuno \notin Fir \cup Numeri
  /\ ConFirma \subseteq Richieste

\* The states of a formulario the code tells apart: the fifteen of the initial
\* group are one, and so are the two outcomes that mean delivered.
StatiEnte == {"InserimentoQuantita", "InserimentoAccettazione",
              "FirmaAccettazione", "FirmaAnnullamento", "Accettato", "Annullato"}
StatiFir  == {"assente", "BOZZA", "EMESSO", "IN_TRANSITO", "CONSEGNATO", "ANNULLATO"}
Terminali == {"CONSEGNATO", "ANNULLATO"}
Origini   == {"nessuna", "trasmesso", "terzi", "manuale"}
Rilasciabili == {"terzi", "manuale"}

Formulario == [stato : StatiEnte, pendente : {"nessuna", "Accettazione", "Annulla"},
               nota : BOOLEAN, visibile : BOOLEAN]

Riga == [stato : StatiFir, numero : Numeri \cup {Nessuno}, origine : Origini,
         statoEnte : StatiEnte \cup {"ignoto"}, nota : BOOLEAN]

Assente == [stato |-> "assente", numero |-> Nessuno, origine |-> "nessuna",
            statoEnte |-> "ignoto", nota |-> FALSE]

Usi  == {"acquisisci", "rilascia", "azioni", "accetta", "annulla"}
Fasi == {"attesa", "cercata", "pronta", "acquisita", "daRilasciare", "rilasciata",
         "caricata", "letta", "inviata", "daFirmare", "firmata", "statoLetto",
         "annullata", "notaLetta", "notaInviata", "abbandonata", "finita"}
Transazioni == {"nessuna", "inCorso", "accolta", "rifiutata"}
Operazioni  == {"Accettazione", "Annulla", "AcquisizioneFirma", "NoteAnnullamento"}

Richiesta == [uso : Usi, fase : Fasi, fir : Fir \cup {Nessuno},
              numero : Numeri \cup {Nessuno}, copia : Riga,
              letto : StatiEnte, vista : BOOLEAN, offerta : BOOLEAN,
              transazione : Transazioni, operazione : Operazioni]

VARIABLES
  ente,      \* the formulari
  firs,      \* the table
  req,       \* the requests
  raggiunti, \* history: final states each formulario has been in
  legami,    \* history: formulari each FIR has been linked to
  sospetti,  \* history: formulari whose visibility an accident, or two requests
             \* at once, may have left unmatched
  vecchie    \* history: FIRs saved from a copy that was no longer the row

storia == <<raggiunti, legami, sospetti, vecchie>>
vars == <<ente, firs, req, storia>>

TypeOK ==
  /\ ente \in [Numeri -> Formulario]
  /\ firs \in [Fir -> Riga]
  /\ req \in [Richieste -> Richiesta]
  /\ raggiunti \in [Numeri -> SUBSET Terminali]
  /\ legami \in [Fir -> SUBSET Numeri]
  /\ sospetti \subseteq Numeri
  /\ vecchie \subseteq Fir

Ferma(fase) ==
  [uso |-> "azioni", fase |-> fase, fir |-> Nessuno, numero |-> Nessuno,
   copia |-> Assente, letto |-> "InserimentoQuantita", vista |-> FALSE,
   offerta |-> FALSE, transazione |-> "nessuna", operazione |-> "Annulla"]

\* mapStatoFormularioToFIRStato.
Derivato(s) ==
  CASE s = "Accettato" -> "CONSEGNATO"
    [] s = "Annullato" -> "ANNULLATO"
    [] OTHER -> "IN_TRANSITO"

\* A FIR does not exist yet, or is issued and not linked, or was transmitted
\* by this tenant, or linked by hand, perhaps to the end of its formulario
\* (bound: then it is the only FIR).  Formulari linked to none are not
\* visible.
Iniziali == {Assente, [Assente EXCEPT !.stato = "EMESSO"]} \cup
            {[Assente EXCEPT !.stato = "EMESSO", !.numero = n, !.origine = o] :
               n \in Numeri, o \in {"trasmesso", "manuale"}} \cup
            {[stato |-> Derivato(s), numero |-> n, origine |-> "manuale",
              statoEnte |-> s, nota |-> FALSE] :
               n \in Numeri, s \in {"Accettato", "Annullato"}}

StatoIniziale(n) ==
  LET noti == {firs[f].statoEnte : f \in {g \in Fir : firs[g].numero = n}} \ {"ignoto"}
  IN  IF noti = {} THEN "InserimentoQuantita" ELSE CHOOSE s \in noti : TRUE

Init ==
  /\ firs \in {righe \in [Fir -> Iniziali] :
                 \A f, g \in Fir : f # g /\ righe[f].numero # Nessuno =>
                   /\ righe[f].numero # righe[g].numero
                   /\ righe[f].stato \in Terminali => righe[g] = Assente}
  /\ ente = [n \in Numeri |-> [stato |-> StatoIniziale(n), pendente |-> "nessuna",
                               nota |-> FALSE,
                               visibile |-> \E f \in Fir : firs[f].numero = n]]
  /\ req = [r \in Richieste |-> Ferma("attesa")]
  /\ raggiunti = [n \in Numeri |-> {Derivato(ente[n].stato)} \cap Terminali]
  /\ legami = [f \in Fir |-> {firs[f].numero} \ {Nessuno}]
  /\ sospetti = {}
  /\ vecchie = {}

-------------------------------------------------------------------------------
\* The aggregate and the repository.

\* A variant with a bug: a late reading takes a delivered FIR back on its way.
ApplicaStatoSempre(riga, s) ==
  [riga EXCEPT !.statoEnte = s, !.stato = Derivato(s)]

\* A variant with a bug: the state of the ente is written as it is.
ApplicaStatoCrudo(riga, s) ==
  [riga EXCEPT !.statoEnte = s, !.stato = IF @ \in Terminali THEN @ ELSE s]

\* applyRentriStato: a final state gives way only to a final state.
ApplicaStato(riga, s) ==
  [riga EXCEPT !.statoEnte = s,
               !.stato = IF @ \in Terminali /\ Derivato(s) \notin Terminali
                         THEN @ ELSE Derivato(s)]

Aggancia(riga, n, o) == [riga EXCEPT !.numero = n, !.origine = o]

Sgancia(riga) == [riga EXCEPT !.numero = Nessuno, !.origine = "nessuna"]

\* conservaAnnullamentoEnte: 'Annullato' of the ente stays ...
Conservata(f, riga) ==
  IF firs[f].statoEnte = "Annullato" THEN [riga EXCEPT !.statoEnte = "Annullato"]
                                     ELSE riga

\* ... and save refuses to take a row back from ANNULLATO, or to give a number
\* that another row of the tenant has.
Salvabile(f, riga) ==
  /\ firs[f].stato = "ANNULLATO" => riga.stato = "ANNULLATO"
  /\ riga.numero # Nessuno => \A g \in Fir \ {f} : firs[g].numero # riga.numero

\* The row written over the one copied.  A save from an older copy may undo a
\* link or a release of another request.
Salva(f, copiata, riga) ==
  /\ Salvabile(f, riga)
  /\ firs' = [firs EXCEPT ![f] = Conservata(f, riga)]
  /\ legami' = [legami EXCEPT ![f] = @ \cup ({riga.numero} \ {Nessuno})]
  /\ vecchie' = IF copiata = firs[f] THEN vecchie ELSE vecchie \cup {f}
  /\ raggiunti' = raggiunti

Sospetta(n) == sospetti' = sospetti \cup {n}

InCorso(n, fasi) == {r \in Richieste : req[r].numero = n /\ req[r].fase \in fasi}

\* Two requests are changing the visibility of one formulario: nothing in the
\* code keeps them apart.
Sovrapposta(n) ==
  \E r, s \in InCorso(n, {"pronta", "acquisita", "daRilasciare", "rilasciata"}) : r # s

-------------------------------------------------------------------------------
\* The ente.

\* operazioniPerStato, for the operations of this module.
Offerte(form) ==
  CASE form.stato = "InserimentoQuantita" -> {"Annulla", "NoteAnnullamento"}
    [] form.stato \in {"InserimentoAccettazione", "FirmaAccettazione"}
         -> {"Accettazione", "Annulla", "NoteAnnullamento"}
    [] form.stato = "FirmaAnnullamento" -> {"NoteAnnullamento"}
    [] form.stato = "Annullato" /\ ~form.nota -> {"NoteAnnullamento"}
    [] OTHER -> {}

\* applicaEffettoOperazione.
Effetto(form, o) ==
  CASE o = "Accettazione" ->
         [form EXCEPT !.stato = "FirmaAccettazione", !.pendente = o]
    [] o = "Annulla" ->
         [form EXCEPT !.stato = "FirmaAnnullamento", !.pendente = o]
    [] o = "NoteAnnullamento" -> [form EXCEPT !.nota = TRUE]
    [] o = "AcquisizioneFirma" /\ form.pendente = "Accettazione" ->
         [form EXCEPT !.stato = "Accettato", !.pendente = "nessuna"]
    [] o = "AcquisizioneFirma" /\ form.pendente = "Annulla" ->
         [form EXCEPT !.stato = "Annullato", !.pendente = "nessuna"]
    [] OTHER -> form

Raggiunto(n) ==
  raggiunti' = [raggiunti EXCEPT ![n] = @ \cup ({Derivato(ente'[n].stato)} \cap Terminali)]

\* The signature is for the number of the row loaded last, the other writes for
\* the number the request started with.
NumeroDi(q) == IF q.operazione = "AcquisizioneFirma" THEN q.copia.numero ELSE q.numero

\* A transaction whose request is gone leaves nothing but its effect.
Conclusa(r, t) ==
  req' = [req EXCEPT ![r] = IF @.fase = "abbandonata" THEN Ferma("finita")
                            ELSE [@ EXCEPT !.transazione = t]]

\* The ente settles a transaction: only an operation of the moment succeeds.
Accoglie(r) ==
  LET n == NumeroDi(req[r])
      o == req[r].operazione
  IN  /\ req[r].transazione = "inCorso"
      /\ \/ o \in Offerte(ente[n]) /\ (o = "NoteAnnullamento" => ente[n].stato = "Annullato")
         \/ o = "AcquisizioneFirma" /\ ente[n].pendente # "nessuna"
      /\ ente' = [ente EXCEPT ![n] = Effetto(@, o)]
      /\ Raggiunto(n)
      /\ Conclusa(r, "accolta")
      /\ UNCHANGED <<firs, legami, sospetti, vecchie>>

Respinge(r) ==
  /\ req[r].transazione = "inCorso"
  /\ Conclusa(r, "rifiutata")
  /\ UNCHANGED <<ente, firs, storia>>

\* What other parties do at the ente: the load arrives, the destination accepts
\* it, and an accepted formulario may still be annulled.
EnteAvanza(n) ==
  /\ \/ /\ ente[n].stato = "InserimentoQuantita"
        /\ ente' = [ente EXCEPT ![n].stato = "InserimentoAccettazione"]
     \/ /\ ente[n].stato = "InserimentoAccettazione"
        /\ ente' = [ente EXCEPT ![n].stato = "Accettato"]
     \/ /\ ente[n].stato = "Accettato"
        /\ ente' = [ente EXCEPT ![n].stato = "Annullato"]
  /\ Raggiunto(n)
  /\ UNCHANGED <<firs, req, legami, sospetti, vecchie>>

-------------------------------------------------------------------------------
\* Requests.

Passa(r, q) == req' = [req EXCEPT ![r] = q]

\* The request ends; a transaction it opened is settled all the same.
Finita(q) ==
  IF q.transazione = "inCorso"
  THEN [Ferma("abbandonata") EXCEPT !.numero = NumeroDi(q), !.copia.numero = NumeroDi(q),
          !.transazione = "inCorso", !.operazione = q.operazione]
  ELSE Ferma("finita")

\* CercaFormulariRENTRIUseCase: what the user saw when the choice was made.
Cerca(r, n) ==
  /\ req[r].fase = "attesa"
  /\ Passa(r, [req[r] EXCEPT !.uso = "acquisisci", !.fase = "cercata", !.numero = n,
                             !.vista = ente[n].visibile])
  /\ UNCHANGED <<ente, firs, storia>>

\* The preconditions of the acquisition.  f is the FIR to link, or none when a
\* new one is to be created.
PreparaAcquisizione(r, f) ==
  LET n == req[r].numero
  IN  /\ req[r].fase = "cercata"
      /\ \A g \in Fir : firs[g].numero # n
      /\ f # Nessuno => firs[f].stato # "assente" /\ firs[f].numero = Nessuno
      /\ Passa(r, [req[r] EXCEPT !.fase = "pronta", !.fir = f,
                     !.copia = IF f = Nessuno THEN Assente ELSE firs[f]])
      /\ UNCHANGED <<ente, firs, storia>>

\* acquisisciVisibilita, unless the search said it was not needed.
AcquisisciVisibilita(r) ==
  /\ req[r].fase = "pronta"
  /\ ente' = [ente EXCEPT ![req[r].numero].visibile = @ \/ ~req[r].vista]
  /\ IF Sovrapposta(req[r].numero) THEN Sospetta(req[r].numero)
                                    ELSE sospetti' = sospetti
  /\ Passa(r, [req[r] EXCEPT !.fase = "acquisita", !.vista = FALSE])
  /\ UNCHANGED <<firs, raggiunti, legami, vecchie>>

\* leggiFormulario, then the FIR created from the detail, or the one chosen,
\* is linked and saved.  A search that is no longer true links without
\* visibility.
SalvaAggancio(r, f) ==
  LET q == req[r]
      riga == IF q.fir = Nessuno
              THEN Aggancia([Assente EXCEPT !.stato = "BOZZA"], q.numero, "terzi")
              ELSE Aggancia(q.copia, q.numero, "manuale")
  IN  /\ q.fase = "acquisita"
      /\ IF q.fir = Nessuno THEN firs[f].stato = "assente" ELSE f = q.fir
      /\ Salva(f, q.copia, riga)
      /\ IF ente[q.numero].visibile THEN sospetti' = sospetti ELSE Sospetta(q.numero)
      /\ Passa(r, Ferma("finita"))
      /\ UNCHANGED ente

\* RilasciaFormularioRENTRIUseCase: never a formulario transmitted by us.
CaricaRilascio(r, f) ==
  /\ req[r].fase = "attesa"
  /\ firs[f].numero # Nessuno
  /\ firs[f].origine \in Rilasciabili
  /\ Passa(r, [req[r] EXCEPT !.uso = "rilascia", !.fase = "daRilasciare", !.fir = f,
                             !.numero = firs[f].numero, !.copia = firs[f]])
  /\ UNCHANGED <<ente, firs, storia>>

\* A variant with a bug: the ente is not told.
RilasciaSoloInLocale(r) ==
  /\ req[r].fase = "daRilasciare"
  /\ Passa(r, [req[r] EXCEPT !.fase = "rilasciata"])
  /\ UNCHANGED <<ente, firs, storia>>

\* rilasciaVisibilita, from the site the user indicates again: from another
\* site it changes nothing.
RilasciaVisibilita(r) ==
  /\ req[r].fase = "daRilasciare"
  /\ \/ /\ ente' = [ente EXCEPT ![req[r].numero].visibile = FALSE]
        /\ IF Sovrapposta(req[r].numero) THEN Sospetta(req[r].numero)
                                          ELSE sospetti' = sospetti
     \/ /\ ente' = ente
        /\ Sospetta(req[r].numero)
  /\ Passa(r, [req[r] EXCEPT !.fase = "rilasciata"])
  /\ UNCHANGED <<firs, raggiunti, legami, vecchie>>

\* rilasciaLegameRENTRI and save.
SalvaRilascio(r) ==
  LET q == req[r]
  IN  /\ q.fase = "rilasciata"
      /\ Salva(q.fir, q.copia, Sgancia(q.copia))
      /\ Passa(r, Ferma("finita"))
      /\ UNCHANGED <<ente, sospetti>>

\* The three use cases that start from /azioni: the row and its number.  The
\* caller's own reading of the row, just before, is not told apart.
CaricaAzioni(r, f, uso) ==
  /\ req[r].fase = "attesa"
  /\ uso \in {"azioni"} \cup (IF r \in ConFirma THEN {"accetta", "annulla"} ELSE {})
  /\ firs[f].numero # Nessuno
  /\ Passa(r, [req[r] EXCEPT !.uso = uso, !.fase = "caricata", !.fir = f,
                             !.numero = firs[f].numero, !.copia = firs[f]])
  /\ UNCHANGED <<ente, firs, storia>>

Richiesto(q) ==
  IF q.fase \in {"annullata", "notaLetta"} THEN "NoteAnnullamento"
  ELSE IF q.uso = "accetta" THEN "Accettazione" ELSE "Annulla"

\* leggiAzioniDisponibili: the state, and whether the operation is offered.
LeggiAzioni(r) ==
  LET q == req[r]
      form == ente[q.copia.numero]
  IN  /\ q.fase \in {"caricata", "annullata"}
      /\ Passa(r, [q EXCEPT !.fase = IF @ = "caricata" THEN "letta" ELSE "notaLetta",
                            !.letto = form.stato,
                            !.offerta = q.uso # "azioni" /\ Richiesto(q) \in Offerte(form)])
      /\ UNCHANGED <<ente, firs, storia>>

\* applyRentriStato and save; then the write, if it is one and is offered.  A
\* write that does not leave is a transaction the ente never settles.
SalvaAzioni(r) ==
  LET q == req[r]
      nota == q.fase = "notaLetta"
  IN  /\ q.fase \in {"letta", "notaLetta"}
      /\ Salva(q.fir, q.copia, ApplicaStato(q.copia, q.letto))
      /\ Passa(r, IF ~q.offerta THEN Ferma("finita")
                  ELSE [Ferma(IF nota THEN "notaInviata" ELSE "inviata") EXCEPT
                          !.uso = q.uso, !.fir = q.fir, !.numero = q.numero,
                          !.copia = IF nota THEN q.copia ELSE Assente,
                          !.transazione = "inCorso", !.operazione = Richiesto(q)])
      /\ UNCHANGED <<ente, sospetti>>

\* The ente took the data: CompletaOperazioneConFirmaUseCase loads its copy.
CaricaFirma(r) ==
  LET q == req[r]
      riga == firs[q.fir]
  IN  /\ q.fase = "inviata"
      /\ q.transazione = "accolta"
      /\ riga.numero # Nessuno
      /\ Passa(r, [q EXCEPT !.fase = "daFirmare", !.transazione = "nessuna",
                            !.copia = riga])
      /\ UNCHANGED <<ente, firs, storia>>

\* The user confirms in time: sign-hash, then acquisizione-firma.
Firma(r) ==
  /\ req[r].fase = "daFirmare"
  /\ Passa(r, [req[r] EXCEPT !.fase = "firmata", !.transazione = "inCorso",
                             !.operazione = "AcquisizioneFirma"])
  /\ UNCHANGED <<ente, firs, storia>>

\* The state is read from the ente, never deduced.
LeggiStato(r) ==
  /\ req[r].fase = "firmata"
  /\ req[r].transazione = "accolta"
  /\ Passa(r, [req[r] EXCEPT !.fase = "statoLetto", !.transazione = "nessuna",
                             !.operazione = "Annulla",
                             !.letto = ente[req[r].copia.numero].stato])
  /\ UNCHANGED <<ente, firs, storia>>

\* ... applied to the copy of before the signature, and saved.  An annulment
\* goes on from the row loaded again.
SalvaFirma(r) ==
  LET q == req[r]
  IN  /\ q.fase = "statoLetto"
      /\ Salva(q.fir, q.copia, ApplicaStato(q.copia, q.letto))
      /\ Passa(r, IF q.uso = "annulla" /\ q.letto = "Annullato"
                  THEN [q EXCEPT !.fase = "annullata", !.copia = firs'[q.fir]]
                  ELSE Ferma("finita"))
      /\ UNCHANGED <<ente, sospetti>>

\* A variant with a bug: the reason is recorded before the ente has it.
SalvaNotaSubito(r) ==
  LET q == req[r]
  IN  /\ q.fase = "notaInviata"
      /\ Salva(q.fir, q.copia, [q.copia EXCEPT !.nota = TRUE])
      /\ Passa(r, Finita(q))
      /\ UNCHANGED <<ente, sospetti>>

\* The ente has the note: the reason is recorded on the row loaded before.
SalvaNota(r) ==
  LET q == req[r]
  IN  /\ q.fase = "notaInviata"
      /\ q.transazione = "accolta"
      /\ q.copia.stato = "ANNULLATO"
      /\ Salva(q.fir, q.copia, [q.copia EXCEPT !.nota = TRUE])
      /\ Passa(r, Ferma("finita"))
      /\ UNCHANGED <<ente, sospetti>>

\* Any step may be the last: a refusal of the ente or of save, an answer that
\* does not come, a confirmation that is late or denied, a crash.  After a
\* change of the visibility the two sides are left apart.
Interrompe(r) ==
  LET q == req[r]
  IN  /\ q.fase \notin {"attesa", "abbandonata", "finita"}
      /\ Passa(r, Finita(q))
      /\ IF q.fase \in {"acquisita", "rilasciata"} THEN Sospetta(q.numero)
                                                   ELSE sospetti' = sospetti
      /\ UNCHANGED <<ente, firs, raggiunti, legami, vecchie>>

\* The ente did what was asked and the answer is lost.
PerdeRisposta(r) ==
  LET q == req[r]
  IN  /\ q.fase \in {"pronta", "daRilasciare"}
      /\ ente' = [ente EXCEPT ![q.numero].visibile =
                    q.fase = "pronta" /\ (@ \/ ~q.vista)]
      /\ Sospetta(q.numero)
      /\ Passa(r, Ferma("finita"))
      /\ UNCHANGED <<firs, raggiunti, legami, vecchie>>

Next ==
  \/ \E r \in Richieste :
       \/ \E n \in Numeri : Cerca(r, n)
       \/ \E f \in Fir \cup {Nessuno} : PreparaAcquisizione(r, f)
       \/ AcquisisciVisibilita(r)
       \/ \E f \in Fir : \/ SalvaAggancio(r, f)
                         \/ CaricaRilascio(r, f)
                         \/ \E uso \in Usi : CaricaAzioni(r, f, uso)
       \/ RilasciaVisibilita(r)
       \/ SalvaRilascio(r)
       \/ LeggiAzioni(r)
       \/ SalvaAzioni(r)
       \/ CaricaFirma(r)
       \/ Firma(r)
       \/ LeggiStato(r)
       \/ SalvaFirma(r)
       \/ SalvaNota(r)
       \/ Interrompe(r)
       \/ PerdeRisposta(r)
       \/ Accoglie(r)
       \/ Respinge(r)
  \/ \E n \in Numeri : EnteAvanza(n)

Spec == Init /\ [][Next]_vars

-------------------------------------------------------------------------------
\* Properties.

Sovrascritto(n) == \E f \in vecchie : n \in legami[f]

\* The ente first, the row after: a formulario visible and linked to no FIR, or
\* linked to one and no longer visible, is an acquisition or a release under
\* way, or one that an accident or another one cut in two; otherwise a row saved
\* from an old copy.  Everything else finds the two sides in agreement.
VisibilitaSpiegata ==
  \A n \in Numeri \ sospetti :
    LET legati == {f \in Fir : firs[f].numero = n}
    IN  /\ ente[n].visibile /\ legati = {}
             => InCorso(n, {"acquisita"}) # {} \/ Sovrascritto(n)
        /\ ~ente[n].visibile /\ legati # {}
             => InCorso(n, {"rilasciata"}) # {} \/ Sovrascritto(n)

\* A final state and a note of annulment on a row come from the ente: from a
\* formulario this FIR is, or has been, linked to, and never before it got
\* there, although a row keeps the state of a link that was released.
EsitoDellEnte ==
  \A f \in Fir :
    /\ firs[f].stato \in Terminali =>
         \E n \in legami[f] : firs[f].stato \in raggiunti[n]
    /\ firs[f].statoEnte \in {"Accettato", "Annullato"} =>
         \E n \in legami[f] : Derivato(firs[f].statoEnte) \in raggiunti[n]
    /\ firs[f].nota => \E n \in legami[f] : ente[n].nota

\* No save, however old its copy, takes a FIR back from ANNULLATO or erases
\* 'Annullato' of the ente; and a delivered FIR goes anywhere but to ANNULLATO
\* only when a row that changed in the meantime is overwritten.
TerminaliConservati ==
  [][\A f \in Fir :
       /\ firs[f].stato = "ANNULLATO" => firs'[f].stato = "ANNULLATO"
       /\ firs[f].statoEnte = "Annullato" => firs'[f].statoEnte = "Annullato"
       /\ firs[f].stato = "CONSEGNATO" /\ firs'[f].stato # "CONSEGNATO"
            => firs'[f].stato = "ANNULLATO" \/ f \in vecchie']_vars
===============================================================================
