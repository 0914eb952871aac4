--------------------------- MODULE FormulariEnteProof --------------------------
(***************************************************************************)
(* Proofs about FormulariEnte, for any FIRs, formulari and requests; the   *)
(* last part is that the two sides of a link, the row and the visibility   *)
(* at the ente, agree.                                                     *)
(***************************************************************************)
EXTENDS FormulariEnte, TLAPS

-------------------------------------------------------------------------------
(* Types.                                                                      *)

\* What each phase has in its record: a formulario, a FIR, a linked copy.
Scelta    == {"cercata", "pronta", "acquisita", "daRilasciare", "rilasciata"}
InAzione  == {"caricata", "letta", "inviata", "daFirmare", "firmata", "statoLetto",
              "annullata", "notaLetta", "notaInviata"}
Agganciata == InAzione \ {"inviata"}

Completa(q) ==
  /\ q.fase \in Scelta \cup InAzione => q.numero \in Numeri
  /\ q.fase \in InAzione \cup {"daRilasciare", "rilasciata"} => q.fir \in Fir
  /\ q.fase \in Agganciata => q.copia.numero \in Numeri
  /\ q.transazione = "inCorso" =>
       /\ NumeroDi(q) \in Numeri
       /\ q.fase \in {"inviata", "firmata", "notaInviata", "abbandonata"}

\* TypeOK is not inductive: a phase reads the formulario and the FIR of its
\* record, which must be there.
InvTipi == TypeOK /\ \A r \in Richieste : Completa(req[r])

\* Values of the small types.
LEMMA TipiCostanti ==
  /\ Assente \in Riga
  /\ \A fase \in Fasi : Ferma(fase) \in Richiesta
  /\ \A s \in StatiEnte : Derivato(s) \in StatiFir
  /\ \A q \in Richiesta : Richiesto(q) \in Operazioni
  /\ \A form \in Formulario, o \in Operazioni : Effetto(form, o) \in Formulario
<1>1. Assente \in Riga
  BY DEF Assente, Riga, StatiFir, Origini, StatiEnte
<1>2. \A fase \in Fasi : Ferma(fase) \in Richiesta
  BY <1>1 DEF Ferma, Richiesta, Usi, StatiEnte, Transazioni, Operazioni
<1>3. \A s \in StatiEnte : Derivato(s) \in StatiFir
  BY DEF StatiEnte, Derivato, StatiFir
<1>4. \A q \in Richiesta : Richiesto(q) \in Operazioni
  BY DEF Richiesto, Operazioni
<1>5. \A form \in Formulario, o \in Operazioni : Effetto(form, o) \in Formulario
  <2> TAKE form \in Formulario, o \in Operazioni
  <2>1. /\ [form EXCEPT !.nota = TRUE] \in Formulario
        /\ \A s \in StatiEnte, p \in {"nessuna", "Accettazione", "Annulla"} :
             [form EXCEPT !.stato = s, !.pendente = p] \in Formulario
    BY DEF Formulario
  <2>2. \/ Effetto(form, o) \in {form, [form EXCEPT !.nota = TRUE]}
        \/ \E s \in StatiEnte, p \in {"nessuna", "Accettazione", "Annulla"} :
             Effetto(form, o) = [form EXCEPT !.stato = s, !.pendente = p]
    BY DEF Effetto, StatiEnte, Operazioni
  <2> QED
    BY <2>1, <2>2
<1> QED
  BY <1>1, <1>2, <1>3, <1>4, <1>5

\* What the aggregate and the repository make of a row.
LEMMA TipiRiga ==
  ASSUME NEW riga \in Riga
  PROVE  /\ \A s \in StatiEnte : ApplicaStato(riga, s) \in Riga
         /\ \A n \in Numeri, o \in Origini : Aggancia(riga, n, o) \in Riga
         /\ Sgancia(riga) \in Riga
         /\ [riga EXCEPT !.nota = TRUE] \in Riga
         /\ [riga EXCEPT !.stato = "BOZZA"] \in Riga
         /\ \A f \in Fir : Conservata(f, riga) \in Riga
<1>1. \A s \in StatiEnte : ApplicaStato(riga, s) \in Riga
  <2> TAKE s \in StatiEnte
  <2>1. Derivato(s) \in StatiFir
    BY TipiCostanti
  <2> QED
    BY <2>1 DEF ApplicaStato, Riga
<1>2. \A n \in Numeri, o \in Origini : Aggancia(riga, n, o) \in Riga
  BY DEF Aggancia, Riga
<1>3. Sgancia(riga) \in Riga
  BY DEF Sgancia, Riga, Origini
<1>4. \A f \in Fir : Conservata(f, riga) \in Riga
  BY DEF Conservata, Riga, StatiEnte
<1>5. [riga EXCEPT !.nota = TRUE] \in Riga
  BY DEF Riga
<1>6. [riga EXCEPT !.stato = "BOZZA"] \in Riga
  BY DEF Riga, StatiFir
<1> QED
  BY <1>1, <1>2, <1>3, <1>4, <1>5, <1>6

\* A request that ends, perhaps leaving a transaction behind.
LEMMA TipiFine ==
  ASSUME NEW q \in Richiesta, Completa(q)
  PROVE  Finita(q) \in Richiesta /\ Completa(Finita(q))
<1>1. CASE q.transazione = "inCorso"
  <2> DEFINE n == NumeroDi(q)
             p == [Ferma("abbandonata") EXCEPT !.numero = n, !.copia.numero = n,
                     !.transazione = "inCorso", !.operazione = q.operazione]
  <2>1. n \in Numeri /\ q.operazione \in Operazioni
    BY <1>1 DEF Completa, Richiesta
  <2> HIDE DEF n
  <2> DEFINE fe == Ferma("abbandonata")
  <2>2. /\ fe \in Richiesta /\ fe.fase = "abbandonata" /\ fe.copia \in Riga
        /\ fe.transazione = "nessuna"
    BY TipiCostanti DEF Ferma, Fasi
  <2> HIDE DEF fe
  <2>3. [fe.copia EXCEPT !.numero = n] \in Riga
    BY <2>1, <2>2 DEF Riga
  <2>4. /\ p \in Richiesta /\ p.fase = "abbandonata" /\ p.numero = n
        /\ p.copia = [fe.copia EXCEPT !.numero = n]
    BY <2>1, <2>2, <2>3 DEF Richiesta, Transazioni, fe
  <2> HIDE DEF p
  <2>5. Completa(p)
    <3>1. p.fase = "abbandonata" /\ p.numero = n /\ p.copia.numero = n
      BY <2>2, <2>4 DEF Riga
    <3>2. NumeroDi(p) \in Numeri
      BY <2>1, <3>1 DEF NumeroDi
    <3> QED
      BY <3>1, <3>2 DEF Completa, Scelta, InAzione, Agganciata
  <2>6. Finita(q) = p
    BY <1>1 DEF Finita, n, p
  <2> QED
    BY <2>4, <2>5, <2>6
<1>2. CASE q.transazione # "inCorso"
  <2>1. Finita(q) = Ferma("finita") /\ "finita" \in Fasi
    BY <1>2 DEF Finita, Fasi
  <2>2. Completa(Ferma("finita"))
    BY DEF Ferma, Completa, Scelta, InAzione, Agganciata
  <2> QED
    BY <2>1, <2>2, TipiCostanti
<1> QED
  BY <1>1, <1>2

\* A request passes to a record that has what its phase needs.
LEMMA TipiPassa ==
  ASSUME InvTipi, NEW r \in Richieste, NEW q \in Richiesta, Completa(q), Passa(r, q)
  PROVE  req' \in [Richieste -> Richiesta] /\ \A s \in Richieste : Completa(req'[s])
<1>1. req \in [Richieste -> Richiesta] /\ req' = [req EXCEPT ![r] = q]
  BY DEF InvTipi, TypeOK, Passa
<1>2. \A s \in Richieste : req'[s] = req[s] \/ req'[s] = q
  BY <1>1
<1> QED
  BY <1>1, <1>2 DEF InvTipi

\* The row written by a save.
LEMMA TipiSalva ==
  ASSUME InvTipi, NEW f \in Fir, NEW copiata, NEW riga \in Riga, Salva(f, copiata, riga)
  PROVE  /\ firs' \in [Fir -> Riga]
         /\ legami' \in [Fir -> SUBSET Numeri]
         /\ vecchie' \subseteq Fir
         /\ raggiunti' = raggiunti
<1>1. Conservata(f, riga) \in Riga
  BY TipiRiga
<1>2. {riga.numero} \ {Nessuno} \subseteq Numeri
  BY DEF Riga
<1> QED
  BY <1>1, <1>2 DEF InvTipi, TypeOK, Salva

\* An ended request is complete.
LEMMA Finale == Ferma("finita") \in Richiesta /\ Completa(Ferma("finita"))
<1>1. "finita" \in Fasi
  BY DEF Fasi
<1> QED
  BY <1>1, TipiCostanti DEF Ferma, Completa, Scelta, InAzione, Agganciata

\* The histories of a step at the ente.
LEMMA TipiRaggiunto ==
  ASSUME InvTipi, NEW n, Raggiunto(n)
  PROVE  raggiunti' \in [Numeri -> SUBSET Terminali]
BY DEF InvTipi, TypeOK, Raggiunto

\* The steps of the ente: a transaction settled, what other parties do.
LEMMA TipiEnte ==
  ASSUME InvTipi,
         \/ \E r \in Richieste : Accoglie(r) \/ Respinge(r)
         \/ \E n \in Numeri : EnteAvanza(n)
  PROVE  InvTipi'
<1> USE DEF storia
<1>c. ASSUME NEW r \in Richieste, NEW t \in {"accolta", "rifiutata"}, Conclusa(r, t)
      PROVE  req' \in [Richieste -> Richiesta] /\ \A s \in Richieste : Completa(req'[s])
  <2> DEFINE q == req[r]
             p == IF q.fase = "abbandonata" THEN Ferma("finita")
                  ELSE [q EXCEPT !.transazione = t]
  <2>1. q \in Richiesta /\ Completa(q)
    BY DEF InvTipi, TypeOK
  <2>2. [q EXCEPT !.transazione = t] \in Richiesta
    BY <2>1 DEF Richiesta, Transazioni
  <2>3. Completa([q EXCEPT !.transazione = t])
    BY <2>1 DEF Richiesta, Completa
  <2>4. p \in Richiesta /\ Completa(p)
    BY <2>2, <2>3, Finale
  <2>5. Passa(r, p)
    BY <1>c, <2>1 DEF Conclusa, Passa, InvTipi, TypeOK
  <2> QED
    BY <2>4, <2>5, TipiPassa
<1>1. ASSUME NEW r \in Richieste, Accoglie(r) PROVE InvTipi'
  <2> DEFINE n == NumeroDi(req[r])
             o == req[r].operazione
  <2>1. n \in Numeri /\ o \in Operazioni
    BY <1>1 DEF Accoglie, InvTipi, TypeOK, Completa, Richiesta
  <2>2. Effetto(ente[n], o) \in Formulario
    BY <2>1, TipiCostanti DEF InvTipi, TypeOK
  <2>3. /\ ente' = [ente EXCEPT ![n] = Effetto(@, o)]
        /\ Raggiunto(n) /\ Conclusa(r, "accolta")
        /\ UNCHANGED <<firs, legami, sospetti, vecchie>>
    BY <1>1 DEF Accoglie
  <2>4. ente' \in [Numeri -> Formulario]
    BY <2>1, <2>2, <2>3 DEF InvTipi, TypeOK
  <2>5. raggiunti' \in [Numeri -> SUBSET Terminali]
    BY <2>3, TipiRaggiunto
  <2> QED
    BY <2>3, <2>4, <2>5, <1>c DEF InvTipi, TypeOK
<1>2. ASSUME NEW r \in Richieste, Respinge(r) PROVE InvTipi'
  BY <1>2, <1>c DEF Respinge, InvTipi, TypeOK
<1>3. ASSUME NEW n \in Numeri, EnteAvanza(n) PROVE InvTipi'
  <2>1. \A s \in StatiEnte : [ente[n] EXCEPT !.stato = s] \in Formulario
    BY DEF InvTipi, TypeOK, Formulario
  <2>2. ente' \in [Numeri -> Formulario]
    BY <1>3, <2>1 DEF EnteAvanza, InvTipi, TypeOK, StatiEnte
  <2>3. raggiunti' \in [Numeri -> SUBSET Terminali]
    BY <1>3, TipiRaggiunto DEF EnteAvanza
  <2> QED
    BY <1>3, <2>2, <2>3 DEF EnteAvanza, InvTipi, TypeOK
<1> QED
  BY <1>1, <1>2, <1>3

\* The steps of the acquisition and of the release.
LEMMA TipiVisibilita ==
  ASSUME InvTipi, NEW r \in Richieste,
         \/ \E n \in Numeri : Cerca(r, n)
         \/ \E f \in Fir \cup {Nessuno} : PreparaAcquisizione(r, f)
         \/ AcquisisciVisibilita(r)
         \/ \E f \in Fir : SalvaAggancio(r, f) \/ CaricaRilascio(r, f)
         \/ RilasciaVisibilita(r) \/ SalvaRilascio(r) \/ PerdeRisposta(r)
         \/ Interrompe(r)
  PROVE  InvTipi'
<1> USE DEF storia
<1> DEFINE q == req[r]
<1>t. /\ q \in Richiesta /\ Completa(q)
      /\ \A n \in Numeri : ente[n] \in Formulario
      /\ \A f \in Fir : firs[f] \in Riga
  BY DEF InvTipi, TypeOK
<1>p. ASSUME NEW p \in Richiesta, Completa(p), Passa(r, p)
      PROVE  req' \in [Richieste -> Richiesta] /\ \A s \in Richieste : Completa(req'[s])
  BY <1>p, TipiPassa
<1>s. ASSUME NEW n \in Numeri, Sospetta(n) PROVE sospetti' \subseteq Numeri
  BY <1>s DEF Sospetta, InvTipi, TypeOK
<1>v. ASSUME NEW n \in Numeri, NEW b \in BOOLEAN, ente' = [ente EXCEPT ![n].visibile = b]
      PROVE  ente' \in [Numeri -> Formulario]
  <2>1. [ente[n] EXCEPT !.visibile = b] \in Formulario
    BY <1>t DEF Formulario
  <2> QED
    BY <1>v, <2>1 DEF InvTipi, TypeOK
<1>1. ASSUME NEW n \in Numeri, Cerca(r, n) PROVE InvTipi'
  <2> DEFINE p == [q EXCEPT !.uso = "acquisisci", !.fase = "cercata", !.numero = n,
                            !.vista = ente[n].visibile]
  <2>1. p \in Richiesta /\ p.fase = "cercata" /\ p.numero = n /\ p.transazione = q.transazione
    BY <1>t DEF Richiesta, Usi, Fasi, Formulario
  <2>2. q.fase = "attesa" /\ Passa(r, p) /\ UNCHANGED <<ente, firs, storia>>
    BY <1>1 DEF Cerca
  <2>3. Completa(p)
    BY <1>t, <2>1, <2>2 DEF Completa, Scelta, InAzione, Agganciata
  <2> HIDE DEF p
  <2> QED
    BY <2>1, <2>2, <2>3, <1>p DEF InvTipi, TypeOK
<1>2. ASSUME NEW f \in Fir \cup {Nessuno}, PreparaAcquisizione(r, f) PROVE InvTipi'
  <2> DEFINE copia == IF f = Nessuno THEN Assente ELSE firs[f]
             p == [q EXCEPT !.fase = "pronta", !.fir = f, !.copia = copia]
  <2>1. copia \in Riga
    BY <1>t, TipiCostanti
  <2>2. q.fase = "cercata" /\ Passa(r, p) /\ UNCHANGED <<ente, firs, storia>>
    BY <1>2 DEF PreparaAcquisizione
  <2> HIDE DEF copia
  <2>3. /\ p \in Richiesta /\ p.fase = "pronta" /\ p.numero = q.numero
        /\ p.transazione = q.transazione
    BY <1>t, <2>1 DEF Richiesta, Fasi
  <2>4. Completa(p)
    BY <1>t, <2>2, <2>3 DEF Completa, Scelta, InAzione, Agganciata
  <2> HIDE DEF p
  <2> QED
    BY <2>2, <2>3, <2>4, <1>p DEF InvTipi, TypeOK
<1>3. CASE AcquisisciVisibilita(r)
  <2> DEFINE p == [q EXCEPT !.fase = "acquisita", !.vista = FALSE]
  <2>1. q.fase = "pronta" /\ Passa(r, p) /\ UNCHANGED <<firs, raggiunti, legami, vecchie>>
    BY <1>3 DEF AcquisisciVisibilita
  <2>2. /\ p \in Richiesta /\ p.fase = "acquisita" /\ p.numero = q.numero
        /\ p.transazione = q.transazione
    BY <1>t DEF Richiesta, Fasi
  <2>3. Completa(p) /\ q.numero \in Numeri
    BY <1>t, <2>1, <2>2 DEF Completa, Scelta, InAzione, Agganciata
  <2>4. ente' \in [Numeri -> Formulario]
    <3>1. /\ ente' = [ente EXCEPT ![q.numero].visibile = ente[q.numero].visibile \/ ~q.vista]
          /\ (ente[q.numero].visibile \/ ~q.vista) \in BOOLEAN
      BY <1>3 DEF AcquisisciVisibilita
    <3> QED
      BY <2>3, <3>1, <1>v
  <2>5. sospetti' \subseteq Numeri
    BY <1>3, <1>s, <2>3 DEF AcquisisciVisibilita, InvTipi, TypeOK
  <2> HIDE DEF p
  <2> QED
    BY <2>1, <2>2, <2>3, <2>4, <2>5, <1>p DEF InvTipi, TypeOK
<1>f. ASSUME NEW f \in Fir, NEW riga \in Riga, Salva(f, q.copia, riga),
             Passa(r, Ferma("finita")), ente' = ente,
             sospetti' = sospetti \/ (q.numero \in Numeri /\ Sospetta(q.numero))
      PROVE  InvTipi'
  <2>1. sospetti' \subseteq Numeri
    BY <1>f, <1>s DEF InvTipi, TypeOK
  <2> QED
    BY <1>f, <1>p, <2>1, TipiSalva, Finale DEF InvTipi, TypeOK
<1>4. ASSUME NEW f \in Fir, SalvaAggancio(r, f) PROVE InvTipi'
  <2>1. q.numero \in Numeri /\ q.copia \in Riga
    BY <1>t, <1>4 DEF SalvaAggancio, Completa, Scelta, Richiesta
  <2>2. /\ Aggancia(q.copia, q.numero, "manuale") \in Riga
        /\ Aggancia([Assente EXCEPT !.stato = "BOZZA"], q.numero, "terzi") \in Riga
    BY <2>1, TipiCostanti, TipiRiga DEF Origini
  <2>3. PICK riga \in Riga : Salva(f, q.copia, riga)
    BY <1>4, <2>2 DEF SalvaAggancio
  <2> QED
    BY <1>4, <1>f, <2>1, <2>3 DEF SalvaAggancio
<1>5. ASSUME NEW f \in Fir, CaricaRilascio(r, f) PROVE InvTipi'
  <2> DEFINE p == [q EXCEPT !.uso = "rilascia", !.fase = "daRilasciare", !.fir = f,
                            !.numero = firs[f].numero, !.copia = firs[f]]
  <2>1. /\ q.fase = "attesa" /\ Passa(r, p) /\ UNCHANGED <<ente, firs, storia>>
        /\ firs[f].numero \in Numeri
    BY <1>t, <1>5 DEF CaricaRilascio, Riga
  <2>2. /\ p \in Richiesta /\ p.fase = "daRilasciare" /\ p.numero = firs[f].numero
        /\ p.fir = f /\ p.transazione = q.transazione
    BY <1>t, <2>1 DEF Richiesta, Fasi, Usi
  <2>3. Completa(p)
    BY <1>t, <2>1, <2>2 DEF Completa, Scelta, InAzione, Agganciata
  <2> HIDE DEF p
  <2> QED
    BY <2>1, <2>2, <2>3, <1>p DEF InvTipi, TypeOK
<1>6. CASE RilasciaVisibilita(r)
  <2> DEFINE p == [q EXCEPT !.fase = "rilasciata"]
  <2>1. q.fase = "daRilasciare" /\ Passa(r, p) /\ UNCHANGED <<firs, raggiunti, legami, vecchie>>
    BY <1>6 DEF RilasciaVisibilita
  <2>2. /\ p \in Richiesta /\ p.fase = "rilasciata" /\ p.numero = q.numero
        /\ p.fir = q.fir /\ p.transazione = q.transazione
    BY <1>t DEF Richiesta, Fasi
  <2>3. Completa(p) /\ q.numero \in Numeri
    BY <1>t, <2>1, <2>2 DEF Completa, Scelta, InAzione, Agganciata
  <2>4. ente' \in [Numeri -> Formulario]
    BY <1>6, <1>v, <2>3 DEF RilasciaVisibilita, InvTipi, TypeOK
  <2>5. sospetti' \subseteq Numeri
    BY <1>6, <1>s, <2>3 DEF RilasciaVisibilita, InvTipi, TypeOK
  <2> HIDE DEF p
  <2> QED
    BY <2>1, <2>2, <2>3, <2>4, <2>5, <1>p DEF InvTipi, TypeOK
<1>7. CASE SalvaRilascio(r)
  <2>1. q.fir \in Fir /\ Sgancia(q.copia) \in Riga
    BY <1>t, <1>7, TipiRiga DEF SalvaRilascio, Completa, Richiesta
  <2> QED
    BY <1>7, <1>f, <2>1 DEF SalvaRilascio
<1>8. CASE PerdeRisposta(r)
  <2>1. q.numero \in Numeri
    BY <1>t, <1>8 DEF PerdeRisposta, Completa, Scelta
  <2>2. ente' \in [Numeri -> Formulario]
    <3>1. PICK b \in BOOLEAN : ente' = [ente EXCEPT ![q.numero].visibile = b]
      BY <1>8 DEF PerdeRisposta
    <3> QED
      BY <2>1, <3>1, <1>v
  <2>3. sospetti' \subseteq Numeri
    BY <1>8, <1>s, <2>1 DEF PerdeRisposta
  <2> QED
    BY <1>8, <1>p, <2>2, <2>3, Finale DEF PerdeRisposta, InvTipi, TypeOK
<1>9. CASE Interrompe(r)
  <2>1. Passa(r, Finita(q)) /\ UNCHANGED <<ente, firs, raggiunti, legami, vecchie>>
    BY <1>9 DEF Interrompe
  <2>2. q.fase \in {"acquisita", "rilasciata"} => q.numero \in Numeri
    BY <1>t DEF Completa, Scelta
  <2>3. sospetti' \subseteq Numeri
    BY <1>9, <1>s, <2>2 DEF Interrompe, InvTipi, TypeOK
  <2>4. Finita(q) \in Richiesta /\ Completa(Finita(q))
    BY <1>t, TipiFine
  <2> QED
    BY <1>p, <2>1, <2>3, <2>4 DEF InvTipi, TypeOK
<1> QED
  BY <1>1, <1>2, <1>3, <1>4, <1>5, <1>6, <1>7, <1>8, <1>9

\* The steps of the operations that start from /azioni.
LEMMA TipiAzioni ==
  ASSUME InvTipi, NEW r \in Richieste,
         \/ \E f \in Fir, uso \in Usi : CaricaAzioni(r, f, uso)
         \/ LeggiAzioni(r) \/ SalvaAzioni(r) \/ CaricaFirma(r) \/ Firma(r)
         \/ LeggiStato(r) \/ SalvaFirma(r) \/ SalvaNota(r)
  PROVE  InvTipi'
<1> USE DEF storia
<1> DEFINE q == req[r]
<1>t. /\ q \in Richiesta /\ Completa(q)
      /\ \A n \in Numeri : ente[n] \in Formulario
      /\ \A f \in Fir : firs[f] \in Riga
  BY DEF InvTipi, TypeOK
<1>p. ASSUME NEW p \in Richiesta, Completa(p), Passa(r, p)
      PROVE  req' \in [Richieste -> Richiesta] /\ \A s \in Richieste : Completa(req'[s])
  BY <1>p, TipiPassa
<1>l. ASSUME NEW p \in Richiesta, Completa(p), Passa(r, p), UNCHANGED <<ente, firs, storia>>
      PROVE  InvTipi'
  BY <1>l, <1>p DEF InvTipi, TypeOK
<1>s. ASSUME NEW p \in Richiesta, Completa(p), Passa(r, p), NEW f \in Fir, NEW riga \in Riga,
             Salva(f, q.copia, riga), UNCHANGED <<ente, sospetti>>
      PROVE  InvTipi'
  BY <1>s, <1>p, TipiSalva DEF InvTipi, TypeOK
<1>1. ASSUME NEW f \in Fir, NEW uso \in Usi, CaricaAzioni(r, f, uso) PROVE InvTipi'
  <2> DEFINE p == [q EXCEPT !.uso = uso, !.fase = "caricata", !.fir = f,
                            !.numero = firs[f].numero, !.copia = firs[f]]
  <2>1. /\ q.fase = "attesa" /\ Passa(r, p) /\ UNCHANGED <<ente, firs, storia>>
        /\ firs[f].numero \in Numeri
    BY <1>t, <1>1 DEF CaricaAzioni, Riga
  <2>2. /\ p \in Richiesta /\ p.fase = "caricata" /\ p.numero = firs[f].numero
        /\ p.fir = f /\ p.copia = firs[f] /\ p.transazione = q.transazione
    BY <1>t, <2>1 DEF Richiesta, Fasi
  <2> HIDE DEF p
  <2>3. Completa(p)
    BY <1>t, <2>1, <2>2 DEF Completa, Scelta, InAzione, Agganciata
  <2> QED
    BY <2>1, <2>2, <2>3, <1>l
<1>2. CASE LeggiAzioni(r)
  <2> DEFINE form == ente[q.copia.numero]
             fase == IF q.fase = "caricata" THEN "letta" ELSE "notaLetta"
             off == q.uso # "azioni" /\ Richiesto(q) \in Offerte(form)
             p == [q EXCEPT !.fase = fase, !.letto = form.stato, !.offerta = off]
  <2>1. /\ q.fase \in {"caricata", "annullata"} /\ Passa(r, p)
        /\ UNCHANGED <<ente, firs, storia>>
    BY <1>2 DEF LeggiAzioni
  <2>2. form.stato \in StatiEnte /\ off \in BOOLEAN /\ fase \in {"letta", "notaLetta"}
    BY <1>t, <2>1 DEF Completa, InAzione, Agganciata, Formulario
  <2> HIDE DEF form, fase, off
  <2>3. /\ p \in Richiesta /\ p.fase = fase /\ p.numero = q.numero
        /\ p.fir = q.fir /\ p.copia = q.copia /\ p.transazione = q.transazione
    BY <1>t, <2>2 DEF Richiesta, Fasi
  <2> HIDE DEF p
  <2>4. Completa(p)
    BY <1>t, <2>1, <2>2, <2>3 DEF Completa, Scelta, InAzione, Agganciata
  <2> QED
    BY <2>1, <2>3, <2>4, <1>l
<1>3. CASE SalvaAzioni(r)
  <2> DEFINE nota == q.fase = "notaLetta"
             fase == IF nota THEN "notaInviata" ELSE "inviata"
             fe == Ferma(fase)
             op == Richiesto(q)
             copia == IF nota THEN q.copia ELSE Assente
             p == [fe EXCEPT !.uso = q.uso, !.fir = q.fir, !.numero = q.numero,
                     !.copia = copia, !.transazione = "inCorso", !.operazione = op]
             riga == ApplicaStato(q.copia, q.letto)
  <2>1. /\ q.fase \in {"letta", "notaLetta"} /\ Salva(q.fir, q.copia, riga)
        /\ Passa(r, IF ~q.offerta THEN Ferma("finita") ELSE p)
        /\ UNCHANGED <<ente, sospetti>>
    BY <1>3 DEF SalvaAzioni
  <2>2. q.fir \in Fir /\ q.numero \in Numeri /\ q.copia.numero \in Numeri
    BY <1>t, <2>1 DEF Completa, InAzione, Agganciata
  <2>3. riga \in Riga
    BY <1>t, TipiRiga DEF Richiesta
  <2>4. /\ fase \in Fasi /\ fe \in Richiesta /\ fe.fase = fase
        /\ op \in Operazioni /\ op # "AcquisizioneFirma" /\ copia \in Riga
        /\ q.uso \in Usi
    BY <1>t, TipiCostanti DEF Fasi, Ferma, Richiesta, Richiesto
  <2>5. /\ fase \in {"notaInviata", "inviata"}
        /\ fase = "notaInviata" => copia = q.copia
    OBVIOUS
  <2> HIDE DEF fase, fe, op, copia, riga, nota
  <2>6. /\ p \in Richiesta /\ p.fase = fase /\ p.numero = q.numero
        /\ p.fir = q.fir /\ p.copia = copia /\ p.operazione = op
    BY <2>2, <2>4 DEF Richiesta, Transazioni
  <2> HIDE DEF p
  <2>7. Completa(p)
    BY <2>2, <2>4, <2>5, <2>6 DEF Completa, Scelta, InAzione, Agganciata, NumeroDi
  <2>8. CASE q.offerta
    BY <2>1, <2>2, <2>3, <2>6, <2>7, <2>8, <1>s
  <2>9. CASE ~q.offerta
    BY <2>1, <2>2, <2>3, <2>9, <1>s, Finale
  <2> QED
    BY <2>8, <2>9
<1>4. CASE CaricaFirma(r)
  <2> DEFINE riga == firs[q.fir]
             p == [q EXCEPT !.fase = "daFirmare", !.transazione = "nessuna", !.copia = riga]
  <2>1. /\ q.fase = "inviata" /\ riga.numero # Nessuno /\ Passa(r, p)
        /\ UNCHANGED <<ente, firs, storia>>
    BY <1>4 DEF CaricaFirma
  <2>2. q.fir \in Fir /\ q.numero \in Numeri
    BY <1>t, <2>1 DEF Completa, InAzione
  <2>3. riga \in Riga /\ riga.numero \in Numeri
    BY <1>t, <2>1, <2>2 DEF Riga
  <2> HIDE DEF riga
  <2>4. /\ p \in Richiesta /\ p.fase = "daFirmare" /\ p.numero = q.numero
        /\ p.fir = q.fir /\ p.copia = riga /\ p.transazione = "nessuna"
    BY <1>t, <2>3 DEF Richiesta, Fasi, Transazioni
  <2> HIDE DEF p
  <2>5. Completa(p)
    BY <2>2, <2>3, <2>4 DEF Completa, Scelta, InAzione, Agganciata
  <2> QED
    BY <2>1, <2>4, <2>5, <1>l
<1>5. CASE Firma(r)
  <2> DEFINE p == [q EXCEPT !.fase = "firmata", !.transazione = "inCorso",
                            !.operazione = "AcquisizioneFirma"]
  <2>1. q.fase = "daFirmare" /\ Passa(r, p) /\ UNCHANGED <<ente, firs, storia>>
    BY <1>5 DEF Firma
  <2>2. q.fir \in Fir /\ q.numero \in Numeri /\ q.copia.numero \in Numeri
    BY <1>t, <2>1 DEF Completa, InAzione, Agganciata
  <2>3. /\ p \in Richiesta /\ p.fase = "firmata" /\ p.numero = q.numero
        /\ p.fir = q.fir /\ p.copia = q.copia /\ p.operazione = "AcquisizioneFirma"
    BY <1>t DEF Richiesta, Fasi, Transazioni, Operazioni
  <2> HIDE DEF p
  <2>4. Completa(p)
    BY <2>2, <2>3 DEF Completa, Scelta, InAzione, Agganciata, NumeroDi
  <2> QED
    BY <2>1, <2>3, <2>4, <1>l
<1>6. CASE LeggiStato(r)
  <2> DEFINE s == ente[q.copia.numero].stato
             p == [q EXCEPT !.fase = "statoLetto", !.transazione = "nessuna",
                            !.operazione = "Annulla", !.letto = s]
  <2>1. q.fase = "firmata" /\ Passa(r, p) /\ UNCHANGED <<ente, firs, storia>>
    BY <1>6 DEF LeggiStato
  <2>2. /\ q.fir \in Fir /\ q.numero \in Numeri /\ q.copia.numero \in Numeri
        /\ s \in StatiEnte
    BY <1>t, <2>1 DEF Completa, InAzione, Agganciata, Formulario
  <2> HIDE DEF s
  <2>3. /\ p \in Richiesta /\ p.fase = "statoLetto" /\ p.numero = q.numero
        /\ p.fir = q.fir /\ p.copia = q.copia /\ p.transazione = "nessuna"
    BY <1>t, <2>2 DEF Richiesta, Fasi, Transazioni, Operazioni
  <2> HIDE DEF p
  <2>4. Completa(p)
    BY <2>2, <2>3 DEF Completa, Scelta, InAzione, Agganciata
  <2> QED
    BY <2>1, <2>3, <2>4, <1>l
<1>7. CASE SalvaFirma(r)
  <2> DEFINE riga == ApplicaStato(q.copia, q.letto)
             copia == firs'[q.fir]
             p == [q EXCEPT !.fase = "annullata", !.copia = copia]
             finale == ~(q.uso = "annulla" /\ q.letto = "Annullato")
  <2>1. /\ q.fase = "statoLetto" /\ Salva(q.fir, q.copia, riga)
        /\ Passa(r, IF finale THEN Ferma("finita") ELSE p)
        /\ UNCHANGED <<ente, sospetti>>
    BY <1>7 DEF SalvaFirma
  <2>2. q.fir \in Fir /\ q.numero \in Numeri /\ q.copia.numero \in Numeri
    BY <1>t, <2>1 DEF Completa, InAzione, Agganciata
  <2>3. riga \in Riga /\ riga.numero = q.copia.numero
    BY <1>t, TipiRiga DEF Richiesta, ApplicaStato, Riga
  <2> HIDE DEF riga
  <2>4. copia \in Riga /\ copia.numero = q.copia.numero
    <3>1. copia = Conservata(q.fir, riga)
      BY <2>1, <2>2 DEF Salva, InvTipi, TypeOK
    <3>2. Conservata(q.fir, riga) \in Riga
      BY <2>2, <2>3, TipiRiga
    <3>3. Conservata(q.fir, riga).numero = riga.numero
      BY <2>3 DEF Conservata, Riga
    <3> QED
      BY <2>3, <3>1, <3>2, <3>3
  <2> HIDE DEF copia, finale
  <2>5. /\ p \in Richiesta /\ p.fase = "annullata" /\ p.numero = q.numero
        /\ p.fir = q.fir /\ p.copia = copia /\ p.transazione = q.transazione
    BY <1>t, <2>4 DEF Richiesta, Fasi
  <2> HIDE DEF p
  <2>6. Completa(p)
    BY <1>t, <2>1, <2>2, <2>4, <2>5 DEF Completa, Scelta, InAzione, Agganciata
  <2>7. CASE finale
    BY <2>1, <2>2, <2>3, <2>7, <1>s, Finale
  <2>8. CASE ~finale
    BY <2>1, <2>2, <2>3, <2>5, <2>6, <2>8, <1>s
  <2> QED
    BY <2>7, <2>8
<1>8. CASE SalvaNota(r)
  <2>1. /\ q.fir \in Fir /\ q.copia \in Riga
        /\ Salva(q.fir, q.copia, [q.copia EXCEPT !.nota = TRUE])
        /\ Passa(r, Ferma("finita")) /\ UNCHANGED <<ente, sospetti>>
    BY <1>t, <1>8 DEF SalvaNota, Completa, InAzione, Richiesta
  <2>2. [q.copia EXCEPT !.nota = TRUE] \in Riga
    BY <2>1, TipiRiga
  <2> QED
    BY <2>1, <2>2, <1>s, Finale
<1> QED
  BY <1>1, <1>2, <1>3, <1>4, <1>5, <1>6, <1>7, <1>8

\* The initial rows, formulari and requests have their types.
LEMMA TipiIniziali == Init => InvTipi
<1> SUFFICES ASSUME Init PROVE InvTipi
  OBVIOUS
<1>1. Iniziali \subseteq Riga
  <2> DEFINE agganciata(n, o) == [Assente EXCEPT !.stato = "EMESSO", !.numero = n, !.origine = o]
             chiusa(n, s) == [stato |-> Derivato(s), numero |-> n, origine |-> "manuale",
                              statoEnte |-> s, nota |-> FALSE]
             A == {Assente, [Assente EXCEPT !.stato = "EMESSO"]}
             B == {agganciata(n, o) : n \in Numeri, o \in {"trasmesso", "manuale"}}
             C == {chiusa(n, s) : n \in Numeri, s \in {"Accettato", "Annullato"}}
  <2>1. A \subseteq Riga
    <3>1. [Assente EXCEPT !.stato = "EMESSO"] \in Riga
      BY TipiCostanti DEF Riga, StatiFir
    <3> QED
      BY <3>1, TipiCostanti
  <2>2. \A n \in Numeri, o \in {"trasmesso", "manuale"} : agganciata(n, o) \in Riga
    BY TipiCostanti DEF Riga, StatiFir, Origini
  <2>3. \A n \in Numeri, s \in {"Accettato", "Annullato"} : chiusa(n, s) \in Riga
    BY TipiCostanti DEF Riga, StatiEnte, Origini
  <2>4. Iniziali = A \cup B \cup C
    BY DEF Iniziali
  <2> HIDE DEF agganciata, chiusa, A
  <2>5. B \subseteq Riga /\ C \subseteq Riga
    BY <2>2, <2>3
  <2> HIDE DEF B, C
  <2> QED
    BY <2>1, <2>4, <2>5
<1>2. firs \in [Fir -> Riga]
  BY <1>1 DEF Init
<1>3. \A n \in Numeri : StatoIniziale(n) \in StatiEnte
  <2> TAKE n \in Numeri
  <2> DEFINE noti == {firs[f].statoEnte : f \in {g \in Fir : firs[g].numero = n}} \ {"ignoto"}
  <2>1. noti \subseteq StatiEnte
    BY <1>2 DEF Riga
  <2>2. StatoIniziale(n) = IF noti = {} THEN "InserimentoQuantita" ELSE CHOOSE s \in noti : TRUE
    BY DEF StatoIniziale
  <2> HIDE DEF noti
  <2> QED
    BY <2>1, <2>2 DEF StatiEnte
<1>4. ente \in [Numeri -> Formulario]
  BY <1>3 DEF Init, Formulario
<1>5. /\ req \in [Richieste -> Richiesta]
      /\ \A r \in Richieste : Completa(req[r])
  <2>1. "attesa" \in Fasi
    BY DEF Fasi
  <2>2. Ferma("attesa") \in Richiesta /\ Completa(Ferma("attesa"))
    BY <2>1, TipiCostanti DEF Ferma, Completa, Scelta, InAzione, Agganciata
  <2> QED
    BY <2>2 DEF Init
<1>6. raggiunti \in [Numeri -> SUBSET Terminali]
  BY DEF Init
<1>7. legami \in [Fir -> SUBSET Numeri]
  BY <1>2 DEF Init, Riga
<1>8. sospetti \subseteq Numeri /\ vecchie \subseteq Fir
  BY DEF Init
<1> QED
  BY <1>2, <1>4, <1>5, <1>6, <1>7, <1>8 DEF InvTipi, TypeOK

\* The types and the completeness of the records are inductive.
LEMMA TipiConservati == InvTipi /\ [Next]_vars => InvTipi'
<1> SUFFICES ASSUME InvTipi, [Next]_vars PROVE InvTipi'
  OBVIOUS
<1>1. CASE UNCHANGED vars
  BY <1>1 DEF vars, storia, InvTipi, TypeOK, Completa
<1>2. CASE Next
  BY <1>2, TipiEnte, TipiVisibilita, TipiAzioni DEF Next
<1> QED
  BY <1>1, <1>2

\* The types, whatever the FIRs, the formulari and the requests.
THEOREM TipiSempre == Spec => []TypeOK
<1>1. InvTipi => TypeOK
  BY DEF InvTipi
<1> QED
  BY <1>1, TipiIniziali, TipiConservati, PTL DEF Spec

-------------------------------------------------------------------------------
(* What a save writes.                                                         *)

\* The rows the use cases write over the row f, from the record of a request.
Scritta(q, f, riga) ==
  \/ /\ firs[f].stato = "assente"
     /\ riga = Aggancia([Assente EXCEPT !.stato = "BOZZA"], q.numero, "terzi")
  \/ /\ f = q.fir
     /\ q.fase = "acquisita"
     /\ riga = Aggancia(q.copia, q.numero, "manuale")
  \/ /\ f = q.fir
     /\ riga = Sgancia(q.copia)
  \/ /\ f = q.fir
     /\ q.fase \in {"letta", "notaLetta", "statoLetto"}
     /\ riga = ApplicaStato(q.copia, q.letto)
  \/ /\ f = q.fir
     /\ q.fase = "notaInviata"
     /\ q.transazione = "accolta"
     /\ q.copia.stato = "ANNULLATO"
     /\ riga = [q.copia EXCEPT !.nota = TRUE]

Salvata(r, f) ==
  /\ \E riga \in Riga : Scritta(req[r], f, riga) /\ Salva(f, req[r].copia, riga)
  /\ ente' = ente

\* A step leaves the table alone, or is the save of one row by one request.
LEMMA Salvataggi ==
  ASSUME InvTipi, Next
  PROVE  \/ UNCHANGED <<firs, legami, vecchie>>
         \/ \E r \in Richieste, f \in Fir : Salvata(r, f)
<1> USE DEF storia
<1> DEFINE Ferme == UNCHANGED <<firs, legami, vecchie>>
           Una == \E r \in Richieste, f \in Fir : Salvata(r, f)
<1>1. ASSUME NEW r \in Richieste PROVE req[r] \in Richiesta /\ Completa(req[r])
  BY DEF InvTipi, TypeOK
<1>2. ASSUME NEW r \in Richieste, NEW f \in Fir, SalvaAggancio(r, f) PROVE Una
  <2> DEFINE q == req[r]
  <2>1. q.numero \in Numeri /\ q.copia \in Riga
    BY <1>1, <1>2 DEF SalvaAggancio, Completa, Scelta, Richiesta
  <2>2. /\ Aggancia(q.copia, q.numero, "manuale") \in Riga
        /\ Aggancia([Assente EXCEPT !.stato = "BOZZA"], q.numero, "terzi") \in Riga
    BY <2>1, TipiCostanti, TipiRiga DEF Origini
  <2>3. CASE q.fir = Nessuno
    BY <1>2, <2>2, <2>3 DEF SalvaAggancio, Scritta, Salvata
  <2>4. CASE q.fir # Nessuno
    BY <1>2, <2>2, <2>4 DEF SalvaAggancio, Scritta, Salvata
  <2> QED
    BY <2>3, <2>4
<1>3. ASSUME NEW r \in Richieste, SalvaRilascio(r) PROVE Una
  <2>1. req[r].fir \in Fir /\ Sgancia(req[r].copia) \in Riga
    BY <1>1, <1>3, TipiRiga DEF SalvaRilascio, Completa, Richiesta
  <2> QED
    BY <1>3, <2>1 DEF SalvaRilascio, Scritta, Salvata
<1>4. ASSUME NEW r \in Richieste, SalvaAzioni(r) \/ SalvaFirma(r) PROVE Una
  <2> DEFINE q == req[r]
  <2>1. /\ q.fase \in {"letta", "notaLetta", "statoLetto"} /\ ente' = ente
        /\ Salva(q.fir, q.copia, ApplicaStato(q.copia, q.letto))
    BY <1>4 DEF SalvaAzioni, SalvaFirma
  <2>2. q.fir \in Fir /\ q.copia \in Riga /\ q.letto \in StatiEnte
    BY <1>1, <2>1 DEF Completa, InAzione, Richiesta
  <2>3. ApplicaStato(q.copia, q.letto) \in Riga
    BY <2>2, TipiRiga
  <2> QED
    BY <2>1, <2>2, <2>3 DEF Scritta, Salvata
<1>5. ASSUME NEW r \in Richieste, SalvaNota(r) PROVE Una
  <2>1. req[r].fir \in Fir /\ req[r].copia \in Riga
    BY <1>1, <1>5 DEF SalvaNota, Completa, InAzione, Richiesta
  <2>2. [req[r].copia EXCEPT !.nota = TRUE] \in Riga
    BY <2>1, TipiRiga
  <2> QED
    BY <1>5, <2>1, <2>2 DEF SalvaNota, Scritta, Salvata
<1>6. ASSUME NEW r \in Richieste,
             \/ \E n \in Numeri : Cerca(r, n)
             \/ \E f \in Fir \cup {Nessuno} : PreparaAcquisizione(r, f)
             \/ \E f \in Fir : CaricaRilascio(r, f) \/ \E uso \in Usi : CaricaAzioni(r, f, uso)
             \/ AcquisisciVisibilita(r) \/ RilasciaVisibilita(r) \/ PerdeRisposta(r)
             \/ Interrompe(r) \/ Accoglie(r) \/ Respinge(r)
      PROVE  Ferme
  BY <1>6 DEF Cerca, PreparaAcquisizione, CaricaRilascio, CaricaAzioni,
              AcquisisciVisibilita, RilasciaVisibilita, PerdeRisposta, Interrompe,
              Accoglie, Respinge
<1>7. ASSUME NEW r \in Richieste, LeggiAzioni(r) \/ CaricaFirma(r) \/ Firma(r) \/ LeggiStato(r)
      PROVE  Ferme
  BY <1>7 DEF LeggiAzioni, CaricaFirma, Firma, LeggiStato
<1>8. ASSUME NEW n \in Numeri, EnteAvanza(n) PROVE Ferme
  BY <1>8 DEF EnteAvanza
<1> HIDE DEF Ferme, Una
<1>9. Ferme \/ Una
  BY <1>2, <1>3, <1>4, <1>5, <1>6, <1>7, <1>8 DEF Next
<1> QED
  BY <1>9 DEF Ferme, Una

\* Whatever the copy, a save keeps ANNULLATO and 'Annullato', and takes a
\* delivered row elsewhere only from a copy that is no longer the row.
LEMMA RigaConservata ==
  ASSUME InvTipi, NEW r \in Richieste, NEW f \in Fir, Salvata(r, f), NEW g \in Fir
  PROVE  /\ firs[g].stato = "ANNULLATO" => firs'[g].stato = "ANNULLATO"
         /\ firs[g].statoEnte = "Annullato" => firs'[g].statoEnte = "Annullato"
         /\ firs[g].stato = "CONSEGNATO" /\ firs'[g].stato # "CONSEGNATO"
              => firs'[g].stato = "ANNULLATO" \/ g \in vecchie'
<1> DEFINE q == req[r]
<1>1. PICK riga \in Riga : Scritta(q, f, riga) /\ Salva(f, q.copia, riga)
  BY DEF Salvata
<1>2. firs \in [Fir -> Riga] /\ q.copia \in Riga /\ q.letto \in StatiEnte
  BY DEF InvTipi, TypeOK, Richiesta
<1>3. CASE g # f
  BY <1>1, <1>2, <1>3 DEF Salva
<1>4. CASE g = f
  <2>1. /\ firs'[g].stato = riga.stato
        /\ firs[g].statoEnte = "Annullato" => firs'[g].statoEnte = "Annullato"
    <3>1. firs'[g] = Conservata(f, riga)
      BY <1>1, <1>2, <1>4 DEF Salva
    <3> QED
      BY <1>1, <1>4, <3>1 DEF Conservata, Riga
  <2>2. firs[g].stato = "ANNULLATO" => riga.stato = "ANNULLATO"
    BY <1>1, <1>4 DEF Salva, Salvabile
  <2>3. CASE q.copia # firs[g]
    <3>1. g \in vecchie'
      BY <1>1, <1>4, <2>3 DEF Salva
    <3> QED
      BY <2>1, <2>2, <3>1
  <2>4. CASE q.copia = firs[g]
    <3>1. ASSUME firs[g].stato = "CONSEGNATO" PROVE riga.stato \in Terminali
      <4>1. Aggancia(q.copia, q.numero, "manuale").stato = q.copia.stato
        BY <1>2 DEF Aggancia, Riga
      <4>2. Sgancia(q.copia).stato = q.copia.stato
        BY <1>2 DEF Sgancia, Riga
      <4>3. ApplicaStato(q.copia, q.letto).stato \in Terminali
        BY <1>2, <2>4, <3>1 DEF ApplicaStato, Riga, Terminali
      <4>4. [q.copia EXCEPT !.nota = TRUE].stato = q.copia.stato
        BY <1>2 DEF Riga
      <4> QED
        BY <1>1, <1>4, <2>4, <3>1, <4>1, <4>2, <4>3, <4>4 DEF Scritta, Terminali
    <3> QED
      BY <2>1, <2>2, <3>1 DEF Terminali
  <2> QED
    BY <2>3, <2>4
<1> QED
  BY <1>3, <1>4

\* TerminaliConservati, whatever the rows, the formulari and the requests: the
\* guard of save and conservaAnnullamentoEnte are enough, without the states of
\* the ente.
THEOREM TerminaliSempreConservati == Spec => TerminaliConservati
<1> DEFINE Passo == \A f \in Fir :
             /\ firs[f].stato = "ANNULLATO" => firs'[f].stato = "ANNULLATO"
             /\ firs[f].statoEnte = "Annullato" => firs'[f].statoEnte = "Annullato"
             /\ firs[f].stato = "CONSEGNATO" /\ firs'[f].stato # "CONSEGNATO"
                  => firs'[f].stato = "ANNULLATO" \/ f \in vecchie'
<1>1. InvTipi /\ [Next]_vars => [Passo]_vars
  <2> SUFFICES ASSUME InvTipi, Next PROVE Passo
    BY DEF vars
  <2>1. CASE UNCHANGED <<firs, legami, vecchie>>
    BY <2>1
  <2>2. CASE \E r \in Richieste, f \in Fir : Salvata(r, f)
    BY <2>2, RigaConservata
  <2> QED
    BY <2>1, <2>2, Salvataggi
<1> QED
  BY <1>1, TipiIniziali, TipiConservati, PTL DEF Spec, TerminaliConservati

-------------------------------------------------------------------------------
(* Where an outcome comes from.  The operators take the histories and the ente *)
(* as parameters, so that before and after a step they can be compared.        *)

\* What a row says, against the formulari it has been linked to; and a row that
\* is not there says nothing.
Spiegata(riga, suoi, rag, en) ==
  /\ riga.numero # Nessuno => riga.numero \in suoi
  /\ riga.stato \in Terminali => \E n \in suoi : riga.stato \in rag[n]
  /\ riga.statoEnte \in {"Accettato", "Annullato"} =>
       \E n \in suoi : Derivato(riga.statoEnte) \in rag[n]
  /\ riga.nota => \E n \in suoi : en[n].nota
  /\ riga.stato = "assente" => riga.numero = Nessuno

\* A state read from the ente.
Autentico(s, suoi, rag) ==
  Derivato(s) \in Terminali => \E n \in suoi : Derivato(s) \in rag[n]

\* What a request carries to its save: an explained copy, the formulario it
\* started from, a state that was reached, a note the ente has; the copy to be
\* linked is free, the one to be released has the formulario released.
Fondata(q, leg, rag, en) ==
  /\ q.fir \in Fir => Spiegata(q.copia, leg[q.fir], rag, en)
  /\ q.fase \in InAzione => q.numero \in leg[q.fir]
  /\ q.fase \in {"letta", "notaLetta", "statoLetto"} =>
       Autentico(q.letto, leg[q.fir], rag)
  /\ q.fase = "notaInviata" =>
       /\ q.operazione = "NoteAnnullamento"
       /\ q.transazione = "accolta" => en[q.numero].nota
  /\ q.fase \in {"pronta", "acquisita"} /\ q.fir \in Fir =>
       q.copia.numero = Nessuno /\ q.copia.stato # "assente"
  /\ q.fase \in {"daRilasciare", "rilasciata"} => q.copia.numero = q.numero

\* EsitoDellEnte is not inductive: a save writes a copy taken long before, and a
\* state read from the ente between the two.
InvEsito ==
  /\ \A f \in Fir : Spiegata(firs[f], legami[f], raggiunti, ente)
  /\ \A r \in Richieste : Fondata(req[r], legami, raggiunti, ente)
  /\ \A n \in Numeri : Derivato(ente[n].stato) \in Terminali =>
                         Derivato(ente[n].stato) \in raggiunti[n]

\* Links, final states and notes are never taken back.
Crescono(leg, leg1, rag, rag1, en, en1) ==
  /\ \A f \in Fir : leg[f] \subseteq leg1[f] /\ leg1[f] \subseteq Numeri
  /\ \A n \in Numeri : rag[n] \subseteq rag1[n] /\ (en[n].nota => en1[n].nota)

\* A row explained stays so when there is more to explain it with ...
LEMMA SpiegataCresce ==
  ASSUME NEW riga, NEW suoi, NEW suoi1, NEW rag, NEW rag1, NEW en, NEW en1,
         suoi \subseteq suoi1, suoi \subseteq Numeri,
         \A n \in Numeri : rag[n] \subseteq rag1[n] /\ (en[n].nota => en1[n].nota),
         Spiegata(riga, suoi, rag, en)
  PROVE  Spiegata(riga, suoi1, rag1, en1)
BY DEF Spiegata

\* ... and so does what a request carries.
LEMMA FondataCresce ==
  ASSUME NEW q \in Richiesta, Completa(q),
         NEW leg, NEW leg1, NEW rag, NEW rag1, NEW en, NEW en1,
         Crescono(leg, leg1, rag, rag1, en, en1), Fondata(q, leg, rag, en)
  PROVE  Fondata(q, leg1, rag1, en1)
<1>1. q.fir \in Fir => leg[q.fir] \subseteq leg1[q.fir] /\ leg[q.fir] \subseteq Numeri
  BY DEF Crescono
<1>2. \A n \in Numeri : rag[n] \subseteq rag1[n] /\ (en[n].nota => en1[n].nota)
  BY DEF Crescono
<1>3. q.fir \in Fir => Spiegata(q.copia, leg1[q.fir], rag1, en1)
  BY <1>1, <1>2, SpiegataCresce DEF Fondata
<1>4. q.fase \in InAzione => q.fir \in Fir /\ q.numero \in Numeri
  BY DEF Completa
<1>5. q.fase \in {"letta", "notaLetta", "statoLetto"} =>
        Autentico(q.letto, leg1[q.fir], rag1)
  BY <1>1, <1>2, <1>4 DEF Fondata, Autentico, InAzione
<1>6. q.fase = "notaInviata" /\ q.transazione = "accolta" => en1[q.numero].nota
  BY <1>2, <1>4 DEF Fondata, InAzione
<1>7. q.fase \in InAzione => q.numero \in leg1[q.fir]
  BY <1>1, <1>4 DEF Fondata
<1> QED
  BY <1>3, <1>5, <1>6, <1>7 DEF Fondata

\* The same across a step.
Crescita == Crescono(legami, legami', raggiunti, raggiunti', ente, ente')

\* What the ente does to its formulari.
LEMMA PassiDellEnte ==
  ASSUME InvTipi, Next
  PROVE  /\ \A n \in Numeri : ente[n].nota => ente'[n].nota
         /\ \A n \in Numeri :
              \/ ente'[n].stato = ente[n].stato
              \/ Derivato(ente'[n].stato) \in Terminali =>
                   Derivato(ente'[n].stato) \in raggiunti'[n]
         /\ \A n \in Numeri : raggiunti[n] \subseteq raggiunti'[n]
<1> USE DEF storia
<1>t. /\ ente \in [Numeri -> Formulario]
      /\ raggiunti \in [Numeri -> SUBSET Terminali]
      /\ \A r \in Richieste : req[r] \in Richiesta /\ Completa(req[r])
  BY DEF InvTipi, TypeOK
<1> DEFINE Tesi ==
      /\ \A n \in Numeri : ente[n].nota => ente'[n].nota
      /\ \A n \in Numeri :
           \/ ente'[n].stato = ente[n].stato
           \/ Derivato(ente'[n].stato) \in Terminali =>
                Derivato(ente'[n].stato) \in raggiunti'[n]
      /\ \A n \in Numeri : raggiunti[n] \subseteq raggiunti'[n]
<1>u. ASSUME ente' = ente, raggiunti' = raggiunti PROVE Tesi
  BY <1>u
<1>v. ASSUME NEW n, NEW b, ente' = [ente EXCEPT ![n].visibile = b], raggiunti' = raggiunti
      PROVE  Tesi
  <2>1. \A m \in Numeri : ente'[m].nota = ente[m].nota /\ ente'[m].stato = ente[m].stato
    BY <1>t, <1>v DEF Formulario
  <2> QED
    BY <1>v, <2>1
<1>w. ASSUME NEW n \in Numeri, NEW form \in Formulario, ente[n].nota => form.nota,
             ente' = [ente EXCEPT ![n] = form], Raggiunto(n)
      PROVE  Tesi
  <2>1. \A m \in Numeri : ente'[m] = IF m = n THEN form ELSE ente[m]
    BY <1>t, <1>w
  <2>2. \A m \in Numeri : raggiunti'[m] = IF m = n
          THEN raggiunti[n] \cup ({Derivato(form.stato)} \cap Terminali) ELSE raggiunti[m]
    BY <1>t, <1>w, <2>1 DEF Raggiunto
  <2> QED
    BY <1>w, <2>1, <2>2
<1>1. ASSUME NEW r \in Richieste, Accoglie(r) PROVE Tesi
  <2> DEFINE n == NumeroDi(req[r])
             o == req[r].operazione
  <2>1. n \in Numeri /\ o \in Operazioni
    BY <1>t, <1>1 DEF Accoglie, Completa, Richiesta
  <2>2. Effetto(ente[n], o) \in Formulario
    BY <1>t, <2>1, TipiCostanti
  <2>3. ente[n].nota => Effetto(ente[n], o).nota
    BY <1>t, <2>1 DEF Effetto, Formulario
  <2>4. ente' = [ente EXCEPT ![n] = Effetto(ente[n], o)] /\ Raggiunto(n)
    BY <1>1 DEF Accoglie
  <2> HIDE DEF n, o, Tesi
  <2> QED
    BY <2>1, <2>2, <2>3, <2>4, <1>w
<1>2. ASSUME NEW n \in Numeri, EnteAvanza(n) PROVE Tesi
  <2>1. PICK s \in StatiEnte : ente' = [ente EXCEPT ![n].stato = s]
    BY <1>2 DEF EnteAvanza, StatiEnte
  <2> DEFINE form == [ente[n] EXCEPT !.stato = s]
  <2>2. form \in Formulario /\ (ente[n].nota => form.nota)
    BY <1>t DEF Formulario
  <2>3. ente' = [ente EXCEPT ![n] = form] /\ Raggiunto(n)
    BY <1>2, <2>1 DEF EnteAvanza
  <2> HIDE DEF form, Tesi
  <2> QED
    BY <2>2, <2>3, <1>w
<1>3. ASSUME NEW r \in Richieste,
             AcquisisciVisibilita(r) \/ RilasciaVisibilita(r) \/ PerdeRisposta(r)
      PROVE  Tesi
  <2>1. \/ ente' = ente
        \/ \E n, b : ente' = [ente EXCEPT ![n].visibile = b]
    BY <1>3 DEF AcquisisciVisibilita, RilasciaVisibilita, PerdeRisposta
  <2>2. raggiunti' = raggiunti
    BY <1>3 DEF AcquisisciVisibilita, RilasciaVisibilita, PerdeRisposta
  <2> HIDE DEF Tesi
  <2> QED
    BY <2>1, <2>2, <1>u, <1>v
<1>4. ASSUME NEW r \in Richieste,
             \/ \E n \in Numeri : Cerca(r, n)
             \/ \E f \in Fir \cup {Nessuno} : PreparaAcquisizione(r, f)
             \/ \E f \in Fir : \/ SalvaAggancio(r, f) \/ CaricaRilascio(r, f)
                               \/ \E uso \in Usi : CaricaAzioni(r, f, uso)
             \/ Interrompe(r) \/ Respinge(r)
      PROVE  ente' = ente /\ raggiunti' = raggiunti
  BY <1>4 DEF Cerca, PreparaAcquisizione, SalvaAggancio, Salva, CaricaRilascio,
              CaricaAzioni, Interrompe, Respinge
<1>5. ASSUME NEW r \in Richieste,
             \/ SalvaRilascio(r) \/ LeggiAzioni(r) \/ SalvaAzioni(r) \/ CaricaFirma(r)
             \/ Firma(r) \/ LeggiStato(r) \/ SalvaFirma(r) \/ SalvaNota(r)
      PROVE  ente' = ente /\ raggiunti' = raggiunti
  BY <1>5 DEF SalvaRilascio, LeggiAzioni, SalvaAzioni, CaricaFirma, Firma, LeggiStato,
              SalvaFirma, SalvaNota, Salva
<1> HIDE DEF Tesi
<1>6. Tesi
  BY <1>u, <1>1, <1>2, <1>3, <1>4, <1>5 DEF Next
<1> QED
  BY <1>6 DEF Tesi

\* Every step only adds to the histories.
LEMMA CrescitaSempre ==
  ASSUME InvTipi, Next
  PROVE  Crescita
<1>1. legami' \in [Fir -> SUBSET Numeri]
  BY TipiConservati DEF InvTipi, TypeOK
<1>2. \A f \in Fir : legami[f] \subseteq legami'[f]
  <2>1. CASE UNCHANGED <<firs, legami, vecchie>>
    BY <2>1
  <2>2. ASSUME NEW r \in Richieste, NEW g \in Fir, Salvata(r, g)
        PROVE  \A f \in Fir : legami[f] \subseteq legami'[f]
    BY <2>2 DEF Salvata, Salva, InvTipi, TypeOK
  <2> QED
    BY <2>1, <2>2, Salvataggi
<1> QED
  BY <1>1, <1>2, PassiDellEnte DEF Crescita, Crescono

\* A row written from a founded request says no more than the request carries.
LEMMA ScrittaSpiegata ==
  ASSUME InvTipi, InvEsito, NEW r \in Richieste, NEW f \in Fir, NEW riga \in Riga,
         Scritta(req[r], f, riga)
  PROVE  Spiegata(riga, legami[f] \cup ({riga.numero} \ {Nessuno}), raggiunti, ente)
<1> DEFINE q == req[r]
           suoi == legami[f] \cup ({riga.numero} \ {Nessuno})
<1>1. /\ q \in Richiesta /\ Completa(q) /\ Fondata(q, legami, raggiunti, ente)
      /\ q.copia \in Riga /\ q.letto \in StatiEnte
      /\ legami[f] \subseteq Numeri
  BY DEF InvTipi, TypeOK, InvEsito, Richiesta
<1>2. f = q.fir => Spiegata(q.copia, legami[f], raggiunti, ente)
  BY <1>1 DEF Fondata
<1>3. riga.numero # Nessuno => riga.numero \in suoi
  OBVIOUS
<1>4. legami[f] \subseteq suoi
  OBVIOUS
<1> HIDE DEF suoi
<1>5. CASE riga = Aggancia([Assente EXCEPT !.stato = "BOZZA"], q.numero, "terzi")
  <2>1. riga.stato = "BOZZA" /\ riga.statoEnte = "ignoto" /\ ~riga.nota
    BY <1>5 DEF Aggancia, Assente
  <2> QED
    BY <2>1, <1>3 DEF Spiegata, Terminali, suoi
<1>6. CASE f = q.fir /\ (\/ q.fase = "acquisita" /\ riga = Aggancia(q.copia, q.numero, "manuale")
                         \/ riga = Sgancia(q.copia))
  <2>1. /\ riga.stato = q.copia.stato /\ riga.statoEnte = q.copia.statoEnte
        /\ riga.nota = q.copia.nota
    BY <1>1, <1>6 DEF Aggancia, Sgancia, Riga
  <2>2. riga.stato = "assente" => riga.numero = Nessuno
    <3>1. Sgancia(q.copia).numero = Nessuno
      BY <1>1 DEF Sgancia, Riga
    <3>2. q.fase = "acquisita" => q.copia.stato # "assente"
      BY <1>1, <1>6 DEF Fondata
    <3> QED
      BY <2>1, <3>1, <3>2, <1>6
  <2> QED
    BY <2>1, <2>2, <1>2, <1>3, <1>4, <1>6 DEF Spiegata, suoi
<1>7. CASE /\ f = q.fir /\ q.fase \in {"letta", "notaLetta", "statoLetto"}
           /\ riga = ApplicaStato(q.copia, q.letto)
  <2>1. /\ \/ riga.stato = q.copia.stato /\ q.copia.stato \in Terminali
           \/ riga.stato = Derivato(q.letto)
        /\ riga.statoEnte = q.letto /\ riga.nota = q.copia.nota
    BY <1>1, <1>7 DEF ApplicaStato, Riga
  <2>2. Autentico(q.letto, legami[f], raggiunti)
    BY <1>1, <1>7 DEF Fondata
  <2>3. riga.stato \in Terminali => \E n \in suoi : riga.stato \in raggiunti[n]
    BY <2>1, <2>2, <1>2, <1>4, <1>7 DEF Spiegata, Autentico
  <2>4. riga.statoEnte \in {"Accettato", "Annullato"} =>
          \E n \in suoi : Derivato(riga.statoEnte) \in raggiunti[n]
    BY <2>1, <2>2, <1>4 DEF Autentico, Derivato, Terminali
  <2>5. riga.nota => \E n \in suoi : ente[n].nota
    BY <2>1, <1>2, <1>4, <1>7 DEF Spiegata
  <2>6. riga.stato # "assente"
    BY <2>1 DEF Terminali, Derivato
  <2> QED
    BY <2>3, <2>4, <2>5, <2>6, <1>3 DEF Spiegata, suoi
<1>8. CASE /\ f = q.fir /\ q.fase = "notaInviata" /\ q.transazione = "accolta"
           /\ riga = [q.copia EXCEPT !.nota = TRUE]
  <2>1. riga.stato = q.copia.stato /\ riga.statoEnte = q.copia.statoEnte
    BY <1>1, <1>8 DEF Riga
  <2>2. q.numero \in suoi /\ ente[q.numero].nota
    BY <1>1, <1>4, <1>8 DEF Fondata, InAzione
  <2> QED
    BY <2>1, <2>2, <1>2, <1>3, <1>4, <1>8 DEF Spiegata, suoi
<1> QED
  BY <1>5, <1>6, <1>7, <1>8 DEF Scritta

\* The rows stay explained.
LEMMA RigheSpiegate ==
  ASSUME InvTipi, InvEsito, Next
  PROVE  \A f \in Fir : Spiegata(firs'[f], legami'[f], raggiunti', ente')
<1>1. /\ \A n \in Numeri : raggiunti[n] \subseteq raggiunti'[n] /\ (ente[n].nota => ente'[n].nota)
      /\ \A f \in Fir : legami[f] \subseteq legami'[f] /\ legami'[f] \subseteq Numeri
  BY CrescitaSempre DEF Crescita, Crescono
<1>2. \A f \in Fir : Spiegata(firs[f], legami[f], raggiunti, ente)
  BY DEF InvEsito
<1>3. \A f \in Fir : firs'[f] = firs[f] => Spiegata(firs'[f], legami'[f], raggiunti', ente')
  <2> TAKE f \in Fir
  <2>1. legami[f] \subseteq legami'[f] /\ legami[f] \subseteq Numeri
    BY <1>1
  <2>2. Spiegata(firs[f], legami'[f], raggiunti', ente')
    BY <1>1, <1>2, <2>1, SpiegataCresce
  <2> QED
    BY <2>2
<1>4. CASE UNCHANGED <<firs, legami, vecchie>>
  BY <1>3, <1>4
<1>5. ASSUME NEW r \in Richieste, NEW f \in Fir, Salvata(r, f)
      PROVE  \A g \in Fir : Spiegata(firs'[g], legami'[g], raggiunti', ente')
  <2>1. PICK riga \in Riga : Scritta(req[r], f, riga) /\ Salva(f, req[r].copia, riga)
    BY <1>5 DEF Salvata
  <2>2. /\ firs' = [firs EXCEPT ![f] = Conservata(f, riga)]
        /\ legami' = [legami EXCEPT ![f] = @ \cup ({riga.numero} \ {Nessuno})]
        /\ firs \in [Fir -> Riga] /\ legami \in [Fir -> SUBSET Numeri]
    BY <2>1 DEF Salva, InvTipi, TypeOK
  <2>3. \A g \in Fir \ {f} : Spiegata(firs'[g], legami'[g], raggiunti', ente')
    BY <1>3, <2>2
  <2>4. Spiegata(riga, legami'[f], raggiunti, ente)
    <3>1. legami'[f] = legami[f] \cup ({riga.numero} \ {Nessuno})
      BY <2>2
    <3> QED
      BY <2>1, <3>1, ScrittaSpiegata
  <2>5. Spiegata(riga, legami'[f], raggiunti', ente')
    BY <1>1, <2>4, SpiegataCresce
  <2>6. Spiegata(firs[f], legami'[f], raggiunti', ente')
    <3>1. legami[f] \subseteq legami'[f] /\ legami[f] \subseteq Numeri
      BY <1>1
    <3> QED
      BY <1>1, <1>2, <3>1, SpiegataCresce
  <2>7. Spiegata(firs'[f], legami'[f], raggiunti', ente')
    <3>1. firs'[f] = Conservata(f, riga)
      BY <2>2
    <3>2. CASE firs[f].statoEnte = "Annullato"
      <4>1. /\ firs'[f].statoEnte = firs[f].statoEnte /\ firs'[f].stato = riga.stato
            /\ firs'[f].numero = riga.numero /\ firs'[f].nota = riga.nota
        BY <3>1, <3>2 DEF Conservata, Riga
      <4> QED
        BY <4>1, <2>5, <2>6 DEF Spiegata
    <3>3. CASE firs[f].statoEnte # "Annullato"
      BY <3>1, <3>3, <2>5 DEF Conservata
    <3> QED
      BY <3>2, <3>3
  <2> QED
    BY <2>3, <2>7
<1> QED
  BY <1>4, <1>5, Salvataggi

\* A request that has ended, or not begun, carries nothing.
LEMMA FermaFondata ==
  ASSUME NEW fase \in {"attesa", "abbandonata", "finita"}, NEW leg, NEW rag, NEW en
  PROVE  Fondata(Ferma(fase), leg, rag, en)
BY FormulariEnteAssumption DEF Fondata, Ferma, InAzione

\* One request goes on, and the others are as they were.
LEMMA PassaFondata ==
  ASSUME InvTipi, InvEsito, Next, NEW r \in Richieste, NEW p, Passa(r, p),
         Fondata(p, legami', raggiunti', ente')
  PROVE  \A s \in Richieste : Fondata(req'[s], legami', raggiunti', ente')
<1>1. /\ req \in [Richieste -> Richiesta]
      /\ \A s \in Richieste : Completa(req[s])
  BY DEF InvTipi, TypeOK
<1>2. \A s \in Richieste : Fondata(req[s], legami', raggiunti', ente')
  <2> TAKE s \in Richieste
  <2>1. /\ req[s] \in Richiesta /\ Completa(req[s])
        /\ Fondata(req[s], legami, raggiunti, ente)
    BY <1>1 DEF InvEsito
  <2>2. Crescono(legami, legami', raggiunti, raggiunti', ente, ente')
    BY CrescitaSempre DEF Crescita
  <2> QED
    BY <2>1, <2>2, FondataCresce
<1>3. \A s \in Richieste : req'[s] = req[s] \/ req'[s] = p
  BY <1>1 DEF Passa
<1> QED
  BY <1>2, <1>3

\* The requests stay founded.
LEMMA RichiesteFondate ==
  ASSUME InvTipi, InvEsito, Next
  PROVE  \A s \in Richieste : Fondata(req'[s], legami', raggiunti', ente')
<1> USE DEF storia
<1> DEFINE Tesi == \A s \in Richieste : Fondata(req'[s], legami', raggiunti', ente')
           F(p) == Fondata(p, legami', raggiunti', ente')
<1>t. ASSUME NEW r \in Richieste
      PROVE  req[r] \in Richiesta /\ Completa(req[r])
  BY DEF InvTipi, TypeOK
<1>c. Crescono(legami, legami', raggiunti, raggiunti', ente, ente')
  BY CrescitaSempre DEF Crescita
<1>d. ASSUME NEW r \in Richieste PROVE F(req[r])
  BY <1>t, <1>c, FondataCresce DEF InvEsito
<1>r. \A f \in Fir : Spiegata(firs'[f], legami'[f], raggiunti', ente')
  BY RigheSpiegate
<1>p. ASSUME NEW r \in Richieste, NEW p, Passa(r, p), F(p) PROVE Tesi
  BY <1>p, PassaFondata
\* The state read is the state of the formulario of the copy.
<1>a. ASSUME NEW f \in Fir, NEW n \in legami[f], UNCHANGED <<ente, firs, storia>>
      PROVE  Autentico(ente[n].stato, legami'[f], raggiunti')
  BY <1>a DEF InvEsito, Autentico, InvTipi, TypeOK
<1>1. ASSUME NEW r \in Richieste, NEW n \in Numeri, Cerca(r, n) PROVE Tesi
  <2> DEFINE q == req[r]
             p == [q EXCEPT !.uso = "acquisisci", !.fase = "cercata", !.numero = n,
                            !.vista = ente[n].visibile]
  <2>1. Passa(r, p)
    BY <1>1 DEF Cerca
  <2>2. p.fase = "cercata" /\ p.fir = q.fir /\ p.copia = q.copia
    BY <1>t DEF Richiesta
  <2> HIDE DEF p
  <2>3. F(p)
    BY <1>d, <2>2 DEF Fondata, InAzione
  <2> QED
    BY <2>1, <2>3, <1>p
<1>2. ASSUME NEW r \in Richieste, NEW f \in Fir \cup {Nessuno}, PreparaAcquisizione(r, f)
      PROVE  Tesi
  <2> DEFINE q == req[r]
             copia == IF f = Nessuno THEN Assente ELSE firs[f]
             p == [q EXCEPT !.fase = "pronta", !.fir = f, !.copia = copia]
  <2>1. Passa(r, p) /\ firs' = firs
    BY <1>2 DEF PreparaAcquisizione
  <2>2. f \in Fir => /\ copia = firs'[f]
                    /\ copia.numero = Nessuno /\ copia.stato # "assente"
    BY <1>2, <2>1, FormulariEnteAssumption DEF PreparaAcquisizione
  <2> HIDE DEF copia
  <2>3. p.fase = "pronta" /\ p.fir = f /\ p.copia = copia
    BY <1>t DEF Richiesta
  <2> HIDE DEF p
  <2>4. F(p)
    BY <1>r, <2>2, <2>3 DEF Fondata, InAzione
  <2> QED
    BY <2>1, <2>4, <1>p
<1>3. ASSUME NEW r \in Richieste, AcquisisciVisibilita(r) \/ RilasciaVisibilita(r) PROVE Tesi
  <2> DEFINE q == req[r]
             pa == [q EXCEPT !.fase = "acquisita", !.vista = FALSE]
             pr == [q EXCEPT !.fase = "rilasciata"]
  <2>1. /\ AcquisisciVisibilita(r) => q.fase = "pronta" /\ Passa(r, pa)
        /\ RilasciaVisibilita(r) => q.fase = "daRilasciare" /\ Passa(r, pr)
    BY DEF AcquisisciVisibilita, RilasciaVisibilita
  <2>2. /\ pa.fase = "acquisita" /\ pa.fir = q.fir /\ pa.copia = q.copia
        /\ pr.fase = "rilasciata" /\ pr.fir = q.fir /\ pr.copia = q.copia
        /\ pr.numero = q.numero
    BY <1>t DEF Richiesta
  <2> HIDE DEF pa, pr
  <2>3. (q.fase = "pronta" => F(pa)) /\ (q.fase = "daRilasciare" => F(pr))
    BY <1>d, <2>2 DEF Fondata, InAzione
  <2> QED
    BY <1>3, <2>1, <2>3, <1>p
<1>4. ASSUME NEW r \in Richieste,
             \/ \E f \in Fir : SalvaAggancio(r, f)
             \/ SalvaRilascio(r) \/ SalvaNota(r) \/ PerdeRisposta(r)
      PROVE  Tesi
  <2>1. Passa(r, Ferma("finita"))
    BY <1>4 DEF SalvaAggancio, SalvaRilascio, SalvaNota, PerdeRisposta
  <2> QED
    BY <2>1, <1>p, FermaFondata
<1>5. ASSUME NEW r \in Richieste, NEW f \in Fir,
             CaricaRilascio(r, f) \/ \E uso \in Usi : CaricaAzioni(r, f, uso)
      PROVE  Tesi
  <2>1. PICK uso \in Usi, fase \in {"daRilasciare", "caricata"} :
          Passa(r, [req[r] EXCEPT !.uso = uso, !.fase = fase, !.fir = f,
                                  !.numero = firs[f].numero, !.copia = firs[f]])
    BY <1>5 DEF CaricaRilascio, CaricaAzioni, Usi
  <2> DEFINE p == [req[r] EXCEPT !.uso = uso, !.fase = fase, !.fir = f,
                                 !.numero = firs[f].numero, !.copia = firs[f]]
  <2>2. firs' = firs /\ firs[f].numero # Nessuno
    BY <1>5 DEF CaricaRilascio, CaricaAzioni
  <2>3. p.fase = fase /\ p.fir = f /\ p.numero = firs[f].numero /\ p.copia = firs[f]
    BY <1>t DEF Richiesta
  <2> HIDE DEF p
  <2>4. F(p)
    BY <1>r, <2>2, <2>3 DEF Fondata, Spiegata, InAzione
  <2> QED
    BY <2>1, <2>4, <1>p DEF p
<1>6. ASSUME NEW r \in Richieste, LeggiAzioni(r) PROVE Tesi
  <2> DEFINE q == req[r]
             form == ente[q.copia.numero]
             fase == IF q.fase = "caricata" THEN "letta" ELSE "notaLetta"
             off == q.uso # "azioni" /\ Richiesto(q) \in Offerte(form)
             p == [q EXCEPT !.fase = fase, !.letto = form.stato, !.offerta = off]
  <2>1. /\ q.fase \in {"caricata", "annullata"} /\ Passa(r, p)
        /\ UNCHANGED <<ente, firs, storia>>
    BY <1>6 DEF LeggiAzioni
  <2>2. q.fir \in Fir /\ q.copia.numero \in legami[q.fir]
    BY <1>t, <2>1, FormulariEnteAssumption
    DEF InvEsito, Fondata, Spiegata, Completa, InAzione, Agganciata
  <2>3. Autentico(form.stato, legami'[q.fir], raggiunti')
    BY <1>a, <2>1, <2>2
  <2>4. fase \in {"letta", "notaLetta"}
    OBVIOUS
  <2> HIDE DEF form, off, fase
  <2>5. /\ p.fase = fase /\ p.letto = form.stato /\ p.fir = q.fir /\ p.copia = q.copia
        /\ p.numero = q.numero
    BY <1>t DEF Richiesta
  <2> HIDE DEF p
  <2>6. F(p)
    BY <1>d, <2>1, <2>3, <2>4, <2>5 DEF Fondata, InAzione
  <2> QED
    BY <2>1, <2>6, <1>p
<1>7. ASSUME NEW r \in Richieste, SalvaAzioni(r) PROVE Tesi
  <2> DEFINE q == req[r]
             nota == q.fase = "notaLetta"
             fase == IF nota THEN "notaInviata" ELSE "inviata"
             fe == Ferma(fase)
             op == Richiesto(q)
             copia == IF nota THEN q.copia ELSE Assente
             p == [fe EXCEPT !.uso = q.uso, !.fir = q.fir, !.numero = q.numero,
                     !.copia = copia, !.transazione = "inCorso", !.operazione = op]
  <2>1. /\ q.fase \in {"letta", "notaLetta"}
        /\ Passa(r, IF ~q.offerta THEN Ferma("finita") ELSE p)
    BY <1>7 DEF SalvaAzioni
  <2>2. /\ p.fase = fase /\ p.fir = q.fir /\ p.copia = copia /\ p.numero = q.numero
        /\ p.transazione = "inCorso" /\ p.operazione = op
    BY DEF Ferma
  <2>3. CASE q.fase = "notaLetta"
    <3>1. fase = "notaInviata" /\ copia = q.copia
      BY <2>3
    <3>2. op = "NoteAnnullamento"
      BY <2>3 DEF Richiesto
    <3> HIDE DEF p, copia, op, fase
    <3>3. F(p)
      BY <1>d, <2>1, <2>2, <3>1, <3>2 DEF Fondata, InAzione
    <3> QED
      BY <2>1, <3>3, <1>p, FermaFondata
  <2>4. CASE q.fase # "notaLetta"
    <3>1. fase = "inviata" /\ copia = Assente
      BY <2>4
    <3>2. \A suoi : Spiegata(Assente, suoi, raggiunti', ente')
      BY DEF Spiegata, Assente, Terminali
    <3> HIDE DEF p, copia, op, fase
    <3>3. F(p)
      BY <1>d, <2>1, <2>2, <3>1, <3>2 DEF Fondata, InAzione
    <3> QED
      BY <2>1, <3>3, <1>p, FermaFondata
  <2> QED
    BY <2>3, <2>4
<1>8. ASSUME NEW r \in Richieste, CaricaFirma(r) PROVE Tesi
  <2> DEFINE q == req[r]
             p == [q EXCEPT !.fase = "daFirmare", !.transazione = "nessuna",
                            !.copia = firs[q.fir]]
  <2>1. q.fase = "inviata" /\ Passa(r, p) /\ firs' = firs
    BY <1>8 DEF CaricaFirma
  <2>2. /\ p.fase = "daFirmare" /\ p.fir = q.fir /\ p.copia = firs[q.fir]
        /\ p.numero = q.numero
    BY <1>t DEF Richiesta
  <2> HIDE DEF p
  <2>3. F(p)
    BY <1>d, <1>r, <2>1, <2>2 DEF Fondata, InAzione
  <2> QED
    BY <2>1, <2>3, <1>p
<1>9. ASSUME NEW r \in Richieste, Firma(r) PROVE Tesi
  <2> DEFINE q == req[r]
             p == [q EXCEPT !.fase = "firmata", !.transazione = "inCorso",
                            !.operazione = "AcquisizioneFirma"]
  <2>1. q.fase = "daFirmare" /\ Passa(r, p)
    BY <1>9 DEF Firma
  <2>2. /\ p.fase = "firmata" /\ p.fir = q.fir /\ p.copia = q.copia
        /\ p.numero = q.numero
    BY <1>t DEF Richiesta
  <2> HIDE DEF p
  <2>3. F(p)
    BY <1>d, <2>1, <2>2 DEF Fondata, InAzione
  <2> QED
    BY <2>1, <2>3, <1>p
<1>10. ASSUME NEW r \in Richieste, LeggiStato(r) PROVE Tesi
  <2> DEFINE q == req[r]
             s == ente[q.copia.numero].stato
             p == [q EXCEPT !.fase = "statoLetto", !.transazione = "nessuna",
                            !.operazione = "Annulla", !.letto = s]
  <2>1. q.fase = "firmata" /\ Passa(r, p) /\ UNCHANGED <<ente, firs, storia>>
    BY <1>10 DEF LeggiStato
  <2>2. q.fir \in Fir /\ q.copia.numero \in legami[q.fir]
    BY <1>t, <2>1, FormulariEnteAssumption
    DEF InvEsito, Fondata, Spiegata, Completa, InAzione, Agganciata
  <2>3. Autentico(s, legami'[q.fir], raggiunti')
    BY <1>a, <2>1, <2>2
  <2> HIDE DEF s
  <2>4. /\ p.fase = "statoLetto" /\ p.letto = s /\ p.fir = q.fir /\ p.copia = q.copia
        /\ p.numero = q.numero
    BY <1>t DEF Richiesta
  <2> HIDE DEF p
  <2>5. F(p)
    BY <1>d, <2>1, <2>3, <2>4 DEF Fondata, InAzione
  <2> QED
    BY <2>1, <2>5, <1>p
<1>11. ASSUME NEW r \in Richieste, SalvaFirma(r) PROVE Tesi
  <2> DEFINE q == req[r]
             copia == firs'[q.fir]
             p == [q EXCEPT !.fase = "annullata", !.copia = copia]
  <2>1. q.fase = "statoLetto" /\ (Passa(r, p) \/ Passa(r, Ferma("finita")))
    BY <1>11 DEF SalvaFirma
  <2> HIDE DEF copia
  <2>2. /\ p.fase = "annullata" /\ p.fir = q.fir /\ p.copia = copia
        /\ p.numero = q.numero
    BY <1>t DEF Richiesta
  <2> HIDE DEF p
  <2>3. F(p)
    BY <1>d, <1>r, <2>1, <2>2 DEF Fondata, InAzione, copia
  <2> QED
    BY <2>1, <2>3, <1>p, FermaFondata
<1>12. ASSUME NEW r \in Richieste, Interrompe(r) PROVE Tesi
  <2>1. Passa(r, Finita(req[r]))
    BY <1>12 DEF Interrompe
  <2>2. Finita(req[r]).fir = Nessuno /\ Finita(req[r]).fase \in {"abbandonata", "finita"}
    BY DEF Finita, Ferma
  <2>3. F(Finita(req[r]))
    BY <2>2, FormulariEnteAssumption DEF Fondata, InAzione
  <2> QED
    BY <2>1, <2>3, <1>p
<1>13. ASSUME NEW r \in Richieste, Respinge(r) PROVE Tesi
  <2> DEFINE q == req[r]
             p == [q EXCEPT !.transazione = "rifiutata"]
  <2>1. Passa(r, p) \/ Passa(r, Ferma("finita"))
    BY <1>13 DEF Respinge, Conclusa, Passa, InvTipi, TypeOK
  <2>2. /\ p.fase = q.fase /\ p.fir = q.fir /\ p.copia = q.copia /\ p.letto = q.letto
        /\ p.numero = q.numero /\ p.operazione = q.operazione /\ p.transazione = "rifiutata"
    BY <1>t DEF Richiesta
  <2> HIDE DEF p
  <2>3. F(p)
    BY <1>d, <2>2 DEF Fondata
  <2> QED
    BY <2>1, <2>3, <1>p, FermaFondata
<1>14. ASSUME NEW r \in Richieste, Accoglie(r) PROVE Tesi
  <2> DEFINE q == req[r]
             p == [q EXCEPT !.transazione = "accolta"]
             n == NumeroDi(q)
  <2>1. Passa(r, p) \/ Passa(r, Ferma("finita"))
    BY <1>14 DEF Accoglie, Conclusa, Passa, InvTipi, TypeOK
  <2>2. /\ p.fase = q.fase /\ p.fir = q.fir /\ p.copia = q.copia /\ p.letto = q.letto
        /\ p.numero = q.numero /\ p.operazione = q.operazione
    BY <1>t DEF Richiesta
  <2>3. ASSUME q.fase = "notaInviata" PROVE ente'[q.numero].nota
    <3>1. q.operazione = "NoteAnnullamento" /\ q.numero \in Numeri
      BY <1>d, <1>t, <2>3 DEF Fondata, Completa, InAzione
    <3>2. /\ ente' = [ente EXCEPT ![q.numero] = [ente[q.numero] EXCEPT !.nota = TRUE]]
          /\ ente \in [Numeri -> Formulario]
      BY <1>14, <3>1 DEF Accoglie, NumeroDi, Effetto, InvTipi, TypeOK
    <3> QED
      BY <3>1, <3>2 DEF Formulario
  <2> HIDE DEF p
  <2>4. F(p)
    BY <1>d, <2>2, <2>3 DEF Fondata
  <2> QED
    BY <2>1, <2>4, <1>p, FermaFondata
<1>15. ASSUME NEW n \in Numeri, EnteAvanza(n) PROVE Tesi
  BY <1>15, <1>d DEF EnteAvanza
<1> HIDE DEF Tesi
<1>16. Tesi
  BY <1>1, <1>2, <1>3, <1>4, <1>5, <1>6, <1>7, <1>8, <1>9, <1>10, <1>11, <1>12,
     <1>13, <1>14, <1>15 DEF Next
<1> QED
  BY <1>16 DEF Tesi

\* No row and no request is explained but by the links it starts from.
LEMMA EsitoIniziale == Init => InvEsito
<1> SUFFICES ASSUME Init PROVE InvEsito
  OBVIOUS
<1>t. InvTipi
  BY TipiIniziali
<1>i. \A riga \in Iniziali :
        \/ /\ riga.stato \notin Terminali /\ riga.statoEnte = "ignoto" /\ ~riga.nota
           /\ riga.stato = "assente" => riga.numero = Nessuno
        \/ /\ riga.numero \in Numeri /\ ~riga.nota
           /\ riga.statoEnte \in {"Accettato", "Annullato"}
           /\ riga.stato = Derivato(riga.statoEnte) /\ riga.stato \in Terminali
  <2> DEFINE agganciata(n, o) == [Assente EXCEPT !.stato = "EMESSO", !.numero = n, !.origine = o]
             chiusa(n, s) == [stato |-> Derivato(s), numero |-> n, origine |-> "manuale",
                              statoEnte |-> s, nota |-> FALSE]
             A == {Assente, [Assente EXCEPT !.stato = "EMESSO"]}
             B == {agganciata(n, o) : n \in Numeri, o \in {"trasmesso", "manuale"}}
             C == {chiusa(n, s) : n \in Numeri, s \in {"Accettato", "Annullato"}}
  <2>1. Iniziali = A \cup B \cup C
    BY DEF Iniziali
  <2> DEFINE Ignota(x) == /\ x.stato \notin Terminali /\ x.statoEnte = "ignoto" /\ ~x.nota
                          /\ x.stato = "assente" => x.numero = Nessuno
             Chiusa(x) == /\ x.numero \in Numeri /\ ~x.nota
                          /\ x.statoEnte \in {"Accettato", "Annullato"}
                          /\ x.stato = Derivato(x.statoEnte) /\ x.stato \in Terminali
  <2>2. \A x \in A : Ignota(x)
    BY DEF Assente, Terminali
  <2>3. \A n \in Numeri, o \in {"trasmesso", "manuale"} : Ignota(agganciata(n, o))
    BY DEF Assente, Terminali
  <2>4. \A n \in Numeri, s \in {"Accettato", "Annullato"} : Chiusa(chiusa(n, s))
    BY DEF Derivato, Terminali
  <2> HIDE DEF Ignota, Chiusa, agganciata, chiusa, A
  <2>5. (\A x \in B : Ignota(x)) /\ (\A x \in C : Chiusa(x))
    BY <2>3, <2>4
  <2> HIDE DEF B, C
  <2>6. \A riga \in Iniziali : Ignota(riga) \/ Chiusa(riga)
    BY <2>1, <2>2, <2>5
  <2> QED
    BY <2>6 DEF Ignota, Chiusa
<1>1. ASSUME NEW f \in Fir PROVE Spiegata(firs[f], legami[f], raggiunti, ente)
  <2>1. legami[f] = {firs[f].numero} \ {Nessuno} /\ firs[f] \in Iniziali
    BY DEF Init
  <2>2. CASE firs[f].stato \notin Terminali
    <3>1. /\ firs[f].statoEnte = "ignoto" /\ ~firs[f].nota
          /\ firs[f].stato = "assente" => firs[f].numero = Nessuno
      BY <2>1, <2>2, <1>i
    <3> QED
      BY <2>1, <2>2, <3>1 DEF Spiegata
  <2>3. CASE firs[f].stato \in Terminali
    <3> DEFINE n == firs[f].numero
    <3>1. /\ n \in Numeri /\ ~firs[f].nota /\ firs[f].statoEnte \in {"Accettato", "Annullato"}
          /\ firs[f].stato = Derivato(firs[f].statoEnte)
      BY <2>1, <2>3, <1>i
    <3>2. \A g \in Fir : firs[g].numero = n => g = f
      BY <3>1, FormulariEnteAssumption DEF Init
    <3>3. StatoIniziale(n) = firs[f].statoEnte
      <4> DEFINE noti == {firs[g].statoEnte : g \in {h \in Fir : firs[h].numero = n}} \ {"ignoto"}
      <4>1. noti = {firs[f].statoEnte}
        BY <3>1, <3>2
      <4>2. StatoIniziale(n) = IF noti = {} THEN "InserimentoQuantita"
                               ELSE CHOOSE s \in noti : TRUE
        BY DEF StatoIniziale
      <4> HIDE DEF noti
      <4> QED
        BY <4>1, <4>2
    <3>4. firs[f].stato \in raggiunti[n]
      BY <2>3, <3>1, <3>3 DEF Init
    <3>5. n \in legami[f]
      BY <2>1, <3>1, FormulariEnteAssumption
    <3> QED
      BY <2>1, <2>3, <3>1, <3>4, <3>5 DEF Spiegata, Terminali
  <2> QED
    BY <2>2, <2>3
<1>2. ASSUME NEW r \in Richieste PROVE Fondata(req[r], legami, raggiunti, ente)
  BY FermaFondata DEF Init
<1>3. \A n \in Numeri : Derivato(ente[n].stato) \in Terminali =>
                          Derivato(ente[n].stato) \in raggiunti[n]
  BY DEF Init
<1> QED
  BY <1>1, <1>2, <1>3 DEF InvEsito

\* InvEsito is inductive, on top of the types.
LEMMA EsitoConservato == InvTipi /\ InvEsito /\ [Next]_vars => InvEsito'
<1> SUFFICES ASSUME InvTipi, InvEsito, [Next]_vars PROVE InvEsito'
  OBVIOUS
<1>1. CASE UNCHANGED vars
  BY <1>1 DEF vars, storia, InvEsito
<1>2. CASE Next
  <2>1. \A n \in Numeri : Derivato(ente'[n].stato) \in Terminali =>
                            Derivato(ente'[n].stato) \in raggiunti'[n]
    BY <1>2, PassiDellEnte DEF InvEsito
  <2> QED
    BY <1>2, <2>1, RigheSpiegate, RichiesteFondate DEF InvEsito
<1> QED
  BY <1>1, <1>2

\* EsitoDellEnte, whatever the rows, the formulari and the requests: however old
\* the copy a save writes, and however late the state read for it, the outcome
\* on a row is one the ente gave a formulario of that row.
THEOREM EsitoSempreDellEnte == Spec => []EsitoDellEnte
<1>1. InvEsito => EsitoDellEnte
  BY DEF InvEsito, EsitoDellEnte, Spiegata
<1>2. Init => InvTipi /\ InvEsito
  BY TipiIniziali, EsitoIniziale
<1>3. InvTipi /\ InvEsito /\ [Next]_vars => (InvTipi /\ InvEsito)'
  BY TipiConservati, EsitoConservato
<1> QED
  BY <1>1, <1>2, <1>3, PTL DEF Spec

-------------------------------------------------------------------------------
(* The invariant.                                                              *)

InFase(n, fase) == \E r \in Richieste : req[r].numero = n /\ req[r].fase = fase

Legato(n) == \E f \in Fir : firs[f].numero = n

\* VisibilitaSpiegata, with what it rests on: no two rows have one formulario,
\* and where a release has been made at the ente the formulario is not visible.
Unici == \A f, g \in Fir : firs[f].numero = firs[g].numero /\ firs[f].numero # Nessuno
                             => f = g

Ritirata == \A r \in Richieste :
  req[r].fase = "rilasciata" /\ req[r].numero \notin sospetti =>
    ~ente[req[r].numero].visibile

Accordo == \A n \in Numeri \ sospetti :
  \/ Sovrascritto(n)
  \/ /\ ente[n].visibile => Legato(n) \/ InFase(n, "acquisita")
     /\ Legato(n) => ente[n].visibile \/ InFase(n, "rilasciata")

InvVisibilita == Unici /\ Ritirata /\ Accordo

\* Accordo is VisibilitaSpiegata with quantifiers for the sets.
LEMMA AccordoBasta == Accordo => VisibilitaSpiegata
<1> SUFFICES ASSUME Accordo, NEW n \in Numeri \ sospetti
             PROVE  LET legati == {f \in Fir : firs[f].numero = n}
                    IN  /\ ente[n].visibile /\ legati = {}
                             => InCorso(n, {"acquisita"}) # {} \/ Sovrascritto(n)
                        /\ ~ente[n].visibile /\ legati # {}
                             => InCorso(n, {"rilasciata"}) # {} \/ Sovrascritto(n)
  BY DEF VisibilitaSpiegata
<1>1. \A fase : InFase(n, fase) => InCorso(n, {fase}) # {}
  BY DEF InFase, InCorso
<1>2. Legato(n) <=> {f \in Fir : firs[f].numero = n} # {}
  BY DEF Legato
<1> QED
  BY <1>1, <1>2 DEF Accordo

\* Two requests on one formulario between the choice and the save are seen.
LEMMA DueRichieste ==
  ASSUME NEW r \in Richieste, NEW s \in Richieste, r # s, req[r].numero = req[s].numero,
         req[r].fase \in {"pronta", "acquisita", "daRilasciare", "rilasciata"},
         req[s].fase \in {"pronta", "acquisita", "daRilasciare", "rilasciata"}
  PROVE  Sovrapposta(req[r].numero)
BY DEF Sovrapposta, InCorso

\* Rows saved from an old copy keep the formulari they had.
LEMMA SovrascrittoResta ==
  ASSUME InvTipi, Next, NEW n \in Numeri, Sovrascritto(n)
  PROVE  Sovrascritto(n)'
<1>1. PICK f \in vecchie : n \in legami[f]
  BY DEF Sovrascritto
<1>2. f \in Fir /\ vecchie \subseteq vecchie'
  <2>1. f \in Fir
    BY <1>1 DEF InvTipi, TypeOK
  <2>2. CASE UNCHANGED <<firs, legami, vecchie>>
    BY <2>1, <2>2
  <2>3. ASSUME NEW r \in Richieste, NEW g \in Fir, Salvata(r, g) PROVE vecchie \subseteq vecchie'
    BY <2>3 DEF Salvata, Salva
  <2> QED
    BY <2>1, <2>2, <2>3, Salvataggi
<1>3. n \in legami'[f]
  BY <1>1, <1>2, CrescitaSempre DEF Crescita, Crescono
<1> QED
  BY <1>1, <1>2, <1>3 DEF Sovrascritto

\* save refuses a number that another row has.
LEMMA UniciConservati ==
  ASSUME InvTipi, Unici, Next
  PROVE  Unici'
<1>1. CASE UNCHANGED <<firs, legami, vecchie>>
  BY <1>1 DEF Unici
<1>2. ASSUME NEW r \in Richieste, NEW f \in Fir, Salvata(r, f) PROVE Unici'
  <2>1. PICK riga \in Riga : Salva(f, req[r].copia, riga)
    BY <1>2 DEF Salvata
  <2>2. \A g \in Fir : firs'[g] = IF g = f THEN Conservata(f, riga) ELSE firs[g]
    BY <2>1 DEF Salva, InvTipi, TypeOK
  <2>3. Conservata(f, riga).numero = riga.numero
    BY DEF Conservata, Riga
  <2>4. riga.numero # Nessuno => \A g \in Fir \ {f} : firs[g].numero # riga.numero
    BY <2>1 DEF Salva, Salvabile
  <2> QED
    BY <2>2, <2>3, <2>4 DEF Unici
<1> QED
  BY <1>1, <1>2, Salvataggi

\* A step that changes neither the visibility nor the table, of a request that
\* is not between the ente and its save.
LEMMA PassoQuieto ==
  ASSUME InvTipi, Next, InvVisibilita, NEW r \in Richieste, NEW p, Passa(r, p),
         req[r].fase \notin {"acquisita", "rilasciata"}, p.fase # "rilasciata",
         firs' = firs, sospetti' = sospetti,
         \A n \in Numeri : ente'[n].visibile = ente[n].visibile
  PROVE  Ritirata' /\ Accordo'
<1>1. \A s \in Richieste : req'[s] = IF s = r THEN p ELSE req[s]
  BY DEF Passa, InvTipi, TypeOK
<1>2. \A n \in Numeri : Sovrascritto(n) => Sovrascritto(n)'
  BY SovrascrittoResta
<1>3. \A n \in Numeri :
        /\ InFase(n, "acquisita") => InFase(n, "acquisita")'
        /\ InFase(n, "rilasciata") => InFase(n, "rilasciata")'
        /\ Legato(n)' <=> Legato(n)
  BY <1>1 DEF InFase, Legato
<1>4. Ritirata'
  <2>1. \A s \in Richieste : req[s].fase = "rilasciata" => req[s].numero \in Numeri
    BY DEF InvTipi, Completa, Scelta
  <2> QED
    BY <1>1, <2>1 DEF InvVisibilita, Ritirata
<1>5. Accordo'
  BY <1>2, <1>3 DEF InvVisibilita, Accordo
<1> QED
  BY <1>4, <1>5

\* A save, seen from the formulari.  From the copy that is still the row it
\* changes the link of one formulario; otherwise the formulari of the row before
\* and after are among those of a row overwritten.
LEMMA LegamiDellaRiga ==
  ASSUME InvTipi, InvEsito, Next, NEW f \in Fir, NEW copiata, NEW riga \in Riga,
         Salva(f, copiata, riga), NEW n \in Numeri, ~Sovrascritto(n)'
  PROVE  /\ Legato(n) /\ ~Legato(n)' => /\ copiata = firs[f]
                                        /\ firs[f].numero = n /\ riga.numero # n
         /\ ~Legato(n) /\ Legato(n)' => copiata = firs[f] /\ riga.numero = n
<1>1. \A g \in Fir : firs'[g].numero = IF g = f THEN riga.numero ELSE firs[g].numero
  BY DEF Salva, Conservata, InvTipi, TypeOK, Riga
<1>2. riga.numero # Nessuno => riga.numero \in legami'[f]
  BY DEF Salva, InvTipi, TypeOK
<1>3. firs[f].numero # Nessuno => firs[f].numero \in legami'[f]
  BY CrescitaSempre DEF Crescita, Crescono, InvEsito, Spiegata
<1>4. copiata # firs[f] => f \in vecchie'
  BY DEF Salva
<1>5. n # Nessuno
  BY FormulariEnteAssumption
<1>6. copiata # firs[f] => firs[f].numero # n /\ riga.numero # n
  BY <1>2, <1>3, <1>4, <1>5 DEF Sovrascritto
<1> QED
  BY <1>1, <1>6 DEF Legato

\* A save that keeps the number of its copy.
LEMMA PassoScritto ==
  ASSUME InvTipi, InvEsito, Next, InvVisibilita, NEW r \in Richieste, NEW p, Passa(r, p),
         req[r].fase \notin {"acquisita", "rilasciata"}, p.fase # "rilasciata",
         NEW f \in Fir, NEW riga \in Riga, Salva(f, req[r].copia, riga),
         riga.numero = req[r].copia.numero, ente' = ente, sospetti' = sospetti
  PROVE  Ritirata' /\ Accordo'
<1>1. \A s \in Richieste : req'[s] = IF s = r THEN p ELSE req[s]
  BY DEF Passa, InvTipi, TypeOK
<1>2. \A n \in Numeri : Sovrascritto(n) => Sovrascritto(n)'
  BY SovrascrittoResta
<1>3. \A n \in Numeri :
        /\ InFase(n, "acquisita") => InFase(n, "acquisita")'
        /\ InFase(n, "rilasciata") => InFase(n, "rilasciata")'
  BY <1>1 DEF InFase
<1>4. \A n \in Numeri : Sovrascritto(n)' \/ (Legato(n)' <=> Legato(n))
  <2> SUFFICES ASSUME NEW n \in Numeri, ~Sovrascritto(n)' PROVE Legato(n)' <=> Legato(n)
    OBVIOUS
  <2>1. /\ Legato(n) /\ ~Legato(n)' => req[r].copia = firs[f] /\ firs[f].numero = n
                                       /\ riga.numero # n
        /\ ~Legato(n) /\ Legato(n)' => req[r].copia = firs[f] /\ riga.numero = n
    BY LegamiDellaRiga
  <2> QED
    BY <2>1 DEF Legato
<1>5. Ritirata'
  <2>1. \A s \in Richieste : req[s].fase = "rilasciata" => req[s].numero \in Numeri
    BY DEF InvTipi, Completa, Scelta
  <2> QED
    BY <1>1, <2>1 DEF InvVisibilita, Ritirata
<1>6. Accordo'
  BY <1>2, <1>3, <1>4 DEF InvVisibilita, Accordo
<1> QED
  BY <1>5, <1>6

\* The two steps of an acquisition after the choice.
LEMMA PassiDiAcquisizione ==
  ASSUME InvTipi, InvEsito, Next, InvVisibilita, NEW r \in Richieste,
         AcquisisciVisibilita(r) \/ \E f \in Fir : SalvaAggancio(r, f)
  PROVE  Ritirata' /\ Accordo'
<1> DEFINE q == req[r]
           n == q.numero
<1>t. /\ q \in Richiesta /\ Completa(q) /\ Fondata(q, legami, raggiunti, ente)
      /\ ente \in [Numeri -> Formulario] /\ req \in [Richieste -> Richiesta]
  BY DEF InvTipi, TypeOK, InvEsito
<1>s. \A m \in Numeri : Sovrascritto(m) => Sovrascritto(m)'
  BY SovrascrittoResta
<1>1. CASE AcquisisciVisibilita(r)
  <2>1. /\ q.fase = "pronta" /\ firs' = firs
        /\ req' = [req EXCEPT ![r] = [q EXCEPT !.fase = "acquisita", !.vista = FALSE]]
        /\ ente' = [ente EXCEPT ![n].visibile = ente[n].visibile \/ ~q.vista]
        /\ IF Sovrapposta(n) THEN Sospetta(n) ELSE sospetti' = sospetti
    BY <1>1 DEF AcquisisciVisibilita, Passa
  <2>2. n \in Numeri
    BY <1>t, <2>1 DEF Completa, Scelta
  <2>3. /\ req'[r].fase = "acquisita" /\ req'[r].numero = n
        /\ \A s \in Richieste \ {r} : req'[s] = req[s]
    BY <1>t, <2>1 DEF Richiesta
  <2>4. /\ \A m \in Numeri \ {n} : ente'[m] = ente[m]
        /\ ente[n].visibile => ente'[n].visibile
    BY <1>t, <2>1, <2>2 DEF Formulario
  <2>5. sospetti \subseteq sospetti' /\ (Sovrapposta(n) => n \in sospetti')
    BY <2>1 DEF Sospetta
  \* With a release made at the ente there would be two requests on it.
  <2>6. n \notin sospetti' => \A s \in Richieste :
          req[s].numero = n => req[s].fase # "rilasciata"
    <3> SUFFICES ASSUME NEW s \in Richieste, req[s].numero = n, req[s].fase = "rilasciata"
                 PROVE  n \in sospetti'
      OBVIOUS
    <3>1. Sovrapposta(n)
      BY <2>1, DueRichieste
    <3> QED
      BY <2>5, <3>1
  <2>7. Ritirata'
    <3> SUFFICES ASSUME NEW s \in Richieste, req'[s].fase = "rilasciata",
                        req'[s].numero \notin sospetti'
                 PROVE  ~ente'[req'[s].numero].visibile
      BY DEF Ritirata
    <3>1. s # r /\ req'[s] = req[s] /\ req[s].numero \in Numeri
      BY <2>3 DEF InvTipi, Completa, Scelta
    <3>2. req[s].numero # n
      BY <2>6, <3>1
    <3> QED
      BY <2>4, <2>5, <3>1, <3>2 DEF InvVisibilita, Ritirata
  <2>8. Accordo'
    <3> SUFFICES ASSUME NEW m \in Numeri, m \notin sospetti', ~Sovrascritto(m)'
                 PROVE  /\ ente'[m].visibile => Legato(m)' \/ InFase(m, "acquisita")'
                        /\ Legato(m)' => ente'[m].visibile \/ InFase(m, "rilasciata")'
      BY DEF Accordo
    <3>1. /\ ente[m].visibile => Legato(m) \/ InFase(m, "acquisita")
          /\ Legato(m) => ente[m].visibile \/ InFase(m, "rilasciata")
      BY <1>s, <2>5 DEF InvVisibilita, Accordo
    <3>2. Legato(m)' <=> Legato(m)
      BY <2>1 DEF Legato
    <3>3. CASE m = n
      <4>1. InFase(m, "acquisita")'
        BY <2>3, <3>3 DEF InFase
      <4>2. ~InFase(m, "rilasciata")
        BY <2>6, <3>3 DEF InFase
      <4> QED
        BY <2>4, <3>1, <3>2, <3>3, <4>1, <4>2
    <3>4. CASE m # n
      <4>1. /\ InFase(m, "acquisita") => InFase(m, "acquisita")'
            /\ InFase(m, "rilasciata") => InFase(m, "rilasciata")'
        BY <2>3, <3>4 DEF InFase
      <4> QED
        BY <2>4, <3>1, <3>2, <3>4, <4>1
    <3> QED
      BY <3>3, <3>4
  <2> QED
    BY <2>7, <2>8
<1>2. ASSUME NEW f \in Fir, SalvaAggancio(r, f) PROVE Ritirata' /\ Accordo'
  <2> DEFINE nuova == Aggancia([Assente EXCEPT !.stato = "BOZZA"], n, "terzi")
             scelta == Aggancia(q.copia, n, "manuale")
             riga == IF q.fir = Nessuno THEN nuova ELSE scelta
  <2>1. /\ q.fase = "acquisita" /\ Salva(f, q.copia, riga) /\ ente' = ente
        /\ req' = [req EXCEPT ![r] = Ferma("finita")]
        /\ IF ente[n].visibile THEN sospetti' = sospetti ELSE Sospetta(n)
        /\ IF q.fir = Nessuno THEN firs[f].stato = "assente" ELSE f = q.fir
    BY <1>2 DEF SalvaAggancio, Passa
  <2>2. n \in Numeri /\ q.copia \in Riga
    BY <1>t, <2>1 DEF Completa, Scelta, Richiesta
  <2>3. riga \in Riga /\ riga.numero = n
    <3>1. nuova \in Riga /\ scelta \in Riga
      BY <2>2, TipiCostanti, TipiRiga DEF Origini
    <3>2. nuova.numero = n /\ scelta.numero = n
      BY <2>2 DEF Aggancia, Riga, Assente
    <3> QED
      BY <3>1, <3>2
  <2>4. q.copia = firs[f] \/ firs[f].stato = "assente" => firs[f].numero = Nessuno
    <3>1. firs[f].stato = "assente" => firs[f].numero = Nessuno
      BY DEF InvEsito, Spiegata
    <3>2. CASE q.fir = Nessuno
      <4>1. firs[f].stato = "assente"
        BY <2>1, <3>2
      <4> QED
        BY <3>1, <4>1
    <3>3. CASE q.fir # Nessuno
      <4>1. q.copia.numero = Nessuno
        BY <1>t, <2>1, <3>3 DEF Fondata
      <4> QED
        BY <3>1, <4>1
    <3> QED
      BY <3>2, <3>3
  <2> HIDE DEF riga
  <2>5. /\ \A s \in Richieste \ {r} : req'[s] = req[s]
        /\ req'[r].fase = "finita"
    BY <1>t, <2>1 DEF Ferma
  <2>6. sospetti \subseteq sospetti' /\ (n \notin sospetti' => ente[n].visibile)
    BY <2>1 DEF Sospetta
  <2>7. Ritirata'
    <3>1. \A s \in Richieste : req[s].fase = "rilasciata" => req[s].numero \in Numeri
      BY DEF InvTipi, Completa, Scelta
    <3> QED
      BY <2>1, <2>5, <2>6, <3>1 DEF InvVisibilita, Ritirata
  <2>8. Accordo'
    <3> SUFFICES ASSUME NEW m \in Numeri, m \notin sospetti', ~Sovrascritto(m)'
                 PROVE  /\ ente'[m].visibile => Legato(m)' \/ InFase(m, "acquisita")'
                        /\ Legato(m)' => ente'[m].visibile \/ InFase(m, "rilasciata")'
      BY DEF Accordo
    <3>1. /\ ente[m].visibile => Legato(m) \/ InFase(m, "acquisita")
          /\ Legato(m) => ente[m].visibile \/ InFase(m, "rilasciata")
      BY <1>s, <2>6 DEF InvVisibilita, Accordo
    <3>2. /\ Legato(m) /\ ~Legato(m)' => q.copia = firs[f] /\ firs[f].numero = m
          /\ ~Legato(m) /\ Legato(m)' => m = n
      BY <2>1, <2>3, LegamiDellaRiga
    <3>3. Legato(m) => Legato(m)'
      BY <2>4, <3>2, FormulariEnteAssumption
    <3>4. CASE m = n
      <4>1. Legato(m)'
        <5>1. firs'[f].numero = riga.numero
          BY <2>1, <2>3 DEF Salva, Conservata, InvTipi, TypeOK, Riga
        <5> QED
          BY <2>3, <3>4, <5>1 DEF Legato
      <4> QED
        BY <2>1, <2>6, <3>4, <4>1
    <3>5. CASE m # n
      <4>1. /\ InFase(m, "acquisita") => InFase(m, "acquisita")'
            /\ InFase(m, "rilasciata") => InFase(m, "rilasciata")'
        BY <2>5, <3>5 DEF InFase
      <4> QED
        BY <2>1, <3>1, <3>2, <3>3, <3>5, <4>1
    <3> QED
      BY <3>4, <3>5
  <2> QED
    BY <2>7, <2>8
<1> QED
  BY <1>1, <1>2

\* A step after which the formulario of the request is suspected.
LEMMA PassoSospetto ==
  ASSUME InvTipi, Next, InvVisibilita, NEW r \in Richieste, NEW p, Passa(r, p),
         p.fase = "rilasciata" => p.numero = req[r].numero,
         req[r].numero \in Numeri, Sospetta(req[r].numero), firs' = firs,
         \A m \in Numeri \ {req[r].numero} : ente'[m].visibile = ente[m].visibile
  PROVE  Ritirata' /\ Accordo'
<1>1. \A s \in Richieste : req'[s] = IF s = r THEN p ELSE req[s]
  BY DEF Passa, InvTipi, TypeOK
<1>2. \A m \in Numeri : Sovrascritto(m) => Sovrascritto(m)'
  BY SovrascrittoResta
<1>3. sospetti' = sospetti \cup {req[r].numero}
  BY DEF Sospetta
<1>4. Ritirata'
  <2>1. \A s \in Richieste : req[s].fase = "rilasciata" => req[s].numero \in Numeri
    BY DEF InvTipi, Completa, Scelta
  <2> QED
    BY <1>1, <1>3, <2>1 DEF InvVisibilita, Ritirata
<1>5. Accordo'
  <2>1. \A m \in Numeri \ {req[r].numero} :
          /\ InFase(m, "acquisita") => InFase(m, "acquisita")'
          /\ InFase(m, "rilasciata") => InFase(m, "rilasciata")'
          /\ Legato(m)' <=> Legato(m)
    BY <1>1 DEF InFase, Legato
  <2> QED
    BY <1>2, <1>3, <2>1 DEF InvVisibilita, Accordo
<1> QED
  BY <1>4, <1>5

\* The steps of a release, an answer that is lost, a request that ends.
LEMMA PassiDiRilascio ==
  ASSUME InvTipi, InvEsito, Next, InvVisibilita, NEW r \in Richieste,
         RilasciaVisibilita(r) \/ SalvaRilascio(r) \/ PerdeRisposta(r) \/ Interrompe(r)
  PROVE  Ritirata' /\ Accordo'
<1> DEFINE q == req[r]
           n == q.numero
<1>t. /\ q \in Richiesta /\ Completa(q) /\ Fondata(q, legami, raggiunti, ente)
      /\ ente \in [Numeri -> Formulario] /\ req \in [Richieste -> Richiesta]
  BY DEF InvTipi, TypeOK, InvEsito
<1>s. \A m \in Numeri : Sovrascritto(m) => Sovrascritto(m)'
  BY SovrascrittoResta
<1>1. CASE RilasciaVisibilita(r)
  <2> DEFINE p == [q EXCEPT !.fase = "rilasciata"]
  <2>1. /\ q.fase = "daRilasciare" /\ firs' = firs /\ Passa(r, p)
        /\ \/ /\ ente' = [ente EXCEPT ![n].visibile = FALSE]
              /\ IF Sovrapposta(n) THEN Sospetta(n) ELSE sospetti' = sospetti
           \/ ente' = ente /\ Sospetta(n)
    BY <1>1 DEF RilasciaVisibilita
  <2>2. n \in Numeri
    BY <1>t, <2>1 DEF Completa, Scelta
  <2>3. p.fase = "rilasciata" /\ p.numero = n
    BY <1>t DEF Richiesta
  <2> HIDE DEF p
  <2>4. \A m \in Numeri \ {n} : ente'[m].visibile = ente[m].visibile
    BY <1>t, <2>1
  <2>5. CASE Sospetta(n)
    BY <2>1, <2>2, <2>3, <2>4, <2>5, PassoSospetto
  <2>6. CASE ~Sospetta(n)
    <3>1. /\ ~ente'[n].visibile /\ sospetti' = sospetti
          /\ \A s \in Richieste : req'[s] = IF s = r THEN p ELSE req[s]
      BY <1>t, <2>1, <2>2, <2>6 DEF Passa, Formulario
    <3>2. Ritirata'
      <4>1. \A s \in Richieste : req[s].fase = "rilasciata" => req[s].numero \in Numeri
        BY DEF InvTipi, Completa, Scelta
      <4> QED
        BY <2>3, <2>4, <3>1, <4>1 DEF InvVisibilita, Ritirata
    <3>3. Accordo'
      <4>1. \A m \in Numeri :
              /\ InFase(m, "acquisita") => InFase(m, "acquisita")'
              /\ InFase(m, "rilasciata") => InFase(m, "rilasciata")'
              /\ Legato(m)' <=> Legato(m)
              /\ m = n => InFase(m, "rilasciata")'
        BY <2>1, <2>3, <3>1 DEF InFase, Legato
      <4> QED
        BY <1>s, <2>4, <3>1, <4>1 DEF InvVisibilita, Accordo
    <3> QED
      BY <3>2, <3>3
  <2> QED
    BY <2>5, <2>6
<1>2. CASE SalvaRilascio(r)
  <2> DEFINE f == q.fir
             riga == Sgancia(q.copia)
  <2>1. /\ q.fase = "rilasciata" /\ Salva(f, q.copia, riga)
        /\ Passa(r, Ferma("finita")) /\ ente' = ente /\ sospetti' = sospetti
    BY <1>2 DEF SalvaRilascio
  <2>2. n \in Numeri /\ f \in Fir /\ q.copia \in Riga /\ q.copia.numero = n
    BY <1>t, <2>1 DEF Completa, Scelta, Richiesta, Fondata
  <2>3. riga \in Riga /\ riga.numero = Nessuno
    BY <2>2, TipiRiga DEF Sgancia, Riga
  <2> HIDE DEF riga
  <2>4. /\ req'[r].fase = "finita"
        /\ \A s \in Richieste \ {r} : req'[s] = req[s]
    BY <1>t, <2>1 DEF Passa, Ferma
  <2>5. Ritirata'
    BY <2>1, <2>4 DEF InvVisibilita, Ritirata
  <2>6. ASSUME NEW m \in Numeri, m \notin sospetti, ~Sovrascritto(m)', m = n
        PROVE  ~ente[m].visibile /\ ~Legato(m)'
    <3>1. ~ente[m].visibile
      BY <2>1, <2>6 DEF InvVisibilita, Ritirata
    <3>2. q.copia = firs[f]
      <4>1. m \in legami'[f]
        <5>1. m \in legami[f]
          BY <1>t, <2>2, <2>6, FormulariEnteAssumption DEF Fondata, Spiegata
        <5> QED
          BY <2>2, <5>1, CrescitaSempre DEF Crescita, Crescono
      <4>2. q.copia # firs[f] => f \in vecchie'
        BY <2>1 DEF Salva
      <4> QED
        BY <2>6, <4>1, <4>2 DEF Sovrascritto
    <3>3. \A g \in Fir : firs'[g].numero = IF g = f THEN Nessuno ELSE firs[g].numero
      BY <2>1, <2>2, <2>3 DEF Salva, Conservata, InvTipi, TypeOK, Riga
    <3>4. \A g \in Fir : firs[g].numero = m => g = f
      BY <2>2, <2>6, <3>2, FormulariEnteAssumption DEF InvVisibilita, Unici
    <3> QED
      BY <3>1, <3>3, <3>4, FormulariEnteAssumption DEF Legato
  <2>7. ASSUME NEW m \in Numeri, m \notin sospetti, ~Sovrascritto(m)', m # n
        PROVE  /\ Legato(m)' <=> Legato(m)
               /\ InFase(m, "acquisita") => InFase(m, "acquisita")'
               /\ InFase(m, "rilasciata") => InFase(m, "rilasciata")'
    <3>1. Legato(m)' <=> Legato(m)
      <4>1. /\ Legato(m) /\ ~Legato(m)' => q.copia = firs[f] /\ firs[f].numero = m
            /\ ~Legato(m) /\ Legato(m)' => riga.numero = m
        BY <2>1, <2>2, <2>3, <2>7, LegamiDellaRiga
      <4> QED
        BY <2>2, <2>3, <2>7, <4>1, FormulariEnteAssumption
    <3>2. /\ InFase(m, "acquisita") => InFase(m, "acquisita")'
          /\ InFase(m, "rilasciata") => InFase(m, "rilasciata")'
      BY <2>4, <2>7 DEF InFase
    <3> QED
      BY <3>1, <3>2
  <2>8. Accordo'
    <3> SUFFICES ASSUME NEW m \in Numeri, m \notin sospetti', ~Sovrascritto(m)'
                 PROVE  /\ ente'[m].visibile => Legato(m)' \/ InFase(m, "acquisita")'
                        /\ Legato(m)' => ente'[m].visibile \/ InFase(m, "rilasciata")'
      BY DEF Accordo
    <3>1. CASE m = n
      BY <2>1, <2>6, <3>1
    <3>2. CASE m # n
      <4>1. /\ ente[m].visibile => Legato(m) \/ InFase(m, "acquisita")
            /\ Legato(m) => ente[m].visibile \/ InFase(m, "rilasciata")
        BY <1>s, <2>1 DEF InvVisibilita, Accordo
      <4> QED
        BY <2>1, <2>7, <3>2, <4>1
    <3> QED
      BY <3>1, <3>2
  <2> QED
    BY <2>5, <2>8
<1>3. CASE PerdeRisposta(r)
  <2>1. /\ q.fase \in {"pronta", "daRilasciare"} /\ Sospetta(n) /\ firs' = firs
        /\ Passa(r, Ferma("finita"))
    BY <1>3 DEF PerdeRisposta
  <2>2. n \in Numeri
    BY <1>t, <2>1 DEF Completa, Scelta
  <2>3. \A m \in Numeri \ {n} : ente'[m].visibile = ente[m].visibile
    BY <1>t, <1>3 DEF PerdeRisposta
  <2>4. Ferma("finita").fase = "finita"
    BY DEF Ferma
  <2> QED
    BY <2>1, <2>2, <2>3, <2>4, PassoSospetto
<1>4. CASE Interrompe(r)
  <2> DEFINE p == Finita(q)
  <2>1. /\ Passa(r, p) /\ ente' = ente /\ firs' = firs
        /\ IF q.fase \in {"acquisita", "rilasciata"} THEN Sospetta(n) ELSE sospetti' = sospetti
    BY <1>4 DEF Interrompe
  <2>2. p.fase \in {"abbandonata", "finita"}
    BY DEF Finita, Ferma
  <2> HIDE DEF p
  <2>3. CASE q.fase \in {"acquisita", "rilasciata"}
    <3>1. n \in Numeri
      BY <1>t, <2>3 DEF Completa, Scelta
    <3> QED
      BY <2>1, <2>2, <2>3, <3>1, PassoSospetto
  <2>4. CASE q.fase \notin {"acquisita", "rilasciata"}
    BY <2>1, <2>2, <2>4, PassoQuieto
  <2> QED
    BY <2>3, <2>4
<1> QED
  BY <1>1, <1>2, <1>3, <1>4

\* Everything else leaves the two sides as they are.
LEMMA AltriPassi ==
  ASSUME InvTipi, InvEsito, Next, InvVisibilita, NEW r \in Richieste,
         \/ \E n \in Numeri : Cerca(r, n)
         \/ \E f \in Fir \cup {Nessuno} : PreparaAcquisizione(r, f)
         \/ \E f \in Fir : CaricaRilascio(r, f) \/ \E uso \in Usi : CaricaAzioni(r, f, uso)
         \/ LeggiAzioni(r) \/ CaricaFirma(r) \/ Firma(r) \/ LeggiStato(r)
         \/ SalvaAzioni(r) \/ SalvaFirma(r) \/ SalvaNota(r) \/ Accoglie(r) \/ Respinge(r)
  PROVE  Ritirata' /\ Accordo'
<1> USE DEF storia
<1> DEFINE q == req[r]
           Tesi == Ritirata' /\ Accordo'
<1>t. /\ q \in Richiesta /\ Completa(q)
      /\ ente \in [Numeri -> Formulario] /\ req \in [Richieste -> Richiesta]
  BY DEF InvTipi, TypeOK
<1>q. ASSUME NEW p, Passa(r, p), q.fase \notin {"acquisita", "rilasciata"},
             p.fase # "rilasciata", firs' = firs, sospetti' = sospetti, ente' = ente
      PROVE  Tesi
  BY <1>q, PassoQuieto
<1>1. ASSUME NEW n \in Numeri, Cerca(r, n) PROVE Tesi
  <2> DEFINE p == [q EXCEPT !.uso = "acquisisci", !.fase = "cercata", !.numero = n,
                            !.vista = ente[n].visibile]
  <2>1. Passa(r, p) /\ q.fase = "attesa" /\ UNCHANGED <<ente, firs, sospetti>>
    BY <1>1 DEF Cerca
  <2>2. p.fase = "cercata"
    BY <1>t DEF Richiesta
  <2> HIDE DEF p
  <2> QED
    BY <2>1, <2>2, <1>q
<1>2. ASSUME NEW f \in Fir \cup {Nessuno}, PreparaAcquisizione(r, f) PROVE Tesi
  <2> DEFINE p == [q EXCEPT !.fase = "pronta", !.fir = f,
                            !.copia = IF f = Nessuno THEN Assente ELSE firs[f]]
  <2>1. Passa(r, p) /\ q.fase = "cercata" /\ UNCHANGED <<ente, firs, sospetti>>
    BY <1>2 DEF PreparaAcquisizione
  <2>2. p.fase = "pronta"
    BY <1>t DEF Richiesta
  <2> HIDE DEF p
  <2> QED
    BY <2>1, <2>2, <1>q
<1>3. ASSUME NEW f \in Fir, CaricaRilascio(r, f) PROVE Tesi
  <2> DEFINE p == [q EXCEPT !.uso = "rilascia", !.fase = "daRilasciare", !.fir = f,
                            !.numero = firs[f].numero, !.copia = firs[f]]
  <2>1. Passa(r, p) /\ q.fase = "attesa" /\ UNCHANGED <<ente, firs, sospetti>>
    BY <1>3 DEF CaricaRilascio
  <2>2. p.fase = "daRilasciare"
    BY <1>t DEF Richiesta
  <2> HIDE DEF p
  <2> QED
    BY <2>1, <2>2, <1>q
<1>4. ASSUME NEW f \in Fir, NEW uso \in Usi, CaricaAzioni(r, f, uso) PROVE Tesi
  <2> DEFINE p == [q EXCEPT !.uso = uso, !.fase = "caricata", !.fir = f,
                            !.numero = firs[f].numero, !.copia = firs[f]]
  <2>1. Passa(r, p) /\ q.fase = "attesa" /\ UNCHANGED <<ente, firs, sospetti>>
    BY <1>4 DEF CaricaAzioni
  <2>2. p.fase = "caricata"
    BY <1>t DEF Richiesta
  <2> HIDE DEF p
  <2> QED
    BY <2>1, <2>2, <1>q
<1>5. ASSUME CaricaFirma(r) PROVE Tesi
  <2> DEFINE p == [q EXCEPT !.fase = "daFirmare", !.transazione = "nessuna",
                            !.copia = firs[q.fir]]
  <2>1. Passa(r, p) /\ q.fase = "inviata" /\ UNCHANGED <<ente, firs, sospetti>>
    BY <1>5 DEF CaricaFirma
  <2>2. p.fase = "daFirmare"
    BY <1>t DEF Richiesta
  <2> HIDE DEF p
  <2> QED
    BY <2>1, <2>2, <1>q
<1>6. ASSUME Firma(r) PROVE Tesi
  <2> DEFINE p == [q EXCEPT !.fase = "firmata", !.transazione = "inCorso",
                            !.operazione = "AcquisizioneFirma"]
  <2>1. Passa(r, p) /\ q.fase = "daFirmare" /\ UNCHANGED <<ente, firs, sospetti>>
    BY <1>6 DEF Firma
  <2>2. p.fase = "firmata"
    BY <1>t DEF Richiesta
  <2> HIDE DEF p
  <2> QED
    BY <2>1, <2>2, <1>q
<1>7. ASSUME LeggiStato(r) PROVE Tesi
  <2> DEFINE p == [q EXCEPT !.fase = "statoLetto", !.transazione = "nessuna",
                            !.operazione = "Annulla",
                            !.letto = ente[q.copia.numero].stato]
  <2>1. Passa(r, p) /\ q.fase = "firmata" /\ UNCHANGED <<ente, firs, sospetti>>
    BY <1>7 DEF LeggiStato
  <2>2. p.fase = "statoLetto"
    BY <1>t DEF Richiesta
  <2> HIDE DEF p
  <2> QED
    BY <2>1, <2>2, <1>q
<1>8. ASSUME LeggiAzioni(r) PROVE Tesi
  <2> DEFINE form == ente[q.copia.numero]
             fase == IF q.fase = "caricata" THEN "letta" ELSE "notaLetta"
             off == q.uso # "azioni" /\ Richiesto(q) \in Offerte(form)
             p == [q EXCEPT !.fase = fase, !.letto = form.stato, !.offerta = off]
  <2>1. /\ Passa(r, p) /\ q.fase \in {"caricata", "annullata"}
        /\ UNCHANGED <<ente, firs, sospetti>>
    BY <1>8 DEF LeggiAzioni
  <2> HIDE DEF off, form
  <2>2. p.fase \in {"letta", "notaLetta"}
    BY <1>t DEF Richiesta
  <2> HIDE DEF p
  <2> QED
    BY <2>1, <2>2, <1>q
<1>9. CASE SalvaAzioni(r) \/ SalvaFirma(r) \/ SalvaNota(r)
  <2>1. /\ q.fase \in {"letta", "notaLetta", "statoLetto", "notaInviata"}
        /\ ente' = ente /\ sospetti' = sospetti
    BY <1>9 DEF SalvaAzioni, SalvaFirma, SalvaNota
  <2>2. \E p : Passa(r, p) /\ p.fase # "rilasciata"
    <3>1. CASE SalvaNota(r)
      <4>1. Passa(r, Ferma("finita")) /\ Ferma("finita").fase = "finita"
        BY <3>1 DEF SalvaNota, Ferma
      <4> QED
        BY <4>1
    <3>2. CASE SalvaFirma(r)
      <4> DEFINE p == [q EXCEPT !.fase = "annullata", !.copia = firs'[q.fir]]
      <4>1. Passa(r, p) \/ Passa(r, Ferma("finita"))
        BY <3>2 DEF SalvaFirma
      <4>2. p.fase = "annullata" /\ Ferma("finita").fase = "finita"
        BY <1>t DEF Richiesta, Ferma
      <4> HIDE DEF p
      <4> QED
        BY <4>1, <4>2
    <3>3. CASE SalvaAzioni(r)
      <4> DEFINE nota == q.fase = "notaLetta"
                 fase == IF nota THEN "notaInviata" ELSE "inviata"
                 copia == IF nota THEN q.copia ELSE Assente
                 p == [Ferma(fase) EXCEPT !.uso = q.uso, !.fir = q.fir, !.numero = q.numero,
                         !.copia = copia, !.transazione = "inCorso",
                         !.operazione = Richiesto(q)]
      <4>1. Passa(r, p) \/ Passa(r, Ferma("finita"))
        BY <3>3 DEF SalvaAzioni
      <4>2. p.fase \in {"notaInviata", "inviata"} /\ Ferma("finita").fase = "finita"
        BY DEF Ferma
      <4> HIDE DEF p
      <4> QED
        BY <4>1, <4>2
    <3> QED
      BY <1>9, <3>1, <3>2, <3>3
  <2>3. q.fir \in Fir /\ q.copia \in Riga /\ q.letto \in StatiEnte
    BY <1>t, <2>1 DEF Completa, InAzione, Richiesta
  <2> DEFINE ra == ApplicaStato(q.copia, q.letto)
             rn == [q.copia EXCEPT !.nota = TRUE]
  <2>4. ra \in Riga /\ rn \in Riga
    BY <2>3, TipiRiga
  <2>5. ra.numero = q.copia.numero /\ rn.numero = q.copia.numero
    BY <2>3 DEF ApplicaStato, Riga
  <2>6. Salva(q.fir, q.copia, ra) \/ Salva(q.fir, q.copia, rn)
    BY <1>9 DEF SalvaAzioni, SalvaFirma, SalvaNota
  <2> HIDE DEF ra, rn
  <2> QED
    BY <2>1, <2>2, <2>3, <2>4, <2>5, <2>6, PassoScritto
<1>10. CASE Accoglie(r) \/ Respinge(r)
  <2>1. q.transazione = "inCorso" /\ UNCHANGED <<firs, sospetti>>
    BY <1>10 DEF Accoglie, Respinge
  <2>2. q.fase \in {"inviata", "firmata", "notaInviata", "abbandonata"}
    BY <1>t, <2>1 DEF Completa
  <2>3. \E p : Passa(r, p) /\ p.fase \in {q.fase, "finita"}
    <3> DEFINE p(e) == IF q.fase = "abbandonata" THEN Ferma("finita")
                       ELSE [q EXCEPT !.transazione = e]
    <3>1. \E e : Passa(r, p(e))
      BY <1>t, <1>10 DEF Accoglie, Respinge, Conclusa, Passa
    <3>2. \A e : p(e).fase \in {q.fase, "finita"}
      BY <1>t DEF Ferma, Richiesta
    <3> HIDE DEF p
    <3> QED
      BY <3>1, <3>2
  <2>4. \A n \in Numeri : ente'[n].visibile = ente[n].visibile
    <3>1. CASE Respinge(r)
      BY <3>1 DEF Respinge
    <3>2. CASE Accoglie(r)
      <4>1. ente' = [ente EXCEPT ![NumeroDi(q)] = Effetto(ente[NumeroDi(q)], q.operazione)]
        BY <3>2 DEF Accoglie
      <4>2. \A form \in Formulario, o \in Operazioni :
              Effetto(form, o).visibile = form.visibile
        BY DEF Effetto, Formulario, Operazioni
      <4>3. q.operazione \in Operazioni
        BY <1>t DEF Richiesta
      <4> QED
        BY <1>t, <4>1, <4>2, <4>3
    <3> QED
      BY <1>10, <3>1, <3>2
  <2> QED
    BY <2>1, <2>2, <2>3, <2>4, PassoQuieto
<1> QED
  BY <1>1, <1>2, <1>3, <1>4, <1>5, <1>6, <1>7, <1>8, <1>9, <1>10

\* At the start a formulario is visible when a row is linked to it.
LEMMA VisibilitaIniziale == Init => InvVisibilita
<1> SUFFICES ASSUME Init PROVE InvVisibilita
  OBVIOUS
<1>1. Unici
  BY DEF Init, Unici
<1>2. Ritirata
  BY DEF Init, Ritirata, Ferma
<1>3. \A n \in Numeri : ente[n].visibile <=> Legato(n)
  BY DEF Init, Legato
<1> QED
  BY <1>1, <1>2, <1>3 DEF InvVisibilita, Accordo

\* InvVisibilita is inductive, on top of the types and of InvEsito.
LEMMA VisibilitaConservata ==
  InvTipi /\ InvEsito /\ InvVisibilita /\ [Next]_vars => InvVisibilita'
<1> SUFFICES ASSUME InvTipi, InvEsito, InvVisibilita, [Next]_vars PROVE InvVisibilita'
  OBVIOUS
<1>1. CASE UNCHANGED vars
  BY <1>1 DEF vars, storia, InvVisibilita, Unici, Ritirata, Accordo, Sovrascritto, Legato, InFase
<1>2. CASE Next
  <2>1. Unici'
    BY <1>2, UniciConservati DEF InvVisibilita
  <2>2. ASSUME NEW n \in Numeri, EnteAvanza(n) PROVE Ritirata' /\ Accordo'
    <3>1. /\ \A m \in Numeri : ente'[m].visibile = ente[m].visibile
          /\ UNCHANGED <<firs, req, legami, sospetti, vecchie>>
      <4>1. PICK s : ente' = [ente EXCEPT ![n].stato = s]
        BY <2>2 DEF EnteAvanza
      <4>2. UNCHANGED <<firs, req, legami, sospetti, vecchie>>
        BY <2>2 DEF EnteAvanza
      <4> QED
        BY <4>1, <4>2 DEF InvTipi, TypeOK, Formulario
    <3>2. Ritirata'
      <4>1. \A s \in Richieste : req[s].fase = "rilasciata" => req[s].numero \in Numeri
        BY DEF InvTipi, Completa, Scelta
      <4> QED
        BY <3>1, <4>1 DEF InvVisibilita, Ritirata
    <3>3. Accordo'
      BY <3>1 DEF InvVisibilita, Accordo, Sovrascritto, Legato, InFase
    <3> QED
      BY <3>2, <3>3
  <2>3. Ritirata' /\ Accordo'
    BY <1>2, <2>2, PassiDiAcquisizione, PassiDiRilascio, AltriPassi DEF Next
  <2> QED
    BY <2>1, <2>3 DEF InvVisibilita
<1> QED
  BY <1>1, <1>2

\* VisibilitaSpiegata, whatever the rows, the formulari and the requests: the
\* two sides of a link are apart only while a request is between the ente and
\* its save, after an accident, after two requests at once, or by an old copy.
THEOREM VisibilitaSempreSpiegata == Spec => []VisibilitaSpiegata
<1>1. Init => InvTipi /\ InvEsito /\ InvVisibilita
  BY TipiIniziali, EsitoIniziale, VisibilitaIniziale
<1>2. InvTipi /\ InvEsito /\ InvVisibilita /\ [Next]_vars
        => (InvTipi /\ InvEsito /\ InvVisibilita)'
  BY TipiConservati, EsitoConservato, VisibilitaConservata
<1>3. InvVisibilita => VisibilitaSpiegata
  BY AccordoBasta DEF InvVisibilita
<1> QED
  BY <1>1, <1>2, <1>3, PTL DEF Spec
===============================================================================
