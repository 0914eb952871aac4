----------------------- MODULE FirTrasmissioneProof -------------------------
(***************************************************************************)
(* Proofs about FirTrasmissione: its type invariant, the inductive         *)
(* invariant of FirTrasmissioneInv and what follows from it, then the      *)
(* annulments, the link and the pending transaction of a FIR, for any      *)
(* workers, requests, operations and bounds.                               *)
(***************************************************************************)
EXTENDS FirTrasmissioneInv, FiniteSetTheorems, TLAPS

-----------------------------------------------------------------------------
(* The operators on the aggregate return an aggregate. *)

\* Transactions and the numbers of their formulari.
LEMMA Intervalli ==
  /\ 0 \in 0 .. MaxPost
  /\ 1 .. MaxPost \subseteq 0 .. MaxPost
  /\ 0 .. MaxPost \subseteq Numeri
  /\ Esterno \in Numeri
BY FirTrasmissioneAssumption DEF Numeri, Esterno

\* The transitions of RENTRISyncStatus.
LEMMA TipiStato ==
  /\ Pending \in SyncStatus
  /\ Synced \in SyncStatus
  /\ \A s \in SyncStatus : MarkAsSyncing(s) \in SyncStatus
  /\ \A s \in SyncStatus, c \in Codici : MarkAsFailed(s, c) \in SyncStatus
BY DEF Pending, Synced, MarkAsSyncing, MarkAsFailed, Failed, SyncStatus, Stati,
       Codici, NON_RETRYABLE, ApiError, NessunCodice, Forbidden,
       ValidationError, Incerta, MissingNumero, NonAcquisito, CertMancante

\* The aggregate of a FIR just issued.
LEMMA TipoIniziale == FirEmesso \in Fir
BY TipiStato, Intervalli DEF FirEmesso, Fir, StatiFir

\* The codes written by an attempt.
LEMMA TipiCodici ==
  {ApiError, Forbidden, ValidationError, Incerta, MissingNumero, NonAcquisito,
   CertMancante} \subseteq Codici
BY DEF Codici, NON_RETRYABLE, ApiError, Forbidden, ValidationError, Incerta,
       MissingNumero, NonAcquisito, CertMancante

\* What an attempt does to its aggregate.
LEMMA TipiTentativo ==
  ASSUME NEW f \in Fir
  PROVE  /\ \A o \in Nat : AvviaTentativo(f, o) \in Fir
         /\ \A t \in 1 .. MaxPost : RegistraTransazioneInAttesa(f, t) \in Fir
         /\ ChiudiTransazione(f) \in Fir
         /\ \A c \in Codici : MarkSyncFailed(f, c) \in Fir
         /\ \A c \in Codici : Fallimento(f, c) \in Fir
         /\ SegnaIncerta(f) \in Fir
         /\ \A t \in 0 .. MaxPost, c \in BOOLEAN : EsitoPositivo(f, t, c) \in Fir
<1>1. \A s \in SyncStatus : [f EXCEPT !.sync = s] \in Fir
  BY DEF Fir
<1>2. \A c \in Codici : MarkSyncFailed(f, c) \in Fir
  BY <1>1, TipiStato DEF MarkSyncFailed, Fir
<1>3. \A c \in Codici : Fallimento(f, c) \in Fir
  BY <1>2, TipiCodici DEF Fallimento
<1>4. \A o \in Nat : AvviaTentativo(f, o) \in Fir
  BY TipiStato DEF AvviaTentativo, Fir
<1>5. \A g \in Fir : ChiudiTransazione(g) \in Fir
  BY Intervalli DEF ChiudiTransazione, Fir
<1>6. SegnaIncerta(f) \in Fir
  BY <1>2, <1>5, TipiCodici DEF SegnaIncerta
<1>7. \A t \in 1 .. MaxPost : RegistraTransazioneInAttesa(f, t) \in Fir
  BY Intervalli DEF RegistraTransazioneInAttesa, Fir
<1>8. \A t \in 0 .. MaxPost, c \in BOOLEAN : EsitoPositivo(f, t, c) \in Fir
  BY TipiStato, Intervalli DEF EsitoPositivo, MarkSynced, ProponiLegame, Fir
<1> QED
  BY <1>2, <1>3, <1>4, <1>5, <1>6, <1>7, <1>8

\* What the other requests do to theirs.
LEMMA TipiRichiesta ==
  ASSUME NEW f \in Fir, NEW op \in OperazioniNote, op # "RIAPRI", NEW esiti,
         NEW g \in Applica(op, f, esiti)
  PROVE  g \in Fir
<1>1. CASE op = "RICONCILIA_SYNCING"
  <2>1. PICK c \in Conferme : g = EsitoPositivo(f, f.transazione, c)
    BY <1>1 DEF Applica
  <2>2. f.transazione \in 0 .. MaxPost /\ c \in BOOLEAN
    BY FirTrasmissioneAssumption DEF Fir
  <2> QED
    BY <2>1, <2>2, TipiTentativo
<1>2. CASE op = "STATO_ENTE"
  <2>1. PICK s \in StatiEnte : g = ApplicaStatoEnte(f, s)
    BY <1>2 DEF Applica
  <2> QED
    BY <2>1 DEF ApplicaStatoEnte, StatiEnte, Fir, StatiFir
<1>3. CASE op \notin {"RICONCILIA_SYNCING", "STATO_ENTE"}
  BY <1>3, Intervalli DEF OperazioniNote, Applica, Fir, StatiFir
<1> QED
  BY <1>1, <1>2, <1>3

\* What a save leaves in the row.
LEMMA TipiSalvataggio ==
  ASSUME NEW riga \in Fir, NEW f \in Fir
  PROVE  RigaSalvata(riga, f) \in Fir /\ Salva(riga, f) \in Fir
BY DEF RigaSalvata, Salva, Fir

-----------------------------------------------------------------------------
(* The type invariant. *)

\* Moving a worker to a step, with an aggregate.
LEMMA TipiVai ==
  ASSUME TypeOK, NEW w \in Workers, NEW p \in Passi, NEW f \in Fir, Vai(w, p, f)
  PROVE  pc' \in [Workers -> Passi] /\ copia' \in [Workers -> Fir]
BY DEF Vai, TypeOK

LEMMA TipiTermina ==
  ASSUME TypeOK, NEW w \in Workers, Termina(w)
  PROVE  /\ pc' \in [Workers -> Passi]
         /\ copia' \in [Workers -> Fir]
         /\ ora' \in [Workers -> Nat]
         /\ scaduta' \in [Workers -> BOOLEAN]
<1>1. "fermo" \in Passi
  BY DEF Passi
<1>2. Vai(w, "fermo", FirEmesso)
  BY DEF Termina
<1> QED
  BY <1>1, <1>2, TipiVai, TipoIniziale DEF Termina, TypeOK

\* The counters.
LEMMA TipiContatori ==
  ASSUME TypeOK
  PROVE  /\ Imprevisto => imprevisti' \in Nat
         /\ \A c : Deroga(c) => deroghe' \in Nat
         /\ Accettata => /\ post' \in 1 .. MaxPost
                         /\ post' = post + 1
                         /\ esito' \in [Transazioni -> {"nessuna", "inCorso",
                              "conNumero", "senzaNumero", "rifiutata"}]
<1>1. Imprevisto => imprevisti' \in Nat
  BY DEF TypeOK, Imprevisto
<1>2. \A c : Deroga(c) => deroghe' \in Nat
  BY DEF TypeOK, Deroga
<1>3. ASSUME Accettata
      PROVE  post' \in 1 .. MaxPost /\ post' = post + 1
  BY <1>3, FirTrasmissioneAssumption DEF TypeOK, Accettata
<1>4. ASSUME Accettata
      PROVE  esito' \in [Transazioni -> {"nessuna", "inCorso",
                          "conNumero", "senzaNumero", "rifiutata"}]
  BY <1>4 DEF TypeOK, Accettata
<1> QED
  BY <1>1, <1>2, <1>3, <1>4

\* The steps of an attempt.
LEMMA TipiPassi ==
  ASSUME TypeOK, NEW w \in Workers, Tentativo(w)
  PROVE  TypeOK'
<1> USE DEF locali, ambiente, storia
<1>t. /\ db \in Fir /\ copia[w] \in Fir /\ ora[w] \in Nat
      /\ copia[w].inAttesa \in 0 .. MaxPost
  BY DEF TypeOK, Fir
<1>p. \A p \in {"fermo", "letto", "prenotato", "daSpedire", "daRegistrare",
                 "inAttesaEsito", "salvaEsito", "salvaErrore", "risalva"} :
        p \in Passi
  BY DEF Passi
<1>a. AvviaTentativo(db, ora[w]) \in Fir
  BY <1>t, TipiTentativo
<1>1. CASE Leggi(w)
  BY <1>1, <1>t, <1>p, TipiVai DEF Leggi, TypeOK
<1>2. CASE Prenota(w)
  <2>1. [db.sync EXCEPT !.status = "SYNCING"] \in SyncStatus
    BY <1>t DEF Fir, SyncStatus, Stati
  <2>2. orologio + 1 \in Nat
    BY DEF TypeOK
  <2>3. db' \in Fir
    BY <1>2, <1>t, <2>1, <2>2 DEF Prenota, Fir
  <2> QED
    BY <1>2, <2>2, <2>3, <1>p DEF Prenota, TypeOK
<1>3. CASE PrenotazionePersa(w)
  BY <1>3, TipiTermina DEF PrenotazionePersa, TypeOK
<1>4. CASE AvviaRifiutato(w)
  <2>1. MarkSyncFailed(db, ApiError) \in Fir
    BY <1>t, TipiTentativo, TipiCodici
  <2> QED
    BY <1>4, <2>1, <1>p, TipiVai, TipiContatori DEF AvviaRifiutato, TypeOK
<1>5. CASE AvviaStalloIncerto(w)
  <2>1. SegnaIncerta(AvviaTentativo(db, ora[w])) \in Fir
    BY <1>a, TipiTentativo
  <2> QED
    BY <1>5, <2>1, <1>p, TipiVai DEF AvviaStalloIncerto, TypeOK
<1>6. CASE Avvia(w)
  BY <1>6, <1>a, <1>p, TipiVai DEF Avvia, TypeOK
<1>7. CASE AvviaFallito(w)
  <2>1. MarkSyncFailed(AvviaTentativo(db, ora[w]), ApiError) \in Fir
    BY <1>a, TipiTentativo, TipiCodici
  <2> QED
    BY <1>7, <2>1, <1>p, TipiVai, TipiContatori DEF AvviaFallito, TypeOK
<1>8. CASE Spedisci(w)
  <2>1. post + 1 \in 1 .. MaxPost
    BY <1>8, TipiContatori DEF Spedisci
  <2>2. RegistraTransazioneInAttesa(copia[w], post + 1) \in Fir
    BY <2>1, <1>t, TipiTentativo
  <2> QED
    BY <1>8, <2>2, <1>p, TipiVai, TipiContatori, Intervalli DEF Spedisci, TypeOK
<1>9. CASE SpedisciIncerto(w)
  <2>1. SegnaIncerta(copia[w]) \in Fir
    BY <1>t, TipiTentativo
  <2> QED
    BY <1>9, <2>1, <1>p, TipiVai, TipiContatori, Intervalli
       DEF SpedisciIncerto, TypeOK
<1>10. CASE SpedisciFallito(w)
  <2>1. PICK c \in Codici : Vai(w, "salvaErrore", Fallimento(copia[w], c))
    BY <1>10, TipiCodici DEF SpedisciFallito
  <2>2. Fallimento(copia[w], c) \in Fir
    BY <1>t, TipiTentativo
  <2> QED
    BY <1>10, <2>1, <2>2, <1>p, TipiVai DEF SpedisciFallito, TypeOK
<1>11. CASE Registra(w)
  <2>1. db' \in Fir
    BY <1>11, <1>t DEF Registra, RegistraTransazioneInAttesa, Fir
  <2> QED
    BY <1>11, <2>1, <1>t, <1>p, TipiVai DEF Registra, TypeOK
<1>12. CASE RegistraFallito(w)
  <2>1. Fallimento(copia[w], ApiError) \in Fir
    BY <1>t, TipiTentativo, TipiCodici
  <2> QED
    BY <1>12, <2>1, <1>p, TipiVai, TipiContatori DEF RegistraFallito, TypeOK
<1>13. CASE LeggiEsito(w)
  <2>1. PICK f \in Fir : Vai(w, "salvaEsito", f)
    <3>1. \A c \in Conferme : EsitoPositivo(copia[w], copia[w].inAttesa, c) \in Fir
      BY <1>t, TipiTentativo, FirTrasmissioneAssumption
    <3>2. \A c \in Codici : MarkSyncFailed(ChiudiTransazione(copia[w]), c) \in Fir
      BY <1>t, TipiTentativo
    <3> QED
      BY <1>13, <3>1, <3>2, TipiCodici DEF LeggiEsito
  <2> QED
    BY <1>13, <2>1, <1>p, TipiVai DEF LeggiEsito, TypeOK
<1>14. CASE TransazioneNonTrovata(w)
  <2>1. SegnaIncerta(copia[w]) \in Fir
    BY <1>t, TipiTentativo
  <2> QED
    BY <1>14, <2>1, <1>p, TipiVai DEF TransazioneNonTrovata, TypeOK
<1>15. CASE LeggiEsitoFallito(w)
  <2>1. PICK f \in Fir : Vai(w, "salvaErrore", f)
    BY <1>15, <1>t, TipiTentativo, TipiCodici DEF LeggiEsitoFallito
  <2> QED
    BY <1>15, <2>1, <1>p, TipiVai DEF LeggiEsitoFallito, TypeOK
<1>16. CASE SalvaEsito(w)
  BY <1>16, <1>t, TipiTermina, TipiSalvataggio DEF SalvaEsito, TypeOK
<1>17. CASE SalvaEsitoFallito(w)
  <2>1. Fallimento(copia[w], ApiError) \in Fir /\ db' \in Fir
    BY <1>17, <1>t, TipiTentativo, TipiCodici, TipiSalvataggio
       DEF SalvaEsitoFallito
  <2> QED
    BY <1>17, <2>1, <1>p, TipiVai, TipiContatori DEF SalvaEsitoFallito, TypeOK
<1>18. CASE SalvaSincronizzatoFallito(w)
  BY <1>18, <1>t, TipiTermina, TipiSalvataggio, TipiContatori
     DEF SalvaSincronizzatoFallito, TypeOK
<1>19. CASE SalvaErrore(w)
  BY <1>19, <1>t, TipiTermina, TipiSalvataggio DEF SalvaErrore, TypeOK
<1>20. CASE AvviaSuSincronizzato(w)
  BY <1>20, TipiTermina DEF AvviaSuSincronizzato, TypeOK
<1> QED
  BY <1>1, <1>2, <1>3, <1>4, <1>5, <1>6, <1>7, <1>8, <1>9, <1>10, <1>11, <1>12,
     <1>13, <1>14, <1>15, <1>16, <1>17, <1>18, <1>19, <1>20 DEF Tentativo

\* The steps of the other requests.
LEMMA TipiRichieste ==
  ASSUME TypeOK, NEW r \in Richieste, Richiesta(r)
  PROVE  TypeOK'
<1> USE DEF locali, ambiente, storia
<1> DEFINE Note == [op : OperazioniNote \cup {Nessuno, "SELEZIONATA"}, fir : Fir]
<1>t. db \in Fir /\ richiesta[r] \in Note /\ Libera \in Note /\ Selezionata \in Note
  BY TipoIniziale DEF TypeOK, Libera, Selezionata
<1>1. ASSUME NEW op \in Operazioni, Carica(r, op)
      PROVE  TypeOK'
  <2>1. [op |-> op, fir |-> db] \in Note
    BY <1>t, FirTrasmissioneAssumption
  <2> QED
    BY <1>1, <2>1 DEF Carica, TypeOK
<1>2. CASE SalvaRiapertura(r)
  <2>1. [richiesta[r].fir EXCEPT !.sync = Pending] \in Fir
    BY <1>t, TipiStato DEF Fir
  <2> QED
    BY <1>2, <1>t, <2>1, TipiSalvataggio DEF SalvaRiapertura, TypeOK
<1>3. CASE SalvaRichiesta(r)
  <2>1. PICK f \in Applica(richiesta[r].op, richiesta[r].fir, esito) :
          db' = Salva(db, f)
    BY <1>3 DEF SalvaRichiesta
  <2>2. f \in Fir
    BY <1>3, <1>t, TipiRichiesta DEF SalvaRichiesta
  <2> QED
    BY <1>3, <1>t, <2>1, <2>2, TipiSalvataggio, TipiContatori
       DEF SalvaRichiesta, TypeOK
<1>4. CASE Abbandona(r)
  BY <1>4, <1>t DEF Abbandona, TypeOK
<1>5. CASE Seleziona(r)
  BY <1>5, <1>t DEF Seleziona, TypeOK
<1> QED
  BY <1>1, <1>2, <1>3, <1>4, <1>5 DEF Richiesta

LEMMA TipiCertificato ==
  ASSUME TypeOK, Certificato
  PROVE  TypeOK'
<1> USE DEF locali, storia, StatiCertificato
<1>1. [db EXCEPT !.sync = Pending] \in Fir
  BY TipiStato DEF TypeOK, Fir
<1>2. db' \in Fir
  BY <1>1 DEF TypeOK, Certificato, CaricaCertificato, RiapriFermiPerCertificato,
              RiaperturaFermiFallita, RimuoviCertificato
<1> QED
  BY <1>2, TipiContatori
     DEF TypeOK, Certificato, CaricaCertificato, RiapriFermiPerCertificato,
         RiaperturaFermiFallita, RimuoviCertificato

LEMMA TipiIniziali == Init => TypeOK
<1>1. FirEmessoSenzaCertificato \in Fir
  BY TipoIniziale, TipiCodici, TipiTentativo DEF FirEmessoSenzaCertificato
<1> QED
  BY <1>1, TipoIniziale, FirTrasmissioneAssumption
     DEF Init, TypeOK, Passi, Libera, StatiCertificato, Transazioni

LEMMA TipiConservati == TypeOK /\ [Next]_vars => TypeOK'
<1> SUFFICES ASSUME TypeOK, [Next]_vars PROVE TypeOK'
  OBVIOUS
<1> USE DEF locali, ambiente, storia
<1>1. ASSUME NEW w \in Workers, SuperaSoglia(w) PROVE TypeOK'
  BY <1>1 DEF SuperaSoglia, TypeOK
<1>2. ASSUME NEW w \in Workers, Muore(w) PROVE TypeOK'
  BY <1>2, TipiTermina, TipiContatori DEF Muore, TypeOK
<1>3. ASSUME NEW t \in Transazioni, EnteElabora(t) PROVE TypeOK'
  BY <1>3 DEF EnteElabora, TypeOK
<1>4. CASE UNCHANGED vars
  BY <1>4 DEF vars, TypeOK
<1> QED
  BY <1>1, <1>2, <1>3, <1>4, TipiPassi, TipiRichieste, TipiCertificato DEF Next

\* Every state of the program has the types the tables and the classes give:
\* no attempt, no stale save and no reopening takes the row, or a copy of it,
\* out of them.
THEOREM TipiCorretti == Spec => []TypeOK
BY TipiIniziali, TipiConservati, PTL DEF Spec

-----------------------------------------------------------------------------
(* What the operators on the aggregate do to the columns the invariant     *)
(* talks about.                                                            *)

\* A failure: coherent, of a reservation as old as before.
LEMMA EffettiFallimento ==
  ASSUME NEW f \in Fir, NEW c \in Codici,
         NEW g \in {MarkSyncFailed(f, c), Fallimento(f, c)}
  PROVE  /\ Coerente(g)
         /\ g.sync.status \in {"FAILED", "PERMANENTLY_FAILED"}
         /\ g.avviato = f.avviato
         /\ g.inAttesa = f.inAttesa
<1>1. \A d \in Codici :
        /\ Coerente(MarkSyncFailed(f, d))
        /\ MarkSyncFailed(f, d).sync.status \in {"FAILED", "PERMANENTLY_FAILED"}
        /\ MarkSyncFailed(f, d).avviato = f.avviato
        /\ MarkSyncFailed(f, d).inAttesa = f.inAttesa
  BY DEF MarkSyncFailed, MarkAsFailed, Failed, Coerente, Fir
<1> QED
  BY <1>1, TipiCodici DEF Fallimento

\* A final failure with a non-retryable code, the certificate excepted,
\* allows no POST.
LEMMA FallimentoFinale ==
  ASSUME NEW f \in Fir, NEW c \in NON_RETRYABLE \ {CertMancante}
  PROVE  /\ MarkSyncFailed(f, c).sync.status = "PERMANENTLY_FAILED"
         /\ ~NuovaPostPossibile(MarkSyncFailed(f, c))
BY DEF MarkSyncFailed, MarkAsFailed, Failed, NuovaPostPossibile, Fir

LEMMA EffettiChiusura ==
  ASSUME NEW f \in Fir
  PROVE  /\ ChiudiTransazione(f) \in Fir
         /\ ChiudiTransazione(f).sync = f.sync
         /\ ChiudiTransazione(f).avviato = f.avviato
         /\ ChiudiTransazione(f).inAttesa = 0
BY TipiTentativo DEF ChiudiTransazione, Fir

\* An uncertain creation allows no POST.
LEMMA EffettiIncerta ==
  ASSUME NEW f \in Fir
  PROVE  /\ Coerente(SegnaIncerta(f))
         /\ SegnaIncerta(f).sync.status = "PERMANENTLY_FAILED"
         /\ SegnaIncerta(f).avviato = f.avviato
         /\ ~NuovaPostPossibile(SegnaIncerta(f))
<1> DEFINE g == MarkSyncFailed(f, Incerta)
<1>1. Incerta \in Codici /\ Incerta \in NON_RETRYABLE \ {CertMancante}
  BY DEF Codici, NON_RETRYABLE, Incerta, CertMancante
<1>2. /\ g \in Fir /\ Coerente(g) /\ g.avviato = f.avviato
      /\ g.sync.status = "PERMANENTLY_FAILED"
      /\ g.sync.code = Incerta
  BY <1>1, TipiTentativo, EffettiFallimento, FallimentoFinale
     DEF MarkSyncFailed, MarkAsFailed, Failed, Fir
<1>3. SegnaIncerta(f) = ChiudiTransazione(g)
  BY DEF SegnaIncerta
<1> HIDE DEF g
<1> QED
  BY <1>1, <1>2, <1>3, EffettiChiusura DEF Coerente, NuovaPostPossibile

\* A start, a transaction, an outcome.
LEMMA EffettiAvvia ==
  ASSUME NEW f \in Fir, NEW o \in Nat
  PROVE  /\ Coerente(AvviaTentativo(f, o))
         /\ AvviaTentativo(f, o).sync.status = "SYNCING"
         /\ AvviaTentativo(f, o).avviato = o
         /\ AvviaTentativo(f, o).inAttesa = f.inAttesa
BY DEF AvviaTentativo, MarkAsSyncing, Coerente, Fir, NON_RETRYABLE,
       NessunCodice, Forbidden, ValidationError, Incerta, MissingNumero,
       NonAcquisito, CertMancante

LEMMA EffettiRegistra ==
  ASSUME NEW f \in Fir, NEW t \in 1 .. MaxPost
  PROVE  /\ RegistraTransazioneInAttesa(f, t).sync = f.sync
         /\ RegistraTransazioneInAttesa(f, t).avviato = f.avviato
         /\ RegistraTransazioneInAttesa(f, t).inAttesa = t
BY DEF RegistraTransazioneInAttesa, Fir

LEMMA EffettiPositivo ==
  ASSUME NEW f \in Fir, NEW t, NEW c \in BOOLEAN
  PROVE  /\ Coerente(EsitoPositivo(f, t, c))
         /\ EsitoPositivo(f, t, c).sync.status = "SYNCED"
         /\ EsitoPositivo(f, t, c).avviato = f.avviato
         /\ EsitoPositivo(f, t, c).inAttesa = 0
         /\ ~NuovaPostPossibile(EsitoPositivo(f, t, c))
BY DEF EsitoPositivo, MarkSynced, ProponiLegame, Synced, Coerente, Fir,
       NON_RETRYABLE, NessunCodice, Forbidden, ValidationError, Incerta,
       MissingNumero, NonAcquisito, CertMancante, NuovaPostPossibile

\* The columns of the transmission after a save: those of a copy as recent as
\* the row, or those the row had.
Scrive(f) ==
  /\ db'.avviato = db.avviato
  /\ \/ db'.sync = db.sync /\ db'.inAttesa = db.inAttesa
     \/ /\ f.avviato = db.avviato
        /\ db'.sync = f.sync
        /\ db'.inAttesa = f.inAttesa

LEMMA EffettiSalva ==
  ASSUME NEW f \in Fir, db \in Fir, f.avviato <= db.avviato,
         db' \in {db, RigaSalvata(db, f), Salva(db, f)}
  PROVE  Scrive(f)
<1>1. CASE db' = db
  BY <1>1 DEF Scrive
<1>2. CASE db' = RigaSalvata(db, f)
  <2>1. CASE db.avviato # 0 /\ f.avviato < db.avviato
    BY <1>2, <2>1 DEF RigaSalvata, Scrive, Fir
  <2>2. CASE ~(db.avviato # 0 /\ f.avviato < db.avviato)
    <3>1. f.avviato = db.avviato
      BY <2>2 DEF Fir
    <3> QED
      BY <1>2, <2>2, <3>1 DEF RigaSalvata, Scrive, Fir
  <2> QED
    BY <2>1, <2>2
<1> QED
  BY <1>1, <1>2 DEF Salva

-----------------------------------------------------------------------------
(* The actions in a few classes, by what they do to the columns and the    *)
(* local states the invariant talks about.                                 *)

Forma == Istanti /\ Codifica /\ Copie /\ Prenotazioni

\* The columns of the transmission stay as they are.
Invariata ==
  db'.avviato = db.avviato /\ db'.sync = db.sync /\ db'.inAttesa = db.inAttesa

\* What a step may have in its copy.
CopiaAdatta(q, f) ==
  /\ q \in {"daRegistrare", "inAttesaEsito"} => f.inAttesa # 0
  /\ q = "salvaEsito" => /\ f.sync.status \in {"SYNCED", "PERMANENTLY_FAILED"}
                         /\ ~NuovaPostPossibile(f)
  /\ q \in {"salvaErrore", "risalva"} =>
       f.sync.status \in {"FAILED", "PERMANENTLY_FAILED"}

\* An attempt that has reserved goes on to its next step.
Muove(w, q, f) ==
  /\ Tiene(w)
  /\ q \in {"daSpedire", "daRegistrare", "inAttesaEsito", "salvaEsito",
            "salvaErrore"}
  /\ Vai(w, q, f)
  /\ Coerente(f)
  /\ f.avviato = ora[w]
  /\ CopiaAdatta(q, f)
  /\ db'.sync = db.sync /\ db'.avviato = db.avviato
  /\ UNCHANGED <<ora, scaduta, richiesta, orologio>>

\* An attempt ends, with or without a save.
Chiude(w) ==
  /\ Termina(w)
  /\ \/ Invariata
     \/ /\ pc[w] \in {"salvaEsito", "salvaErrore", "risalva"}
        /\ Scrive(copia[w])
  /\ UNCHANGED <<richiesta, orologio>>

\* The actions of an attempt that has reserved, up to its save.
Interna(w) ==
  \/ AvviaRifiutato(w) \/ AvviaStalloIncerto(w) \/ Avvia(w) \/ AvviaFallito(w)
  \/ Spedisci(w) \/ SpedisciIncerto(w) \/ SpedisciFallito(w)
  \/ Registra(w) \/ RegistraFallito(w)
  \/ LeggiEsito(w) \/ TransazioneNonTrovata(w) \/ LeggiEsitoFallito(w)

\* The copies of the attempts that have started.
LEMMA CopieVive ==
  ASSUME TypeOK, Forma, NEW w \in Workers
  PROVE  /\ db \in Fir /\ copia[w] \in Fir /\ ora[w] \in Nat
         /\ db.avviato = orologio /\ orologio \in Nat
         /\ copia[w].avviato <= db.avviato
         /\ Coerente(db) /\ Coerente(copia[w])
         /\ copia[w].inAttesa \in 0 .. MaxPost
         /\ pc[w] \in {"daSpedire", "daRegistrare", "inAttesaEsito", "salvaEsito",
                      "salvaErrore", "risalva"} => copia[w].avviato = ora[w]
         /\ pc[w] \in {"daRegistrare", "inAttesaEsito"} =>
              copia[w].inAttesa \in 1 .. MaxPost
BY DEF TypeOK, Forma, Istanti, Codifica, Copie, Vivo, Fir

\* An attempt that has reserved and not started holds the last reservation,
\* and it is the only one.
LEMMA PrenotatoTiene ==
  ASSUME TypeOK, Forma, NEW w \in Workers, pc[w] = "prenotato"
  PROVE  /\ ora[w] = db.avviato
         /\ db.sync.status \in {"SYNCING", "SYNCED"}
         /\ \A v \in Workers : pc[v] = "prenotato" => v = w
         /\ \A v \in Workers :
              pc[v] = "letto" /\ copia[v].avviato = db.avviato =>
                copia[v].sync.status = "SYNCING"
<1>1. \A v \in Workers : pc[v] = "prenotato" =>
        Tiene(v) /\ ~scaduta[v] /\ Vivo(v)
  BY DEF Forma, Istanti, Tiene, Vivo
<1>2. \A v \in Workers : pc[v] = "prenotato" => ora[v] = orologio
  BY <1>1 DEF Forma, Prenotazioni
<1> QED
  BY <1>1, <1>2 DEF Forma, Prenotazioni, Istanti

LEMMA ClasseInterna ==
  ASSUME TypeOK, Forma, NEW w \in Workers, Interna(w)
  PROVE  \E q \in Passi, f \in Fir : Muove(w, q, f)
<1> USE DEF ambiente, storia
<1>q. {"daSpedire", "daRegistrare", "inAttesaEsito", "salvaEsito",
       "salvaErrore"} \subseteq Passi
  BY DEF Passi
<1>t. /\ pc[w] \in {"prenotato", "daSpedire", "daRegistrare", "inAttesaEsito"} =>
           Tiene(w)
      /\ db \in Fir /\ copia[w] \in Fir /\ ora[w] \in Nat
  BY CopieVive DEF Tiene, Vivo
<1>c. {ApiError, Forbidden, CertMancante} \subseteq Codici
  BY TipiCodici
<1>a. /\ AvviaTentativo(db, ora[w]) \in Fir
      /\ Coerente(AvviaTentativo(db, ora[w]))
      /\ AvviaTentativo(db, ora[w]).avviato = ora[w]
      /\ AvviaTentativo(db, ora[w]).inAttesa = db.inAttesa
  BY <1>t, TipiTentativo, EffettiAvvia
<1>f. ASSUME NEW f \in Fir, NEW c \in Codici, f.avviato = ora[w],
             NEW g \in {MarkSyncFailed(f, c), Fallimento(f, c)}
      PROVE  /\ g \in Fir /\ Coerente(g) /\ g.avviato = ora[w]
             /\ CopiaAdatta("salvaErrore", g)
  BY <1>f, TipiTentativo, EffettiFallimento DEF CopiaAdatta
<1>i. ASSUME NEW f \in Fir, f.avviato = ora[w]
      PROVE  /\ SegnaIncerta(f) \in Fir /\ Coerente(SegnaIncerta(f))
             /\ SegnaIncerta(f).avviato = ora[w]
             /\ CopiaAdatta("salvaErrore", SegnaIncerta(f))
  BY <1>i, TipiTentativo, EffettiIncerta DEF CopiaAdatta
<1>1. CASE AvviaRifiutato(w)
  <2>1. db.avviato = ora[w] /\ ApiError \in Codici
    BY <1>1, <1>c, PrenotatoTiene DEF AvviaRifiutato
  <2>2. Muove(w, "salvaErrore", MarkSyncFailed(db, ApiError))
    BY <1>1, <1>t, <1>f, <2>1 DEF AvviaRifiutato, Muove
  <2> QED
    BY <1>t, <1>q, <1>f, <2>1, <2>2
<1>2. CASE AvviaStalloIncerto(w)
  <2>1. Muove(w, "salvaErrore", SegnaIncerta(AvviaTentativo(db, ora[w])))
    BY <1>2, <1>t, <1>a, <1>i DEF AvviaStalloIncerto, Muove
  <2> QED
    BY <1>a, <1>q, <1>i, <2>1
<1>3. CASE Avvia(w)
  <2> DEFINE q == IF db.inAttesa = 0 THEN "daSpedire" ELSE "inAttesaEsito"
  <2>1. CopiaAdatta(q, AvviaTentativo(db, ora[w]))
    BY <1>a DEF CopiaAdatta
  <2>2. Muove(w, q, AvviaTentativo(db, ora[w]))
    BY <1>3, <1>t, <1>a, <2>1 DEF Avvia, Muove
  <2> QED
    BY <1>a, <1>q, <2>2
<1>4. CASE AvviaFallito(w)
  <2>1. Muove(w, "salvaErrore", MarkSyncFailed(AvviaTentativo(db, ora[w]), ApiError))
    BY <1>4, <1>t, <1>a, <1>c, <1>f DEF AvviaFallito, Muove
  <2> QED
    BY <1>a, <1>c, <1>q, <1>f, <2>1
<1>5. CASE Spedisci(w)
  <2> DEFINE f == RegistraTransazioneInAttesa(copia[w], post + 1)
  <2>1. copia[w].avviato = ora[w] /\ Coerente(copia[w])
    BY <1>5, CopieVive DEF Spedisci
  <2>2. post + 1 \in 1 .. MaxPost
    BY <1>5, TipiContatori DEF Spedisci
  <2>3. f \in Fir /\ f.sync = copia[w].sync /\ f.avviato = ora[w] /\ f.inAttesa # 0
    BY <1>t, <2>1, <2>2, TipiTentativo, EffettiRegistra
  <2>4. CopiaAdatta("daRegistrare", f) /\ Coerente(f)
    BY <2>1, <2>3 DEF CopiaAdatta, Coerente
  <2>5. Muove(w, "daRegistrare", f)
    BY <1>5, <1>t, <2>3, <2>4 DEF Spedisci, Muove
  <2> QED
    BY <1>q, <2>3, <2>5
<1>6. CASE SpedisciIncerto(w)
  <2>1. copia[w].avviato = ora[w]
    BY <1>6, CopieVive DEF SpedisciIncerto
  <2>2. Muove(w, "salvaErrore", SegnaIncerta(copia[w]))
    BY <1>6, <1>t, <1>i, <2>1 DEF SpedisciIncerto, Muove
  <2> QED
    BY <1>t, <1>q, <1>i, <2>1, <2>2
<1>7. CASE SpedisciFallito(w)
  <2>1. copia[w].avviato = ora[w]
    BY <1>7, CopieVive DEF SpedisciFallito
  <2>2. PICK c \in Codici : Vai(w, "salvaErrore", Fallimento(copia[w], c))
    BY <1>7, <1>c DEF SpedisciFallito
  <2>3. Muove(w, "salvaErrore", Fallimento(copia[w], c))
    BY <1>7, <1>t, <1>f, <2>1, <2>2 DEF SpedisciFallito, Muove
  <2> QED
    BY <1>t, <1>q, <1>f, <2>1, <2>3
<1>8. CASE Registra(w)
  <2>1. /\ copia[w].avviato = ora[w] /\ Coerente(copia[w])
        /\ copia[w].inAttesa \in 1 .. MaxPost
    BY <1>8, CopieVive DEF Registra
  <2>2. db'.sync = db.sync /\ db'.avviato = db.avviato
    BY <1>8, <1>t, <2>1, EffettiRegistra DEF Registra
  <2>3. CopiaAdatta("inAttesaEsito", copia[w])
    BY <2>1 DEF CopiaAdatta
  <2>4. Muove(w, "inAttesaEsito", copia[w])
    BY <1>8, <1>t, <2>1, <2>2, <2>3 DEF Registra, Muove
  <2> QED
    BY <1>t, <1>q, <2>4
<1>9. CASE RegistraFallito(w)
  <2>1. copia[w].avviato = ora[w]
    BY <1>9, CopieVive DEF RegistraFallito
  <2>2. Muove(w, "salvaErrore", Fallimento(copia[w], ApiError))
    BY <1>9, <1>t, <1>c, <1>f, <2>1 DEF RegistraFallito, Muove
  <2> QED
    BY <1>t, <1>c, <1>q, <1>f, <2>1, <2>2
<1>10. CASE LeggiEsito(w)
  <2>1. copia[w].avviato = ora[w]
    BY <1>10, CopieVive DEF LeggiEsito
  <2>2. PICK f : /\ Vai(w, "salvaEsito", f)
                 /\ \/ \E c \in Conferme : f = EsitoPositivo(copia[w], copia[w].inAttesa, c)
                    \/ \E c \in {MissingNumero, ValidationError} :
                         f = MarkSyncFailed(ChiudiTransazione(copia[w]), c)
    BY <1>10 DEF LeggiEsito
  <2>3. /\ f \in Fir /\ Coerente(f) /\ f.avviato = ora[w]
        /\ f.sync.status \in {"SYNCED", "PERMANENTLY_FAILED"}
        /\ ~NuovaPostPossibile(f)
    <3>1. CASE \E c \in Conferme : f = EsitoPositivo(copia[w], copia[w].inAttesa, c)
      <4> DEFINE t == copia[w].inAttesa
      <4>1. PICK c \in BOOLEAN : f = EsitoPositivo(copia[w], t, c)
        BY <3>1, FirTrasmissioneAssumption
      <4>2. t \in 0 .. MaxPost
        BY CopieVive
      <4> HIDE DEF t
      <4>3. f \in Fir
        BY <1>t, <4>1, <4>2, TipiTentativo
      <4> QED
        BY <1>t, <2>1, <4>1, <4>3, EffettiPositivo
    <3>2. ASSUME NEW c \in {MissingNumero, ValidationError},
                 f = MarkSyncFailed(ChiudiTransazione(copia[w]), c)
          PROVE  /\ f \in Fir /\ Coerente(f) /\ f.avviato = ora[w]
                 /\ f.sync.status \in {"SYNCED", "PERMANENTLY_FAILED"}
                 /\ ~NuovaPostPossibile(f)
      <4> DEFINE g == ChiudiTransazione(copia[w])
      <4>1. g \in Fir /\ g.avviato = ora[w]
        BY <1>t, <2>1, EffettiChiusura
      <4>2. c \in Codici /\ c \in NON_RETRYABLE \ {CertMancante}
        BY DEF Codici, NON_RETRYABLE, MissingNumero, ValidationError, CertMancante
      <4> QED
        BY <3>2, <4>1, <4>2, <1>f, FallimentoFinale
    <3> QED
      BY <2>2, <3>1, <3>2
  <2>4. Muove(w, "salvaEsito", f)
    BY <1>10, <1>t, <2>2, <2>3 DEF LeggiEsito, Muove, CopiaAdatta
  <2> QED
    BY <1>q, <2>3, <2>4
<1>11. CASE TransazioneNonTrovata(w)
  <2>1. copia[w].avviato = ora[w]
    BY <1>11, CopieVive DEF TransazioneNonTrovata
  <2>2. Muove(w, "salvaErrore", SegnaIncerta(copia[w]))
    BY <1>11, <1>t, <1>i, <2>1 DEF TransazioneNonTrovata, Muove
  <2> QED
    BY <1>t, <1>q, <1>i, <2>1, <2>2
<1>12. CASE LeggiEsitoFallito(w)
  <2>1. copia[w].avviato = ora[w]
    BY <1>12, CopieVive DEF LeggiEsitoFallito
  <2>2. PICK f : /\ Vai(w, "salvaErrore", f)
                 /\ \E c \in Codici : f \in {MarkSyncFailed(copia[w], c),
                                             Fallimento(copia[w], c)}
    BY <1>12, <1>c DEF LeggiEsitoFallito
  <2>3. /\ f \in Fir /\ Coerente(f) /\ f.avviato = ora[w]
        /\ CopiaAdatta("salvaErrore", f)
    BY <1>t, <1>f, <2>1, <2>2
  <2>4. Muove(w, "salvaErrore", f)
    BY <1>12, <1>t, <2>2, <2>3 DEF LeggiEsitoFallito, Muove
  <2> QED
    BY <1>q, <2>3, <2>4
<1> QED
  BY <1>1, <1>2, <1>3, <1>4, <1>5, <1>6, <1>7, <1>8, <1>9, <1>10, <1>11, <1>12
     DEF Interna

LEMMA ClasseChiude ==
  ASSUME TypeOK, Forma, NEW w \in Workers,
         \/ PrenotazionePersa(w) \/ AvviaSuSincronizzato(w) \/ Muore(w)
         \/ SalvaEsito(w) \/ SalvaSincronizzatoFallito(w) \/ SalvaErrore(w)
  PROVE  Chiude(w)
<1>1. /\ copia[w] \in Fir /\ db \in Fir /\ copia[w].avviato <= db.avviato
  BY CopieVive
<1>2. db' \in {db, RigaSalvata(db, copia[w]), Salva(db, copia[w])} => Scrive(copia[w])
  BY <1>1, EffettiSalva
<1> QED
  BY <1>2 DEF PrenotazionePersa, AvviaSuSincronizzato, Muore, SalvaEsito,
              SalvaSincronizzatoFallito, SalvaErrore, Chiude, Invariata

-----------------------------------------------------------------------------
(* Each class keeps the first four parts of the invariant. *)

LEMMA FormaMuove ==
  ASSUME TypeOK, Forma, NEW w \in Workers, NEW q \in Passi, NEW f \in Fir,
         Muove(w, q, f)
  PROVE  Forma'
<1>1. \A v \in Workers :
        /\ v # w => pc'[v] = pc[v] /\ copia'[v] = copia[v]
        /\ v = w => pc'[v] = q /\ copia'[v] = f
        /\ Vivo(v)' <=> Vivo(v)
        /\ Tiene(v)' <=> Tiene(v)
        /\ pc'[v] = "letto" <=> pc[v] = "letto"
        /\ pc'[v] = "prenotato" => pc[v] = "prenotato"
  BY DEF Muove, Vai, TypeOK, Vivo, Tiene
<1>2. /\ db'.sync = db.sync /\ db'.avviato = db.avviato /\ orologio' = orologio
      /\ ora' = ora /\ scaduta' = scaduta /\ richiesta' = richiesta
  BY DEF Muove
<1>3. /\ f.avviato = ora[w] /\ CopiaAdatta(q, f) /\ Coerente(f)
      /\ q \notin {"letto", "prenotato", "risalva"}
      /\ Vivo(w)
  BY DEF Muove, Tiene
<1>4. Istanti'
  BY <1>1, <1>2, <1>3 DEF Forma, Istanti
<1>5. Codifica'
  BY <1>1, <1>2, <1>3 DEF Forma, Codifica, Coerente
<1>6. Copie'
  BY <1>1, <1>2, <1>3 DEF Forma, Copie, CopiaAdatta
<1>7. Prenotazioni'
  BY <1>1, <1>2, <1>3 DEF Forma, Prenotazioni
<1> QED
  BY <1>4, <1>5, <1>6, <1>7 DEF Forma

\* A save by the holder of the last reservation, which ends or repeats it:
\* nobody else counts on that reservation.
LEMMA NessunAltro ==
  ASSUME TypeOK, Forma, NEW w \in Workers, Vivo(w), ora[w] = orologio,
         NEW v \in Workers, v # w, Tiene(v)
  PROVE  scaduta[v] /\ ora[v] # orologio
BY DEF Forma, Istanti, Prenotazioni, Tiene

LEMMA FormaChiude ==
  ASSUME TypeOK, Forma, NEW w \in Workers, Chiude(w)
  PROVE  Forma'
<1>1. \A v \in Workers :
        /\ v # w => /\ pc'[v] = pc[v] /\ copia'[v] = copia[v]
                    /\ ora'[v] = ora[v] /\ scaduta'[v] = scaduta[v]
        /\ v = w => /\ pc'[v] = "fermo" /\ copia'[v] = FirEmesso
                    /\ ora'[v] = 0 /\ scaduta'[v] = FALSE
  BY DEF Chiude, Termina, Vai, TypeOK
<1>2. db'.avviato = db.avviato /\ orologio' = orologio /\ richiesta' = richiesta
  BY DEF Chiude, Invariata, Scrive
<1>3. /\ FirEmesso.avviato = 0 /\ Coerente(FirEmesso)
      /\ orologio \in Nat
  BY DEF FirEmesso, Pending, Coerente, NON_RETRYABLE, NessunCodice, Forbidden,
         ValidationError, Incerta, MissingNumero, NonAcquisito, CertMancante,
         TypeOK
<1>4. \/ db'.sync = db.sync
      \/ /\ db'.sync = copia[w].sync
         /\ ora[w] = orologio
         /\ Vivo(w)
  BY DEF Chiude, Invariata, Scrive, Forma, Istanti, Vivo
<1>5. Istanti'
  BY <1>1, <1>2, <1>3 DEF Forma, Istanti, Vivo
<1>6. Codifica'
  BY <1>1, <1>2, <1>3, <1>4 DEF Forma, Codifica, Coerente
<1>7. Copie'
  BY <1>1, <1>2 DEF Forma, Copie
<1>8. Prenotazioni'
  <2> SUFFICES ASSUME NEW v \in Workers, Tiene(v)'
               PROVE  Prenotazioni!(v)'
    BY DEF Prenotazioni
  <2>1. v # w /\ Tiene(v)
    BY <1>1 DEF Tiene, Vivo
  <2>2. CASE db'.sync = db.sync
    BY <1>1, <1>2, <2>1, <2>2 DEF Forma, Prenotazioni
  <2>3. CASE ora[w] = orologio /\ Vivo(w)
    <3>1. scaduta[v] /\ ora[v] # orologio
      BY <2>1, <2>3, NessunAltro
    <3> QED
      BY <1>1, <1>2, <2>1, <3>1
  <2> QED
    BY <1>4, <2>2, <2>3
<1> QED
  BY <1>5, <1>6, <1>7, <1>8 DEF Forma

LEMMA FormaRisalva ==
  ASSUME TypeOK, Forma, NEW w \in Workers, SalvaEsitoFallito(w)
  PROVE  Forma'
<1> DEFINE f == Fallimento(copia[w], ApiError)
<1>1. \A v \in Workers :
        /\ v # w => pc'[v] = pc[v] /\ copia'[v] = copia[v]
        /\ v = w => pc'[v] = "risalva" /\ copia'[v] = f
  BY DEF SalvaEsitoFallito, Vai, TypeOK
<1>2. /\ pc[w] = "salvaEsito" /\ Vivo(w) /\ ora[w] = copia[w].avviato
      /\ orologio' = orologio /\ richiesta' = richiesta
      /\ ora' = ora /\ scaduta' = scaduta
  BY DEF SalvaEsitoFallito, ambiente, Forma, Istanti, Vivo
<1>3. /\ copia[w] \in Fir /\ db \in Fir /\ Coerente(copia[w])
      /\ copia[w].avviato <= db.avviato /\ db.avviato = orologio
  BY CopieVive
<1>4. /\ Coerente(f) /\ f.avviato = ora[w]
      /\ f.sync.status \in {"FAILED", "PERMANENTLY_FAILED"}
  BY <1>2, <1>3, EffettiFallimento, TipiCodici
<1>5. Scrive(copia[w])
  BY <1>3, EffettiSalva DEF SalvaEsitoFallito
<1> HIDE DEF f
<1>6. Istanti'
  BY <1>1, <1>2, <1>3, <1>4, <1>5 DEF Forma, Istanti, Vivo, Scrive
<1>7. Codifica'
  BY <1>1, <1>2, <1>3, <1>4, <1>5 DEF Forma, Codifica, Coerente, Scrive
<1>8. Copie'
  BY <1>1, <1>2, <1>4 DEF Forma, Copie
<1>9. Prenotazioni'
  <2> SUFFICES ASSUME NEW v \in Workers, Tiene(v)'
               PROVE  Prenotazioni!(v)'
    BY DEF Prenotazioni
  <2>1. v # w /\ Tiene(v)
    BY <1>1 DEF Tiene, Vivo
  <2>2. CASE db'.sync = db.sync
    BY <1>1, <1>2, <2>1, <2>2 DEF Forma, Prenotazioni
  <2>3. CASE ora[w] = orologio
    <3>1. scaduta[v] /\ ora[v] # orologio
      BY <1>2, <2>1, <2>3, NessunAltro
    <3> QED
      BY <1>1, <1>2, <2>1, <3>1
  <2> QED
    BY <1>2, <1>3, <1>5, <2>2, <2>3 DEF Scrive
<1> QED
  BY <1>6, <1>7, <1>8, <1>9 DEF Forma

LEMMA FormaLeggi ==
  ASSUME TypeOK, Forma, NEW w \in Workers, Leggi(w)
  PROVE  Forma'
<1>1. \A v \in Workers :
        /\ v # w => pc'[v] = pc[v] /\ copia'[v] = copia[v]
        /\ v = w => pc'[v] = "letto" /\ copia'[v] = db
        /\ Vivo(v)' <=> Vivo(v)
        /\ Tiene(v)' <=> Tiene(v)
  BY DEF Leggi, Vai, TypeOK, Vivo, Tiene
<1>2. /\ db' = db /\ orologio' = orologio /\ richiesta' = richiesta
      /\ ora' = ora /\ scaduta' = scaduta /\ pc[w] = "fermo"
  BY DEF Leggi
<1>3. db.sync.status # "SYNCED"
  BY DEF Leggi, CanSyncToRENTRI, CanRetry
<1>4. db.avviato = orologio /\ orologio \in Nat /\ ~Vivo(w) /\ Coerente(db)
  BY <1>2, CopieVive DEF Vivo
<1>5. Istanti'
  BY <1>1, <1>2, <1>4 DEF Forma, Istanti
<1>6. Codifica'
  BY <1>1, <1>2 DEF Forma, Codifica, Coerente
<1>7. Copie'
  BY <1>1, <1>2, <1>3 DEF Forma, Copie
<1>8. Prenotazioni'
  BY <1>1, <1>2, <1>3 DEF Forma, Prenotazioni
<1> QED
  BY <1>5, <1>6, <1>7, <1>8 DEF Forma

\* A reservation is won only when no attempt younger than the threshold
\* counts on the one before.
LEMMA FormaPrenota ==
  ASSUME TypeOK, Forma, NEW w \in Workers, Prenota(w)
  PROVE  Forma'
<1>1. \A v \in Workers :
        /\ v # w => pc'[v] = pc[v] /\ ora'[v] = ora[v]
        /\ v = w => pc'[v] = "prenotato" /\ ora'[v] = orologio'
        /\ copia'[v] = copia[v] /\ scaduta'[v] = scaduta[v]
  BY DEF Prenota, TypeOK
<1>2. /\ pc[w] = "letto" /\ orologio' = orologio + 1 /\ richiesta' = richiesta
      /\ orologio \in Nat /\ db.avviato = orologio
  BY CopieVive DEF Prenota
<1>3. /\ db'.avviato = orologio' /\ db'.sync.status = "SYNCING"
      /\ db'.sync.code = db.sync.code /\ db'.inAttesa = db.inAttesa
  BY DEF Prenota, TypeOK, Fir, SyncStatus
<1>4. /\ db.sync.status \in {"PENDING", "FAILED", "SYNCING"}
      /\ db.sync.status = "SYNCING" =>
           \A v \in Workers : ora[v] = orologio => scaduta[v]
  BY <1>2 DEF Prenota, Prenotabile, Stallo, Vecchia
<1>5. ~Vivo(w) /\ ~scaduta[w]
  BY <1>2 DEF Forma, Istanti, Vivo
<1>6. \A v \in Workers : Tiene(v) => scaduta[v]
  BY <1>4 DEF Forma, Prenotazioni
<1>n. /\ \A v \in Workers : copia[v].avviato \in Nat /\ ora[v] \in Nat
      /\ \A r \in Richieste : richiesta[r].fir.avviato \in Nat
  BY DEF TypeOK, Fir
<1>v. /\ \A v \in Workers : v # w => (Vivo(v)' <=> Vivo(v))
      /\ Vivo(w)'
  BY <1>1 DEF Vivo
<1>7. Istanti'
  <2>1. db'.avviato = orologio'
    BY <1>3
  <2>2. \A v \in Workers :
          /\ copia'[v].avviato <= orologio' /\ ora'[v] <= orologio'
          /\ Vivo(v)' <=> ora'[v] # 0
    BY <1>1, <1>2, <1>n, <1>v DEF Forma, Istanti
  <2>3. \A v \in Workers :
          /\ scaduta'[v] => Vivo(v)' /\ pc'[v] # "prenotato"
          /\ Vivo(v)' /\ pc'[v] # "prenotato" => copia'[v].avviato = ora'[v]
    BY <1>1, <1>5, <1>v DEF Forma, Istanti
  <2>4. \A r \in Richieste : richiesta'[r].fir.avviato <= orologio'
    BY <1>2, <1>n DEF Forma, Istanti
  <2>5. \A v \in Workers : v # w => ora'[v] # orologio'
    BY <1>1, <1>2, <1>n DEF Forma, Istanti
  <2>6. \A u, v \in Workers : Vivo(u)' /\ ora'[v] = ora'[u] => u = v
    BY <1>1, <1>v, <2>5 DEF Forma, Istanti
  <2> QED
    BY <2>1, <2>2, <2>3, <2>4, <2>6 DEF Istanti
<1>8. Codifica'
  BY <1>1, <1>2, <1>3, <1>4 DEF Forma, Codifica, Coerente
<1>9. Copie'
  BY <1>1, <1>2 DEF Forma, Copie
<1>10. Prenotazioni'
  <2> SUFFICES ASSUME NEW v \in Workers, Tiene(v)'
               PROVE  Prenotazioni!(v)'
    BY DEF Prenotazioni
  <2>1. \A u \in Workers : copia'[u].avviato # orologio'
    BY <1>1, <1>2 DEF Forma, Istanti, TypeOK, Fir
  <2>2. \A r \in Richieste : richiesta'[r].fir.avviato # orologio'
    BY <1>2 DEF Forma, Istanti, TypeOK, Fir
  <2>3. CASE v = w
    BY <1>1, <1>3, <1>5, <2>1, <2>2, <2>3
  <2>4. CASE v # w
    <3>1. Tiene(v)
      BY <1>1, <2>4 DEF Tiene, Vivo
    <3>2. scaduta'[v] /\ ora'[v] # orologio'
      BY <1>1, <1>2, <1>6, <2>4, <3>1 DEF Forma, Istanti, TypeOK
    <3> QED
      BY <3>2
  <2> QED
    BY <2>3, <2>4
<1> QED
  BY <1>7, <1>8, <1>9, <1>10 DEF Forma

LEMMA FormaSoglia ==
  ASSUME TypeOK, Forma, NEW w \in Workers, SuperaSoglia(w)
  PROVE  Forma'
<1>1. \A v \in Workers : /\ v # w => scaduta'[v] = scaduta[v]
                         /\ v = w => scaduta'[v] = TRUE
  BY DEF SuperaSoglia, TypeOK
<1>2. /\ db' = db /\ pc' = pc /\ copia' = copia /\ ora' = ora
      /\ richiesta' = richiesta /\ orologio' = orologio
      /\ pc[w] \notin {"fermo", "letto", "prenotato"}
  BY DEF SuperaSoglia
<1>3. Istanti'
  BY <1>1, <1>2 DEF Forma, Istanti, Vivo
<1>4. Codifica' /\ Copie'
  BY <1>2 DEF Forma, Codifica, Copie, Coerente, NuovaPostPossibile
<1>5. Prenotazioni'
  BY <1>1, <1>2 DEF Forma, Prenotazioni, Tiene, Vivo
<1> QED
  BY <1>3, <1>4, <1>5 DEF Forma

LEMMA FormaSeleziona ==
  ASSUME TypeOK, Forma, NEW r \in Richieste, Seleziona(r)
  PROVE  Forma'
<1>1. \A s \in Richieste :
        /\ s # r => richiesta'[s] = richiesta[s]
        /\ s = r => richiesta'[s] = Selezionata
  BY DEF Seleziona, TypeOK
<1>2. /\ db' = db /\ pc' = pc /\ copia' = copia /\ ora' = ora
      /\ scaduta' = scaduta /\ orologio' = orologio
  BY DEF Seleziona, locali
<1>3. /\ Selezionata.fir.avviato = 0 /\ Selezionata.op # "RIAPRI"
      /\ Coerente(Selezionata.fir) /\ orologio \in Nat
  BY DEF Selezionata, FirEmesso, Pending, Coerente, NON_RETRYABLE, NessunCodice,
         Forbidden, ValidationError, Incerta, MissingNumero, NonAcquisito,
         CertMancante, TypeOK
<1>4. Istanti'
  BY <1>1, <1>2, <1>3 DEF Forma, Istanti, Vivo
<1>5. Codifica'
  BY <1>1, <1>2, <1>3 DEF Forma, Codifica, Coerente
<1>6. Copie'
  BY <1>1, <1>2, <1>3 DEF Forma, Copie, NuovaPostPossibile
<1>7. Prenotazioni'
  BY <1>1, <1>2, <1>3 DEF Forma, Prenotazioni, Tiene, Vivo, Istanti
<1> QED
  BY <1>4, <1>5, <1>6, <1>7 DEF Forma

LEMMA FormaCarica ==
  ASSUME TypeOK, Forma, NEW r \in Richieste, NEW op \in Operazioni, Carica(r, op)
  PROVE  Forma'
<1>1. \A s \in Richieste :
        /\ s # r => richiesta'[s] = richiesta[s]
        /\ s = r => richiesta'[s].op = op /\ richiesta'[s].fir = db
  BY DEF Carica, TypeOK
<1>2. /\ db' = db /\ pc' = pc /\ copia' = copia /\ ora' = ora
      /\ scaduta' = scaduta /\ orologio' = orologio
  BY DEF Carica, locali
<1>3. /\ db.avviato = orologio /\ orologio \in Nat
      /\ op = "RIAPRI" => PuoRiaprire(db.sync)
  BY DEF Carica, Ammessa, Forma, Istanti, TypeOK
<1>4. Istanti'
  BY <1>1, <1>2, <1>3 DEF Forma, Istanti, Vivo
<1>5. Codifica'
  BY <1>1, <1>2 DEF Forma, Codifica, Coerente
<1>6. Copie'
  BY <1>1, <1>2, <1>3 DEF Forma, Copie, NuovaPostPossibile
<1>7. Prenotazioni'
  BY <1>1, <1>2, <1>3 DEF Forma, Prenotazioni, Tiene, Vivo
<1> QED
  BY <1>4, <1>5, <1>6, <1>7 DEF Forma

\* What a request may write over the columns of the transmission: what it
\* loaded, a reopening, the outcome of a transaction.
LEMMA CopiaRichiesta ==
  ASSUME TypeOK, Forma, NEW r \in Richieste,
         SalvaRiapertura(r) \/ SalvaRichiesta(r)
  PROVE  \E f \in Fir :
           /\ f.avviato = richiesta[r].fir.avviato
           /\ Coerente(f)
           /\ \/ f.sync = richiesta[r].fir.sync
              \/ f.sync = Pending /\ richiesta[r].op = "RIAPRI"
              \/ /\ f.sync.status = "SYNCED"
                 /\ richiesta[r].op = "RICONCILIA_SYNCING"
           /\ db' = Salva(db, f)
           /\ Scrive(f)
<1> DEFINE g == richiesta[r].fir
<1>1. g \in Fir /\ Coerente(g) /\ g.avviato <= db.avviato /\ db \in Fir
  BY DEF TypeOK, Forma, Istanti, Codifica
<1> HIDE DEF g
<1>2. CASE SalvaRiapertura(r)
  <2> DEFINE f == [g EXCEPT !.sync = Pending]
  <2>1. f \in Fir /\ f.avviato = g.avviato /\ f.sync = Pending
    BY <1>1, TipiStato DEF Fir
  <2>2. Coerente(f)
    BY <2>1 DEF Coerente, Pending, NON_RETRYABLE, NessunCodice, Forbidden,
       ValidationError, Incerta, MissingNumero, NonAcquisito, CertMancante
  <2>3. db' = Salva(db, f) /\ richiesta[r].op = "RIAPRI"
    BY <1>2 DEF SalvaRiapertura, g
  <2>4. Scrive(f)
    BY <1>1, <2>1, <2>3, EffettiSalva
  <2> QED
    BY <2>1, <2>2, <2>3, <2>4 DEF g
<1>3. CASE SalvaRichiesta(r)
  <2> DEFINE op == richiesta[r].op
  <2>1. PICK f \in Applica(op, g, esito) : db' = Salva(db, f)
    BY <1>3 DEF SalvaRichiesta, g
  <2>2. op \in OperazioniNote /\ op # "RIAPRI"
    BY <1>3 DEF SalvaRichiesta, TypeOK
  <2>3. f \in Fir
    BY <1>1, <2>1, <2>2, TipiRichiesta
  <2>4. /\ f.avviato = g.avviato /\ Coerente(f)
        /\ \/ f.sync = g.sync
           \/ f.sync.status = "SYNCED" /\ op = "RICONCILIA_SYNCING"
    <3>1. CASE op = "RICONCILIA_SYNCING"
      <4>1. PICK c \in Conferme : f = EsitoPositivo(g, g.transazione, c)
        BY <2>1, <3>1 DEF Applica
      <4>2. c \in BOOLEAN
        BY FirTrasmissioneAssumption
      <4> QED
        BY <1>1, <3>1, <4>1, <4>2, EffettiPositivo
    <3>2. CASE op # "RICONCILIA_SYNCING"
      <4>1. f.avviato = g.avviato /\ f.sync = g.sync
        BY <1>1, <2>1, <2>2, <3>2
           DEF Applica, ApplicaStatoEnte, OperazioniNote, Fir
      <4> QED
        BY <1>1, <4>1 DEF Coerente
    <3> QED
      BY <3>1, <3>2
  <2>5. Scrive(f)
    BY <1>1, <2>1, <2>3, <2>4, EffettiSalva
  <2> QED
    BY <2>1, <2>3, <2>4, <2>5 DEF g
<1> QED
  BY <1>2, <1>3

LEMMA FormaRichiesta ==
  ASSUME TypeOK, Forma, NEW r \in Richieste,
         SalvaRiapertura(r) \/ SalvaRichiesta(r) \/ Abbandona(r)
  PROVE  Forma'
<1>1. \A s \in Richieste :
        /\ s # r => richiesta'[s] = richiesta[s]
        /\ s = r => richiesta'[s] = Libera
  BY DEF SalvaRiapertura, SalvaRichiesta, Abbandona, TypeOK
<1>2. /\ pc' = pc /\ copia' = copia /\ ora' = ora
      /\ scaduta' = scaduta /\ orologio' = orologio
  BY DEF SalvaRiapertura, SalvaRichiesta, Abbandona, locali
<1>3. PICK f \in Fir :
        /\ f.avviato = richiesta[r].fir.avviato
        /\ Coerente(f)
        /\ \/ f.sync = richiesta[r].fir.sync
           \/ f.sync = Pending /\ richiesta[r].op = "RIAPRI"
           \/ /\ f.sync.status = "SYNCED"
              /\ richiesta[r].op = "RICONCILIA_SYNCING"
        /\ Scrive(f) \/ db' = db
  <2>1. CASE SalvaRiapertura(r) \/ SalvaRichiesta(r)
    BY <2>1, CopiaRichiesta
  <2>2. CASE Abbandona(r)
    BY <2>2 DEF Abbandona, TypeOK, Forma, Codifica
  <2> QED
    BY <2>1, <2>2
<1>4. /\ db'.avviato = db.avviato /\ db.avviato = orologio /\ orologio \in Nat
      /\ \/ db'.sync = db.sync
         \/ f.avviato = db.avviato /\ db'.sync = f.sync
  BY <1>3 DEF Scrive, Forma, Istanti, TypeOK
<1>5. /\ Libera.fir.avviato = 0 /\ Coerente(Libera.fir) /\ Libera.op # "RIAPRI"
  BY FirTrasmissioneAssumption
     DEF Libera, FirEmesso, Pending, Coerente, NON_RETRYABLE, NessunCodice,
         Forbidden, ValidationError, Incerta, MissingNumero, NonAcquisito,
         CertMancante, OperazioniNote
<1>6. Istanti'
  BY <1>1, <1>2, <1>4, <1>5 DEF Forma, Istanti, Vivo
<1>7. Codifica'
  BY <1>1, <1>2, <1>3, <1>4, <1>5 DEF Forma, Codifica, Coerente
<1>8. Copie'
  BY <1>1, <1>2, <1>5 DEF Forma, Copie, NuovaPostPossibile
<1>9. Prenotazioni'
  <2> SUFFICES ASSUME NEW v \in Workers, Tiene(v)'
               PROVE  Prenotazioni!(v)'
    BY DEF Prenotazioni
  <2>1. Tiene(v) /\ (ora[v] = orologio => orologio # 0)
    BY <1>2 DEF Tiene, Vivo, Forma, Istanti
  <2>2. ora[v] = orologio => db'.sync.status \in {"SYNCING", "SYNCED"}
    <3>1. CASE db'.sync = db.sync
      BY <2>1, <3>1 DEF Forma, Prenotazioni
    <3>2. CASE f.avviato = db.avviato /\ db'.sync = f.sync
      <4>1. CASE f.sync = richiesta[r].fir.sync
        BY <1>3, <1>4, <2>1, <3>2, <4>1 DEF Forma, Prenotazioni
      <4>2. CASE richiesta[r].op = "RIAPRI"
        <5>1. richiesta[r].fir.sync.status = "PERMANENTLY_FAILED"
          BY <4>2 DEF Forma, Copie, Codifica, Coerente, PuoRiaprire, Riapribili,
                      NON_RETRYABLE
        <5> QED
          BY <1>3, <1>4, <2>1, <3>2, <5>1 DEF Forma, Prenotazioni
      <4>3. CASE f.sync.status = "SYNCED" /\ richiesta[r].op = "RICONCILIA_SYNCING"
        BY <1>3, <1>4, <2>1, <3>2, <4>3 DEF Forma, Prenotazioni
      <4> QED
        BY <1>3, <4>1, <4>2, <4>3
    <3> QED
      BY <1>4, <3>1, <3>2
  <2>3. ora[v] = orologio =>
          \A s \in Richieste :
            richiesta'[s].fir.avviato = orologio =>
              richiesta'[s].fir.sync.status \in {"SYNCING", "SYNCED"}
    BY <1>1, <1>5, <2>1 DEF Forma, Prenotazioni
  <2> QED
    BY <1>2, <2>1, <2>2, <2>3 DEF Forma, Prenotazioni
<1> QED
  BY <1>6, <1>7, <1>8, <1>9 DEF Forma

\* The steps that leave the attempts and the requests alone.
LEMMA FormaAmbiente ==
  ASSUME TypeOK, Forma, Certificato \/ UNCHANGED vars
                        \/ \E t \in Transazioni : EnteElabora(t)
  PROVE  Forma'
<1>1. /\ pc' = pc /\ copia' = copia /\ ora' = ora /\ richiesta' = richiesta
      /\ scaduta' = scaduta /\ orologio' = orologio
  BY DEF Certificato, CaricaCertificato, RiapriFermiPerCertificato,
         RiaperturaFermiFallita, RimuoviCertificato, EnteElabora, vars, locali
<1>2. \/ db' = db
      \/ /\ db.sync.status = "PERMANENTLY_FAILED"
         /\ db'.sync = Pending /\ db'.avviato = db.avviato
  BY DEF Certificato, CaricaCertificato, RiapriFermiPerCertificato,
         RiaperturaFermiFallita, RimuoviCertificato, EnteElabora, vars, locali,
         TypeOK, Fir
<1>3. Pending.code \notin NON_RETRYABLE
  BY DEF Pending, NON_RETRYABLE, NessunCodice, Forbidden, ValidationError,
         Incerta, MissingNumero, NonAcquisito, CertMancante
<1>4. Istanti'
  BY <1>1, <1>2 DEF Forma, Istanti, Vivo
<1>5. Codifica'
  BY <1>1, <1>2, <1>3 DEF Forma, Codifica, Coerente
<1>6. Copie'
  BY <1>1 DEF Forma, Copie, NuovaPostPossibile
<1>7. Prenotazioni'
  BY <1>1, <1>2 DEF Forma, Prenotazioni, Tiene, Vivo
<1> QED
  BY <1>4, <1>5, <1>6, <1>7 DEF Forma

LEMMA FormaIniziale == Init => Forma
<1> SUFFICES ASSUME Init PROVE Forma
  OBVIOUS
<1>1. Coerente(FirEmesso) /\ FirEmesso.avviato = 0 /\ Libera.op # "RIAPRI"
  BY FirTrasmissioneAssumption
     DEF Libera, FirEmesso, Pending, Coerente, NON_RETRYABLE, NessunCodice,
         Forbidden, ValidationError, Incerta, MissingNumero, NonAcquisito,
         CertMancante, OperazioniNote
<1>2. /\ FirEmessoSenzaCertificato.avviato = 0
      /\ Coerente(FirEmessoSenzaCertificato)
  BY MaxTentativiAssumption
     DEF FirEmessoSenzaCertificato, FirEmesso, MarkSyncFailed, MarkAsFailed,
         Failed, Pending, Coerente, NON_RETRYABLE
<1> QED
  BY <1>1, <1>2
     DEF Init, Forma, Istanti, Codifica, Copie, Prenotazioni, Vivo, Tiene, Libera

LEMMA FormaConservata == TypeOK /\ Forma /\ [Next]_vars => Forma'
<1> SUFFICES ASSUME TypeOK, Forma, [Next]_vars PROVE Forma'
  OBVIOUS
<1>1. ASSUME NEW w \in Workers, Tentativo(w) PROVE Forma'
  <2>1. CASE Interna(w)
    BY <2>1, ClasseInterna, FormaMuove
  <2>2. CASE \/ PrenotazionePersa(w) \/ AvviaSuSincronizzato(w)
             \/ SalvaEsito(w) \/ SalvaSincronizzatoFallito(w) \/ SalvaErrore(w)
    BY <2>2, ClasseChiude, FormaChiude
  <2> QED
    BY <1>1, <2>1, <2>2, FormaLeggi, FormaPrenota, FormaRisalva
       DEF Tentativo, Interna
<1>2. ASSUME NEW w \in Workers, SuperaSoglia(w) \/ Muore(w) PROVE Forma'
  BY <1>2, FormaSoglia, ClasseChiude, FormaChiude
<1>3. ASSUME NEW r \in Richieste, Richiesta(r) PROVE Forma'
  BY <1>3, FormaSeleziona, FormaCarica, FormaRichiesta DEF Richiesta
<1> QED
  BY <1>1, <1>2, <1>3, FormaAmbiente DEF Next

-----------------------------------------------------------------------------
(* The count of the POSTs. *)

Uno(b) == IF b THEN 1 ELSE 0

LEMMA TitolariFiniti ==
  IsFiniteSet(Titolari) /\ Cardinality(Titolari) \in Nat
BY FirTrasmissioneAssumption, FS_Subset, FS_CardinalityType DEF Titolari

\* A step of one worker moves the number of holders by that worker only.
LEMMA TitolariPasso ==
  ASSUME NEW w \in Workers,
         \A v \in Workers : v # w => (Titolare(v)' <=> Titolare(v))
  PROVE  Cardinality(Titolari)' =
           Cardinality(Titolari) - Uno(Titolare(w)) + Uno(Titolare(w)')
<1> DEFINE A == Titolari
           B == Titolari'
<1>1. IsFiniteSet(A) /\ IsFiniteSet(B)
  BY TitolariFiniti, FirTrasmissioneAssumption, FS_Subset DEF Titolari
<1>2. /\ A \ {w} = B \ {w}
      /\ w \in A <=> Titolare(w)
      /\ w \in B <=> Titolare(w)'
  BY DEF Titolari
<1>3. /\ Cardinality(A) \in Nat /\ Cardinality(B) \in Nat
      /\ Cardinality(A \ {w}) = IF w \in A THEN Cardinality(A) - 1 ELSE Cardinality(A)
      /\ Cardinality(B \ {w}) = IF w \in B THEN Cardinality(B) - 1 ELSE Cardinality(B)
  BY <1>1, FS_RemoveElement, FS_CardinalityType
<1>4. Cardinality(A \ {w}) = Cardinality(B \ {w})
  BY <1>2
<1>5. Cardinality(A) - (IF w \in A THEN 1 ELSE 0)
        = Cardinality(B) - (IF w \in B THEN 1 ELSE 0)
  BY <1>3, <1>4
<1>6. /\ Uno(Titolare(w)) = IF w \in A THEN 1 ELSE 0
      /\ Uno(Titolare(w)') = IF w \in B THEN 1 ELSE 0
  BY <1>2 DEF Uno
<1> QED
  BY <1>3, <1>5, <1>6

\* The balance of a step of one worker.
LEMMA ContoPasso ==
  ASSUME TypeOK, TypeOK', Conto, NEW w \in Workers,
         \A v \in Workers : v # w => pc'[v] = pc[v] /\ copia'[v] = copia[v],
         Uno(Titolare(w)') + post' + Uno(PostPossibile') + deroghe + riaperture
           <= Uno(Titolare(w)) + post + Uno(PostPossibile) + deroghe' + riaperture'
  PROVE  Conto'
<1>1. \A v \in Workers : v # w => (Titolare(v)' <=> Titolare(v))
  BY DEF Titolare, NuovaPostPossibile
<1>2. Cardinality(Titolari)' =
        Cardinality(Titolari) - Uno(Titolare(w)) + Uno(Titolare(w)')
  BY <1>1, TitolariPasso
<1>3. Cardinality(Titolari) \in Nat
  BY TitolariFiniti
<1>4. /\ post \in Nat /\ post' \in Nat /\ deroghe \in Nat /\ deroghe' \in Nat
      /\ riaperture \in Nat /\ riaperture' \in Nat
  BY DEF TypeOK
<1>5. /\ Conto <=> Cardinality(Titolari) + post + Uno(PostPossibile)
                    <= 1 + riaperture + deroghe
      /\ Conto' <=> Cardinality(Titolari)' + post' + Uno(PostPossibile')
                    <= 1 + riaperture' + deroghe'
  BY DEF Conto, Uno
<1>6. /\ Uno(Titolare(w)') \in {0, 1} /\ Uno(Titolare(w)) \in {0, 1}
      /\ Uno(PostPossibile') \in {0, 1} /\ Uno(PostPossibile) \in {0, 1}
  BY DEF Uno
<1> QED
  BY <1>2, <1>3, <1>4, <1>5, <1>6

\* The balance of a step of nobody: only the row may change.
LEMMA ContoRiga ==
  ASSUME TypeOK, TypeOK', Conto, pc' = pc, copia' = copia, post' = post,
         riaperture' \in {riaperture, riaperture + 1},
         deroghe' \in {deroghe, deroghe + 1},
         PostPossibile' => \/ PostPossibile
                           \/ riaperture' = riaperture + 1
                           \/ deroghe' = deroghe + 1
  PROVE  Conto'
<1> DEFINE b == Uno(PostPossibile)
           b1 == Uno(PostPossibile')
<1>1. \A w \in Workers : Titolare(w)' <=> Titolare(w)
  BY DEF Titolare, NuovaPostPossibile
<1>2. Cardinality(Titolari)' = Cardinality(Titolari)
  BY <1>1 DEF Titolari
<1>3. Cardinality(Titolari) \in Nat
  BY TitolariFiniti
<1>4. post \in Nat /\ deroghe \in Nat /\ riaperture \in Nat
  BY DEF TypeOK
<1>5. /\ Conto <=> Cardinality(Titolari) + post + b <= 1 + riaperture + deroghe
      /\ Conto' <=> Cardinality(Titolari)' + post' + b1
                      <= 1 + riaperture' + deroghe'
  BY DEF Conto, Uno
<1>6. /\ b \in Nat /\ b1 \in Nat /\ b1 <= 1
      /\ b1 <= b \/ riaperture' = riaperture + 1 \/ deroghe' = deroghe + 1
  BY DEF Uno
<1> HIDE DEF b, b1
<1> QED
  BY <1>2, <1>3, <1>4, <1>5, <1>6

\* The ways in which a step of one worker keeps the balance: the right to a
\* POST passes between the worker and the row, or is lost ...
LEMMA ContoSposta ==
  ASSUME TypeOK, TypeOK', Conto, NEW w \in Workers,
         \A v \in Workers : v # w => pc'[v] = pc[v] /\ copia'[v] = copia[v],
         storia' = storia,
         Titolare(w)' \/ PostPossibile' => Titolare(w) \/ PostPossibile,
         Titolare(w)' /\ PostPossibile' => Titolare(w) /\ PostPossibile
  PROVE  Conto'
<1> DEFINE a == Uno(Titolare(w))   a1 == Uno(Titolare(w)')
           b == Uno(PostPossibile) b1 == Uno(PostPossibile')
<1>1. a1 + b1 <= a + b
  BY DEF Uno
<1>2. a \in Nat /\ a1 \in Nat /\ b \in Nat /\ b1 \in Nat
  BY DEF Uno
<1>3. post' = post /\ riaperture' = riaperture /\ deroghe' = deroghe
  BY DEF storia
<1>4. post \in Nat /\ riaperture \in Nat /\ deroghe \in Nat
  BY DEF TypeOK
<1>5. a1 + post' + b1 + deroghe + riaperture
        <= a + post + b + deroghe' + riaperture'
  <2> HIDE DEF a, a1, b, b1
  <2> QED
    BY <1>1, <1>2, <1>3, <1>4
<1> QED
  BY <1>5, ContoPasso

\* ... or it is spent on a POST ...
LEMMA ContoPost ==
  ASSUME TypeOK, TypeOK', Conto, NEW w \in Workers,
         \A v \in Workers : v # w => pc'[v] = pc[v] /\ copia'[v] = copia[v],
         post' = post + 1, riaperture' = riaperture, deroghe' = deroghe,
         Titolare(w), ~Titolare(w)',
         PostPossibile' => PostPossibile
  PROVE  Conto'
<1> DEFINE a == Uno(Titolare(w))   a1 == Uno(Titolare(w)')
           b == Uno(PostPossibile) b1 == Uno(PostPossibile')
<1>1. a = 1 /\ a1 = 0 /\ b1 <= b
  BY DEF Uno
<1>2. b \in Nat /\ b1 \in Nat
  BY DEF Uno
<1>4. post \in Nat /\ riaperture \in Nat /\ deroghe \in Nat
  BY DEF TypeOK
<1>5. a1 + post' + b1 + deroghe + riaperture
        <= a + post + b + deroghe' + riaperture'
  <2> HIDE DEF a, a1, b, b1
  <2> QED
    BY <1>1, <1>2, <1>4
<1> QED
  BY <1>5, ContoPasso

\* ... or it is new, and counted as an exception.
LEMMA ContoDeroga ==
  ASSUME TypeOK, TypeOK', Conto, NEW w \in Workers,
         \A v \in Workers : v # w => pc'[v] = pc[v] /\ copia'[v] = copia[v],
         post' = post, riaperture' = riaperture, deroghe' = deroghe + 1,
         PostPossibile' => PostPossibile
  PROVE  Conto'
<1> DEFINE a == Uno(Titolare(w))   a1 == Uno(Titolare(w)')
           b == Uno(PostPossibile) b1 == Uno(PostPossibile')
<1>1. a1 <= a + 1 /\ b1 <= b
  BY DEF Uno
<1>2. a \in Nat /\ a1 \in Nat /\ b \in Nat /\ b1 \in Nat
  BY DEF Uno
<1>4. post \in Nat /\ riaperture \in Nat /\ deroghe \in Nat
  BY DEF TypeOK
<1>5. a1 + post' + b1 + deroghe + riaperture
        <= a + post + b + deroghe' + riaperture'
  <2> HIDE DEF a, a1, b, b1
  <2> QED
    BY <1>1, <1>2, <1>4
<1> QED
  BY <1>5, ContoPasso

\* A row whose transmission goes on allows no more than before; once an
\* attempt starts, its token is its own.
LEMMA RigaInterna ==
  ASSUME TypeOK, Forma, NEW w \in Workers, Interna(w)
  PROVE  /\ \A v \in Workers : v # w => pc'[v] = pc[v] /\ copia'[v] = copia[v]
         /\ PostPossibile' => PostPossibile
         /\ pc[w] = "prenotato" => ~PostPossibile'
<1>1. PICK q \in Passi, f \in Fir : Muove(w, q, f)
  BY ClasseInterna
<1>2. \A v \in Workers :
        /\ v # w => pc'[v] = pc[v] /\ copia'[v] = copia[v]
        /\ v = w => pc'[v] \notin {"letto", "prenotato"}
  BY <1>1 DEF Muove, Vai, TypeOK
<1>3. db'.sync = db.sync /\ db'.avviato = db.avviato
  BY <1>1 DEF Muove
<1>4. db'.inAttesa = db.inAttesa \/ db'.inAttesa # 0
  <2>1. CASE Registra(w)
    <3>1. db \in Fir /\ copia[w].inAttesa \in 1 .. MaxPost
      BY <2>1, CopieVive DEF Registra
    <3>2. db' = db \/ db' = RegistraTransazioneInAttesa(db, copia[w].inAttesa)
      BY <2>1 DEF Registra
    <3>3. RegistraTransazioneInAttesa(db, copia[w].inAttesa).inAttesa = copia[w].inAttesa
      BY <3>1, EffettiRegistra
    <3>4. copia[w].inAttesa # 0
      BY <2>1 DEF Registra, Forma, Copie
    <3> QED
      BY <3>2, <3>3, <3>4
  <2>2. CASE ~Registra(w)
    BY <2>2 DEF Interna, AvviaRifiutato, AvviaStalloIncerto, Avvia, AvviaFallito,
                Spedisci, SpedisciIncerto, SpedisciFallito, RegistraFallito,
                LeggiEsito, TransazioneNonTrovata, LeggiEsitoFallito
  <2> QED
    BY <2>1, <2>2
<1>5. PostPossibile' => PostPossibile
  BY <1>2, <1>3, <1>4 DEF PostPossibile, NuovaPostPossibile
<1>6. ASSUME pc[w] = "prenotato" PROVE ~PostPossibile'
  BY <1>2, <1>3, <1>6, PrenotatoTiene DEF PostPossibile, NuovaPostPossibile
<1> QED
  BY <1>2, <1>5, <1>6

\* An attempt that moves to a step with a given copy holds a token there only
\* if it is about to send, or if its failure allows a POST.
LEMMA TitolareDopo ==
  ASSUME TypeOK, NEW w \in Workers, NEW q, NEW f, Vai(w, q, f)
  PROVE  Titolare(w)' <=> \/ q = "daSpedire"
                          \/ q \in {"salvaErrore", "risalva"} /\ NuovaPostPossibile(f)
<1>1. pc'[w] = q /\ copia'[w] = f
  BY DEF Vai, TypeOK
<1> QED
  BY <1>1 DEF Titolare, NuovaPostPossibile

LEMMA ContoInterna ==
  ASSUME TypeOK, TypeOK', Forma, Conto, NEW w \in Workers, Interna(w)
  PROVE  Conto'
<1>r. /\ \A v \in Workers : v # w => pc'[v] = pc[v] /\ copia'[v] = copia[v]
      /\ PostPossibile' => PostPossibile
      /\ pc[w] = "prenotato" => ~PostPossibile'
  BY RigaInterna
<1>v. /\ db \in Fir /\ copia[w] \in Fir /\ ora[w] \in Nat
      /\ ApiError \in Codici
      /\ AvviaTentativo(db, ora[w]) \in Fir
      /\ AvviaTentativo(db, ora[w]).inAttesa = db.inAttesa
  BY CopieVive, TipiCodici, TipiTentativo, EffettiAvvia
\* The token of the row goes to the attempt that starts on it.
<1>p. ASSUME pc[w] = "prenotato", db.sync.status # "SYNCED",
             copia[w].sync.status # "SYNCING", db.inAttesa = 0
      PROVE  PostPossibile
  <2>1. db.sync.status = "SYNCING"
    BY <1>p, PrenotatoTiene
  <2> QED
    BY <1>p, <2>1 DEF PostPossibile
<1>1. CASE AvviaRifiutato(w)
  <2> DEFINE g == MarkSyncFailed(db, ApiError)
  <2>1. Titolare(w)' => NuovaPostPossibile(g) /\ db.inAttesa = 0
    BY <1>1, <1>v, TitolareDopo, EffettiFallimento
       DEF AvviaRifiutato, NuovaPostPossibile
  <2>2. /\ pc[w] = "prenotato" /\ db.sync.status # "SYNCED"
        /\ post' = post /\ riaperture' = riaperture
    BY <1>1 DEF AvviaRifiutato
  <2>3. deroghe' = IF EraSyncing(w) /\ NuovaPostPossibile(g)
                   THEN deroghe + 1 ELSE deroghe
    BY <1>1 DEF AvviaRifiutato, Deroga
  <2>4. CASE EraSyncing(w) /\ NuovaPostPossibile(g)
    BY <1>r, <2>2, <2>3, <2>4, ContoDeroga
  <2>5. CASE ~(EraSyncing(w) /\ NuovaPostPossibile(g))
    <3>1. storia' = storia
      BY <2>2, <2>3, <2>5 DEF storia
    <3>2. Titolare(w)' => PostPossibile
      BY <1>p, <2>1, <2>2, <2>5 DEF EraSyncing
    <3> QED
      BY <1>r, <2>2, <3>1, <3>2, ContoSposta
  <2> QED
    BY <2>4, <2>5
<1>2. CASE AvviaStalloIncerto(w)
  <2>1. ~Titolare(w)'
    BY <1>2, <1>v, TitolareDopo, EffettiIncerta DEF AvviaStalloIncerto
  <2> QED
    BY <1>2, <1>r, <2>1, ContoSposta DEF AvviaStalloIncerto
<1>3. CASE Avvia(w) \/ AvviaFallito(w)
  <2>1. Titolare(w)' => db.inAttesa = 0
    <3>1. CASE Avvia(w)
      BY <1>v, <3>1, TitolareDopo DEF Avvia
    <3>2. CASE AvviaFallito(w)
      BY <1>v, <3>2, TitolareDopo, EffettiFallimento
         DEF AvviaFallito, NuovaPostPossibile
    <3> QED
      BY <1>3, <3>1, <3>2
  <2>2. /\ pc[w] = "prenotato" /\ (EraSyncing(w) => db.inAttesa # 0)
        /\ storia' = storia /\ db.sync.status # "SYNCED"
    BY <1>3 DEF Avvia, AvviaFallito, PuoAvviare, CanRetry
  <2>3. Titolare(w)' => PostPossibile
    BY <1>p, <2>1, <2>2 DEF EraSyncing
  <2> QED
    BY <1>r, <2>2, <2>3, ContoSposta
<1>4. CASE Spedisci(w) \/ SpedisciIncerto(w)
  <2>1. ~Titolare(w)'
    BY <1>4, <1>v, TitolareDopo, EffettiIncerta DEF Spedisci, SpedisciIncerto
  <2>2. /\ Titolare(w) /\ post' \in {post, post + 1}
        /\ riaperture' = riaperture /\ deroghe' = deroghe
    BY <1>4, TipiContatori DEF Spedisci, SpedisciIncerto, Titolare, storia
  <2>3. CASE post' = post + 1
    BY <1>r, <2>1, <2>2, <2>3, ContoPost
  <2>4. CASE post' = post
    <3>1. storia' = storia
      BY <2>2, <2>4 DEF storia
    <3> QED
      BY <1>r, <2>1, <3>1, ContoSposta
  <2> QED
    BY <2>2, <2>3, <2>4
<1>5. CASE SpedisciFallito(w)
  <2>1. Titolare(w) /\ storia' = storia
    BY <1>5 DEF SpedisciFallito, Titolare
  <2> QED
    BY <1>r, <2>1, ContoSposta
<1>6. CASE \/ Registra(w) \/ RegistraFallito(w) \/ LeggiEsito(w)
           \/ TransazioneNonTrovata(w) \/ LeggiEsitoFallito(w)
  <2>1. storia' = storia
    BY <1>6 DEF Registra, RegistraFallito, LeggiEsito, TransazioneNonTrovata,
                LeggiEsitoFallito
  <2>2. ~Titolare(w)'
    <3>1. CASE Registra(w) \/ LeggiEsito(w)
      <4>1. \E f : Vai(w, "inAttesaEsito", f) \/ Vai(w, "salvaEsito", f)
        BY <3>1 DEF Registra, LeggiEsito
      <4> QED
        BY <4>1, TitolareDopo
    <3>2. CASE TransazioneNonTrovata(w)
      BY <1>v, <3>2, TitolareDopo, EffettiIncerta DEF TransazioneNonTrovata
    <3>3. CASE RegistraFallito(w) \/ LeggiEsitoFallito(w)
      <4>1. PICK f : /\ \E c \in Codici : f \in {MarkSyncFailed(copia[w], c),
                                              Fallimento(copia[w], c)}
                     /\ Vai(w, "salvaErrore", f)
        BY <3>3, TipiCodici DEF RegistraFallito, LeggiEsitoFallito
      <4>2. f.inAttesa # 0
        BY <1>v, <3>3, <4>1, EffettiFallimento
           DEF RegistraFallito, LeggiEsitoFallito, Forma, Copie
      <4> QED
        BY <4>1, <4>2, TitolareDopo DEF NuovaPostPossibile
    <3> QED
      BY <1>6, <3>1, <3>2, <3>3
  <2> QED
    BY <1>r, <2>1, <2>2, ContoSposta
<1> QED
  BY <1>1, <1>2, <1>3, <1>4, <1>5, <1>6 DEF Interna

\* What a save by an attempt leaves possible was possible before, or is what
\* the attempt itself was holding.
LEMMA RigaSalva ==
  ASSUME TypeOK, Forma, NEW w \in Workers, NEW q \in {"fermo", "risalva"},
         pc[w] \in {"salvaEsito", "salvaErrore", "risalva"},
         Scrive(copia[w]),
         pc' = [pc EXCEPT ![w] = q],
         \A v \in Workers : v # w => copia'[v] = copia[v]
  PROVE  PostPossibile' => PostPossibile \/ Titolare(w)
<1>1. \A v \in Workers :
        /\ v # w => pc'[v] = pc[v] /\ copia'[v] = copia[v]
        /\ v = w => pc'[v] \notin {"letto", "prenotato"}
  BY DEF TypeOK
<1>2. CASE db'.sync = db.sync /\ db'.inAttesa = db.inAttesa
  BY <1>1, <1>2 DEF PostPossibile, NuovaPostPossibile, Scrive
<1>3. CASE /\ copia[w].avviato = db.avviato
           /\ db'.sync = copia[w].sync
           /\ db'.inAttesa = copia[w].inAttesa
  <2>1. copia[w].sync.status # "SYNCING"
    BY DEF Forma, Copie
  <2>2. NuovaPostPossibile(copia[w]) => Titolare(w)
    BY DEF Forma, Copie, Titolare
  <2> QED
    BY <1>1, <1>3, <2>1, <2>2 DEF PostPossibile, NuovaPostPossibile
<1> QED
  BY <1>2, <1>3 DEF Scrive

LEMMA ContoChiude ==
  ASSUME TypeOK, TypeOK', Forma, Conto, NEW w \in Workers, Chiude(w),
         storia' = storia
  PROVE  Conto'
<1>1. /\ pc' = [pc EXCEPT ![w] = "fermo"]
      /\ copia' = [copia EXCEPT ![w] = FirEmesso]
  BY DEF Chiude, Termina, Vai
<1>2. /\ \A v \in Workers : v # w => pc'[v] = pc[v] /\ copia'[v] = copia[v]
      /\ pc'[w] = "fermo"
  BY <1>1 DEF TypeOK
<1>3. ~Titolare(w)'
  BY <1>2 DEF Titolare
<1>4. PostPossibile' => PostPossibile \/ Titolare(w)
  <2>1. CASE Invariata
    BY <1>2, <2>1 DEF PostPossibile, NuovaPostPossibile, Invariata
  <2>2. CASE pc[w] \in {"salvaEsito", "salvaErrore", "risalva"} /\ Scrive(copia[w])
    BY <1>1, <1>2, <2>2, RigaSalva
  <2> QED
    BY <2>1, <2>2 DEF Chiude
<1> QED
  BY <1>2, <1>3, <1>4, ContoSposta

LEMMA ContoRisalva ==
  ASSUME TypeOK, TypeOK', Forma, Conto, NEW w \in Workers, SalvaEsitoFallito(w)
  PROVE  Conto'
<1> DEFINE f == Fallimento(copia[w], ApiError)
<1>1. /\ pc[w] = "salvaEsito"
      /\ Vai(w, "risalva", f)
      /\ Deroga(NuovaPostPossibile(f))
      /\ db' \in {db, RigaSalvata(db, copia[w])}
      /\ post' = post /\ riaperture' = riaperture
  BY DEF SalvaEsitoFallito
<1>2. \A v \in Workers : v # w => pc'[v] = pc[v] /\ copia'[v] = copia[v]
  BY <1>1 DEF Vai, TypeOK
<1>3. Scrive(copia[w])
  BY <1>1, CopieVive, EffettiSalva
<1>4. ~Titolare(w)
  BY <1>1 DEF Titolare
<1>5. PostPossibile' => PostPossibile
  BY <1>1, <1>2, <1>3, <1>4, RigaSalva DEF Vai
<1>6. Titolare(w)' => NuovaPostPossibile(f)
  BY <1>1, TitolareDopo
<1>7. deroghe' = IF NuovaPostPossibile(f) THEN deroghe + 1 ELSE deroghe
  BY <1>1 DEF Deroga
<1>8. CASE NuovaPostPossibile(f)
  BY <1>1, <1>2, <1>5, <1>7, <1>8, ContoDeroga
<1>9. CASE ~NuovaPostPossibile(f)
  <2>1. storia' = storia
    BY <1>1, <1>7, <1>9 DEF storia
  <2> QED
    BY <1>2, <1>5, <1>6, <1>9, <2>1, ContoSposta
<1> QED
  BY <1>8, <1>9

LEMMA ContoLeggi ==
  ASSUME TypeOK, TypeOK', Forma, Conto, NEW w \in Workers, Leggi(w)
  PROVE  Conto'
<1>1. /\ \A v \in Workers : v # w => pc'[v] = pc[v] /\ copia'[v] = copia[v]
      /\ pc'[w] = "letto" /\ copia'[w] = db /\ db' = db
  BY DEF Leggi, Vai, TypeOK
<1>2. ~Titolare(w)'
  BY <1>1 DEF Titolare
<1>3. PostPossibile' => PostPossibile
  BY <1>1 DEF PostPossibile, NuovaPostPossibile
<1> QED
  BY <1>1, <1>2, <1>3, ContoSposta DEF Leggi

\* Who reserves takes the place of the row: a row that was PENDING or FAILED,
\* or a stall that it had read before.
LEMMA ContoPrenota ==
  ASSUME TypeOK, TypeOK', Forma, Conto, NEW w \in Workers, Prenota(w)
  PROVE  Conto'
<1>1. /\ pc[w] = "letto" /\ copia' = copia
      /\ \A v \in Workers : v # w => pc'[v] = pc[v]
      /\ pc'[w] = "prenotato"
  BY DEF Prenota, TypeOK
<1>2. /\ db'.sync.status = "SYNCING" /\ db'.avviato = orologio + 1
      /\ db'.inAttesa = db.inAttesa
  BY CopieVive DEF Prenota, Fir, SyncStatus
<1>3. \A v \in Workers : copia[v].avviato # orologio + 1
  BY CopieVive DEF Fir
<1>4. db.inAttesa = 0 /\ copia[w].sync.status # "SYNCING" => PostPossibile
  <2>1. db.sync.status \in {"PENDING", "FAILED"} \/ Stallo(w)
    BY DEF Prenota, Prenotabile
  <2> QED
    BY <1>1, <2>1 DEF PostPossibile, NuovaPostPossibile, Stallo
<1>5. PostPossibile' => PostPossibile
  <2>1. SUFFICES ASSUME db.inAttesa = 0, NEW v \in Workers,
                        copia[v].sync.status # "SYNCING", pc'[v] = "prenotato"
                 PROVE  PostPossibile
    BY <1>1, <1>2, <1>3 DEF PostPossibile, NuovaPostPossibile
  <2>2. CASE v = w
    BY <1>4, <2>1, <2>2
  <2>3. CASE v # w
    <3>1. CASE db.sync.status = "SYNCING"
      BY <1>1, <2>1, <2>3, <3>1 DEF PostPossibile
    <3>2. CASE db.sync.status # "SYNCING"
      BY <2>1, <3>2 DEF Prenota, Prenotabile, Stallo, PostPossibile,
                        NuovaPostPossibile
    <3> QED
      BY <3>1, <3>2
  <2> QED
    BY <2>2, <2>3
<1>6. ~Titolare(w)'
  BY <1>1 DEF Titolare
<1>7. storia' = storia
  BY DEF Prenota
<1> QED
  BY <1>1, <1>5, <1>6, <1>7, ContoSposta

\* The save of another request can add a right to a POST only where it
\* counts as a reopening or as an exception.
LEMMA ContoRichiesta ==
  ASSUME TypeOK, TypeOK', Forma, Conto, NEW r \in Richieste,
         SalvaRiapertura(r) \/ SalvaRichiesta(r)
  PROVE  Conto'
<1>1. PICK f \in Fir :
        /\ f.avviato = richiesta[r].fir.avviato
        /\ Coerente(f)
        /\ \/ f.sync = richiesta[r].fir.sync
           \/ f.sync = Pending /\ richiesta[r].op = "RIAPRI"
           \/ /\ f.sync.status = "SYNCED"
              /\ richiesta[r].op = "RICONCILIA_SYNCING"
        /\ db' = Salva(db, f)
        /\ Scrive(f)
  BY CopiaRichiesta
<1>2. pc' = pc /\ copia' = copia /\ post' = post
  BY DEF SalvaRiapertura, SalvaRichiesta, locali
<1>3. PostPossibile' => PostPossibile \/ RiapreLaPost(db, db')
  <2>1. CASE db'.sync = db.sync /\ db'.inAttesa = db.inAttesa
    BY <1>1, <1>2, <2>1 DEF PostPossibile, NuovaPostPossibile, Scrive
  <2>2. CASE /\ f.avviato = db.avviato
             /\ db'.sync = f.sync
             /\ db'.inAttesa = f.inAttesa
    <3>1. CASE NuovaPostPossibile(db')
      BY <3>1 DEF PostPossibile, RiapreLaPost, NuovaPostPossibile
    <3>2. ASSUME db'.inAttesa = 0, db'.sync.status = "SYNCING",
                 NEW v \in Workers, pc[v] = "prenotato",
                 copia[v].sync.status # "SYNCING"
          PROVE  PostPossibile \/ RiapreLaPost(db, db')
      BY <3>2, PrenotatoTiene DEF PostPossibile, RiapreLaPost, NuovaPostPossibile
    <3>3. ASSUME db'.inAttesa = 0, NEW v \in Workers, pc[v] = "letto",
                 copia[v].sync.status # "SYNCING",
                 db'.sync.status = "SYNCING", copia[v].avviato = db'.avviato
          PROVE  PostPossibile \/ RiapreLaPost(db, db')
      BY <1>1, <2>2, <3>3
         DEF PostPossibile, RiapreLaPost, NuovaPostPossibile, Scrive
    <3> QED
      BY <1>2, <3>1, <3>2, <3>3 DEF PostPossibile
  <2> QED
    BY <1>1, <2>1, <2>2 DEF Scrive
<1>4. CASE SalvaRiapertura(r)
  <2>1. /\ deroghe' = deroghe
        /\ riaperture' = IF RiapreLaPost(db, db') THEN riaperture + 1 ELSE riaperture
    BY <1>4 DEF SalvaRiapertura
  <2> QED
    BY <1>2, <1>3, <2>1, ContoRiga
<1>5. CASE SalvaRichiesta(r)
  <2>1. /\ riaperture' = riaperture
        /\ deroghe' = IF RiapreLaPost(db, db') THEN deroghe + 1 ELSE deroghe
    BY <1>5 DEF SalvaRichiesta, Deroga
  <2> QED
    BY <1>2, <1>3, <2>1, ContoRiga
<1> QED
  BY <1>4, <1>5

\* Everything else leaves the row as it is, or reopens a FIR that its
\* certificate was going to reopen.
LEMMA ContoAmbiente ==
  ASSUME TypeOK, TypeOK', Forma, Conto,
         \/ \E w \in Workers : SuperaSoglia(w)
         \/ \E r \in Richieste : \/ Abbandona(r) \/ Seleziona(r)
                                  \/ \E op \in Operazioni : Carica(r, op)
         \/ \E t \in Transazioni : EnteElabora(t)
         \/ Certificato
         \/ UNCHANGED vars
  PROVE  Conto'
<1>1. pc' = pc /\ copia' = copia /\ storia' = storia
  BY DEF SuperaSoglia, Abbandona, Seleziona, Carica, EnteElabora, Certificato,
         CaricaCertificato, RiapriFermiPerCertificato, RiaperturaFermiFallita,
         RimuoviCertificato, locali, vars, storia
<1>2. CASE RiapriFermiPerCertificato
  <2>1. /\ db'.inAttesa = db.inAttesa /\ db'.avviato = db.avviato
        /\ db'.sync # db.sync =>
             /\ db'.sync = Pending
             /\ db.sync.status = "PERMANENTLY_FAILED"
             /\ db.sync.code = CertMancante
    BY <1>2, CopieVive DEF RiapriFermiPerCertificato, TypeOK, Fir
  <2>2. PostPossibile' => PostPossibile
    BY <1>1, <2>1 DEF PostPossibile, NuovaPostPossibile, Pending
  <2> QED
    BY <1>1, <2>2, ContoRiga DEF storia
<1>3. CASE ~RiapriFermiPerCertificato
  <2>1. db' = db
    BY <1>3 DEF SuperaSoglia, Abbandona, Seleziona, Carica, EnteElabora,
                Certificato, CaricaCertificato, RiaperturaFermiFallita, RimuoviCertificato, vars
  <2>2. PostPossibile' <=> PostPossibile
    BY <1>1, <2>1 DEF PostPossibile, NuovaPostPossibile
  <2> QED
    BY <1>1, <2>2, ContoRiga DEF storia
<1> QED
  BY <1>2, <1>3

LEMMA ContoIniziale == Init => Conto
<1> SUFFICES ASSUME Init PROVE Conto
  OBVIOUS
<1>1. Titolari = {}
  BY DEF Init, Titolari, Titolare
<1>2. Cardinality(Titolari) = 0
  BY <1>1, FS_EmptySet
<1>3. post = 0 /\ riaperture = 0 /\ deroghe = 0
  BY DEF Init
<1> QED
  BY <1>2, <1>3 DEF Conto

LEMMA ContoConservato ==
  TypeOK /\ TypeOK' /\ Forma /\ Conto /\ [Next]_vars => Conto'
<1> SUFFICES ASSUME TypeOK, TypeOK', Forma, Conto, [Next]_vars PROVE Conto'
  OBVIOUS
<1>1. ASSUME NEW w \in Workers,
             \/ PrenotazionePersa(w) \/ AvviaSuSincronizzato(w) \/ Muore(w)
             \/ SalvaEsito(w) \/ SalvaSincronizzatoFallito(w) \/ SalvaErrore(w)
      PROVE  Conto'
  <2>1. storia' = storia
    BY <1>1 DEF PrenotazionePersa, AvviaSuSincronizzato, Muore, SalvaEsito,
                SalvaSincronizzatoFallito, SalvaErrore
  <2> QED
    BY <1>1, <2>1, ClasseChiude, ContoChiude
<1>2. ASSUME NEW w \in Workers, Tentativo(w) PROVE Conto'
  BY <1>1, <1>2, ContoInterna, ContoLeggi, ContoPrenota, ContoRisalva
     DEF Tentativo, Interna
<1>3. ASSUME NEW r \in Richieste, Richiesta(r) PROVE Conto'
  BY <1>3, ContoRichiesta, ContoAmbiente DEF Richiesta
<1> QED
  BY <1>1, <1>2, <1>3, ContoAmbiente DEF Next

-----------------------------------------------------------------------------
(* The inductive invariant, and the promises that follow from it. *)

LEMMA Parti == IInv <=> TypeOK /\ Forma /\ Conto
BY DEF IInv, Forma

\* The inductive invariant holds in every state: the row carries the last
\* reservation, the attempt that made it finds it SYNCING or closed by the
\* reconciliation, and the POSTs sent and still possible are counted.
THEOREM InvarianteInduttivo == Spec => []IInv
<1>1. Init => IInv
  BY Parti, TipiIniziali, FormaIniziale, ContoIniziale
<1>2. IInv /\ [Next]_vars => IInv'
  <2>1. IInv' <=> TypeOK' /\ Forma' /\ Conto'
    BY DEF IInv, Forma
  <2> QED
    BY <2>1, Parti, TipiConservati, FormaConservata, ContoConservato
<1> QED
  BY <1>1, <1>2, PTL DEF Spec

LEMMA UnoSoloDaIInv == IInv => UnSoloTentativo
BY DEF IInv, Istanti, Prenotazioni, UnSoloTentativo, InCorso, Tiene, Vivo

LEMMA CreazioniDaIInv == IInv => CreazioniAutorizzate
<1> SUFFICES ASSUME IInv PROVE CreazioniAutorizzate
  OBVIOUS
<1>1. post \in Nat /\ riaperture \in Nat /\ deroghe \in Nat
  BY DEF IInv, TypeOK
<1>2. Cardinality(Titolari) \in Nat
  BY TitolariFiniti
<1>3. Cardinality(Titolari) + post + Uno(PostPossibile) <= 1 + riaperture + deroghe
  BY DEF IInv, Conto, Uno
<1>4. Uno(PostPossibile) \in Nat
  BY DEF Uno
<1> QED
  BY <1>1, <1>2, <1>3, <1>4 DEF CreazioniAutorizzate

\* However many jobs, retries, resumptions and requests overlap, and wherever
\* workers die, at most one attempt younger than the stall threshold is under
\* way: the reservation of prenotaTrasmissioneRentri excludes the others.
THEOREM UnoSolo == Spec => []UnSoloTentativo
BY InvarianteInduttivo, UnoSoloDaIInv, PTL

\* The ente is never made to accept more POSTs than the first one, the ones
\* that users permitted by reopening a failure, and the counted exceptions.
THEOREM CreazioniContate == Spec => []CreazioniAutorizzate
BY InvarianteInduttivo, CreazioniDaIInv, PTL

-----------------------------------------------------------------------------
(* What a step does to the attempts under way. *)

LEMMA InternaInCorso ==
  ASSUME NEW w \in Workers, Interna(w)
  PROVE  InCorso(w) /\ ora' = ora /\ scaduta' = scaduta
BY DEF Interna, InCorso, AvviaRifiutato, AvviaStalloIncerto, Avvia, AvviaFallito,
       Spedisci, SpedisciIncerto, SpedisciFallito, Registra, RegistraFallito,
       LeggiEsito, TransazioneNonTrovata, LeggiEsitoFallito

\* An attempt that is under way after a step, and has not just reserved, was
\* under way before, with the same reservation.
LEMMA PassoInCorso ==
  ASSUME TypeOK, Forma, [Next]_vars, NEW v \in Workers, ~Prenota(v),
         InCorso(v)'
  PROVE  /\ InCorso(v) /\ ora'[v] = ora[v]
         /\ scaduta[v] => scaduta'[v]
<1> USE DEF InCorso
<1>1. ASSUME NEW w \in Workers, Interna(w)
      PROVE  InCorso(v) /\ ora'[v] = ora[v] /\ scaduta'[v] = scaduta[v]
  <2>1. v # w => pc'[v] = pc[v]
    BY <1>1, RigaInterna
  <2> QED
    BY <1>1, <2>1, InternaInCorso
<1>2. ASSUME NEW w \in Workers, Chiude(w)
      PROVE  InCorso(v) /\ ora'[v] = ora[v] /\ scaduta'[v] = scaduta[v]
  BY <1>2 DEF Chiude, Termina, Vai, TypeOK
<1>3. ASSUME NEW w \in Workers,
             Leggi(w) \/ Prenota(w) \/ SalvaEsitoFallito(w)
      PROVE  InCorso(v) /\ ora'[v] = ora[v] /\ scaduta'[v] = scaduta[v]
  BY <1>3 DEF Leggi, Prenota, SalvaEsitoFallito, Vai, TypeOK
<1>4. ASSUME NEW w \in Workers, SuperaSoglia(w)
      PROVE  InCorso(v) /\ ora'[v] = ora[v] /\ (scaduta[v] => scaduta'[v])
  BY <1>4 DEF SuperaSoglia, TypeOK
<1>5. ASSUME NEW w \in Workers, Tentativo(w) \/ Muore(w)
      PROVE  InCorso(v) /\ ora'[v] = ora[v] /\ scaduta'[v] = scaduta[v]
  BY <1>1, <1>2, <1>3, <1>5, ClasseChiude DEF Tentativo, Interna
<1>6. CASE \/ \E r \in Richieste : Richiesta(r)
           \/ \E t \in Transazioni : EnteElabora(t)
           \/ Certificato
           \/ UNCHANGED vars
  BY <1>6 DEF Richiesta, Seleziona, Carica, SalvaRiapertura, SalvaRichiesta, Abbandona,
              EnteElabora, Certificato, CaricaCertificato,
              RiapriFermiPerCertificato, RiaperturaFermiFallita,
              RimuoviCertificato, locali, vars
<1> QED
  BY <1>4, <1>5, <1>6 DEF Next

\* A live attempt younger than the threshold finds the row as it reserved it,
\* or closed by the reconciliation, whatever copies the others save:
\* conservaAnnullamentoEnte keeps the columns of the reservation.
THEOREM RiservaRispettata == Spec => PrenotazioneRispettata
<1> DEFINE Passo ==
      \A w \in Workers :
        InCorso(w) /\ ~scaduta[w] /\ InCorso(w)' =>
          /\ db'.sync.status \in {"SYNCING", "SYNCED"}
          /\ db'.avviato = ora[w]
<1>1. IInv /\ IInv' /\ [Next]_vars => Passo
  <2> SUFFICES ASSUME IInv, IInv', [Next]_vars, NEW w \in Workers,
                      InCorso(w), ~scaduta[w], InCorso(w)'
               PROVE  /\ db'.sync.status \in {"SYNCING", "SYNCED"}
                      /\ db'.avviato = ora[w]
    OBVIOUS
  <2>1. TypeOK /\ Forma
    BY Parti
  <2>2. Tiene(w) /\ Tiene(w)' /\ pc[w] # "letto"
    BY DEF InCorso, Tiene, Vivo
  <2>3. ora'[w] = ora[w]
    BY <2>1, <2>2, PassoInCorso DEF Prenota
  <2>4. CASE ~scaduta'[w]
    BY <2>2, <2>3, <2>4 DEF IInv, Prenotazioni, Istanti
  <2>5. CASE scaduta'[w]
    <3>1. \E v \in Workers : SuperaSoglia(v)
      <4>1. CASE \E v \in Workers : Interna(v)
        BY <2>5, <4>1, InternaInCorso
      <4>2. ASSUME NEW v \in Workers, Chiude(v)
            PROVE  FALSE
        BY <2>1, <2>5, <4>2 DEF Chiude, Termina, TypeOK
      <4>3. CASE \E v \in Workers : Leggi(v) \/ Prenota(v) \/ SalvaEsitoFallito(v)
        BY <2>5, <4>3 DEF Leggi, Prenota, SalvaEsitoFallito
      <4>4. CASE \E v \in Workers :
                   \/ PrenotazionePersa(v) \/ AvviaSuSincronizzato(v) \/ Muore(v)
                   \/ SalvaEsito(v) \/ SalvaSincronizzatoFallito(v) \/ SalvaErrore(v)
        BY <2>1, <4>2, <4>4, ClasseChiude
      <4>5. CASE \/ \E r \in Richieste : Richiesta(r)
                 \/ \E t \in Transazioni : EnteElabora(t)
                 \/ Certificato
                 \/ UNCHANGED vars
        BY <2>5, <4>5
           DEF Richiesta, Seleziona, Carica, SalvaRiapertura, SalvaRichiesta, Abbandona,
               EnteElabora, Certificato, CaricaCertificato,
               RiapriFermiPerCertificato, RiaperturaFermiFallita,
               RimuoviCertificato, locali, vars
      <4> QED
        BY <4>1, <4>3, <4>4, <4>5 DEF Next, Tentativo, Interna
    <3>2. db' = db
      BY <3>1 DEF SuperaSoglia
    <3> QED
      BY <2>2, <3>2 DEF IInv, Prenotazioni, Istanti
  <2> QED
    BY <2>4, <2>5
<1> QED
  BY <1>1, InvarianteInduttivo, PTL DEF Spec, PrenotazioneRispettata

-----------------------------------------------------------------------------
(* The transmission implements FormularioUnico. *)

Attivi == {w \in Workers : InCorso(w) /\ ~scaduta[w]}

Permessi == 1 + riaperture + deroghe

LEMMA TipiStoria ==
  ASSUME TypeOK
  PROVE  post \in Nat /\ riaperture \in Nat /\ deroghe \in Nat
BY DEF TypeOK

\* The counters: nothing, one more POST, or one more permission.
LEMMA PassoStoria ==
  ASSUME TypeOK, [Next]_vars
  PROVE  \/ storia' = storia
         \/ post' = post + 1 /\ Permessi' = Permessi
         \/ post' = post /\ Permessi' = Permessi + 1
<1>n. riaperture \in Nat /\ deroghe \in Nat /\ post \in Nat
  BY DEF TypeOK
<1> USE DEF storia, Permessi
<1>1. ASSUME NEW w \in Workers, Interna(w)
      PROVE  \/ storia' = storia
             \/ post' = post + 1 /\ Permessi' = Permessi
             \/ post' = post /\ Permessi' = Permessi + 1
  <2>1. CASE AvviaRifiutato(w)
    BY <1>n, <2>1 DEF AvviaRifiutato, Deroga
  <2>2. CASE Spedisci(w) \/ SpedisciIncerto(w)
    BY <2>2 DEF Spedisci, SpedisciIncerto, Accettata
  <2>3. CASE \/ AvviaStalloIncerto(w) \/ Avvia(w) \/ AvviaFallito(w)
             \/ SpedisciFallito(w) \/ Registra(w) \/ RegistraFallito(w)
             \/ LeggiEsito(w) \/ TransazioneNonTrovata(w) \/ LeggiEsitoFallito(w)
    BY <2>3 DEF AvviaStalloIncerto, Avvia, AvviaFallito, SpedisciFallito,
                Registra, RegistraFallito, LeggiEsito, TransazioneNonTrovata,
                LeggiEsitoFallito
  <2> QED
    BY <1>1, <2>1, <2>2, <2>3 DEF Interna
<1>2. ASSUME NEW w \in Workers, Tentativo(w), ~Interna(w)
      PROVE  storia' = storia \/ (post' = post /\ Permessi' = Permessi + 1)
  <2>1. CASE SalvaEsitoFallito(w)
    BY <1>n, <2>1 DEF SalvaEsitoFallito, Deroga
  <2>2. CASE ~SalvaEsitoFallito(w)
    BY <1>2, <2>2
       DEF Tentativo, Interna, Leggi, Prenota, PrenotazionePersa,
           AvviaSuSincronizzato, SalvaEsito, SalvaSincronizzatoFallito, SalvaErrore
  <2> QED
    BY <2>1, <2>2
<1>3. ASSUME NEW r \in Richieste, Richiesta(r)
      PROVE  storia' = storia \/ (post' = post /\ Permessi' = Permessi + 1)
  BY <1>n, <1>3 DEF Richiesta, Seleziona, Carica, SalvaRiapertura, SalvaRichiesta, Abbandona,
                    Deroga
<1>4. CASE \/ \E w \in Workers : SuperaSoglia(w) \/ Muore(w)
           \/ \E t \in Transazioni : EnteElabora(t)
           \/ Certificato
           \/ UNCHANGED vars
  BY <1>4 DEF SuperaSoglia, Muore, EnteElabora, Certificato, CaricaCertificato,
              RiapriFermiPerCertificato, RiaperturaFermiFallita,
              RimuoviCertificato, vars
<1> QED
  BY <1>1, <1>2, <1>3, <1>4 DEF Next

\* Only a reservation adds an attempt; there is never more than one.
LEMMA PassoAttivi ==
  ASSUME IInv, IInv', [Next]_vars
  PROVE  \/ Attivi' \in {Attivi, {}}
         \/ \E w \in Workers : Prenota(w) /\ Attivi = {} /\ Attivi' = {w}
<1>1. TypeOK /\ Forma
  BY Parti
<1>2. \A v, w \in Attivi : v = w
  BY UnoSoloDaIInv DEF UnSoloTentativo, Attivi
<1>3. \A v, w \in Attivi' : v = w
  <2>1. UnSoloTentativo'
    BY UnoSoloDaIInv
       DEF IInv, TypeOK, Istanti, Prenotazioni, UnSoloTentativo, InCorso, Tiene, Vivo
  <2> QED
    BY <2>1 DEF UnSoloTentativo, Attivi
<1>4. CASE \E w \in Workers : Prenota(w)
  <2>1. PICK w \in Workers : Prenota(w)
    BY <1>4
  <2>2. /\ w \notin Attivi
        /\ w \in Attivi'
        /\ \A v \in Workers : v # w => (v \in Attivi' <=> v \in Attivi)
    BY <1>1, <2>1
       DEF Prenota, Attivi, InCorso, TypeOK, Forma, Istanti, Vivo
  <2>3. Attivi' = {w} /\ Attivi = {}
    BY <1>3, <2>2 DEF Attivi
  <2> QED
    BY <2>1, <2>3
<1>5. CASE ~ \E w \in Workers : Prenota(w)
  <2>1. Attivi' \subseteq Attivi
    BY <1>1, <1>5, PassoInCorso DEF Attivi
  <2> QED
    BY <1>2, <2>1
<1> QED
  BY <1>4, <1>5

\* The transmission, with its jobs, requests, crashes and timeouts, implements
\* the abstract promise: attempts take turns, and what the ente creates was
\* permitted before it was created.
THEOREM ImplementaFormularioUnico == Spec => FormularioUnicoRispettato
<1>1. Init => Promessa!Init
  BY DEF Init, Promessa!Init, InCorso
<1>c. IInv' => CreazioniAutorizzate'
  BY CreazioniDaIInv, PTL
<1>2. IInv /\ IInv' /\ [Next]_vars
        => [Promessa!Next]_<<Attivi, post, Permessi>>
  <2> SUFFICES ASSUME IInv, IInv', [Next]_vars
               PROVE  Promessa!Next \/ UNCHANGED <<Attivi, post, Permessi>>
    BY DEF Attivi, Permessi
  <2>n. post \in Nat /\ Permessi \in Nat /\ post' <= Permessi'
    <3>1. post' <= Permessi'
      BY <1>c DEF CreazioniAutorizzate, Permessi
    <3>2. post \in Nat /\ riaperture \in Nat /\ deroghe \in Nat
      BY TipiStoria DEF IInv
    <3> QED
      BY <3>1, <3>2 DEF Permessi
  <2>1. CASE storia' = storia
    <3>1. post' = post /\ Permessi' = Permessi
      BY <2>1 DEF storia, Permessi
    <3> QED
      BY <3>1, PassoAttivi
         DEF Promessa!Next, Promessa!Inizia, Promessa!Finisce, Attivi, Permessi
  <2>2. CASE storia' # storia
    <3>1. \A w \in Workers : ~Prenota(w)
      BY <2>2 DEF Prenota
    <3>2. Attivi' \in {Attivi, {}}
      BY <3>1, PassoAttivi
    <3>3. \/ post' = post + 1 /\ Permessi' = Permessi
          \/ post' = post /\ Permessi' = Permessi + 1
      BY <2>2, PassoStoria DEF IInv
    <3>4. CASE post' = post + 1 /\ Permessi' = Permessi
      <4>1. post < Permessi
        BY <2>n, <3>4
      <4> QED
        BY <3>2, <3>4, <4>1
           DEF Promessa!Next, Promessa!Crea, Promessa!Resta, Attivi, Permessi
    <3>5. CASE post' = post /\ Permessi' = Permessi + 1
      BY <3>2, <3>5
         DEF Promessa!Next, Promessa!Permetti, Promessa!Resta, Attivi, Permessi
    <3> QED
      BY <3>3, <3>4, <3>5
  <2> QED
    BY <2>1, <2>2
<1> QED
  BY <1>1, <1>2, InvarianteInduttivo, PTL
     DEF Spec, FormularioUnicoRispettato, Promessa!Spec, Attivi, Permessi

-----------------------------------------------------------------------------
(* Annulments.                                                               *)

\* A write of the row, by a save that is not refused or by an update of some
\* columns, keeps an annulment.
Conserva(f) ==
  /\ db.stato = "ANNULLATO" => f.stato = "ANNULLATO"
  /\ db.annullatoEnte => f.annullatoEnte

\* A save keeps an annulment: conservaAnnullamentoEnte, and the refusal of a
\* copy that does not know ours.
LEMMA SalvaConserva ==
  ASSUME db \in Fir, NEW f \in Fir
  PROVE  /\ Conserva(Salva(db, f))
         /\ ~Rifiutato(db, f) => Conserva(RigaSalvata(db, f))
<1>1. /\ RigaSalvata(db, f).stato = f.stato
      /\ db.annullatoEnte => RigaSalvata(db, f).annullatoEnte
  BY DEF RigaSalvata, Fir
<1>2. Conserva(db)
  BY DEF Conserva
<1>3. ~Rifiutato(db, f) => Conserva(RigaSalvata(db, f))
  BY <1>1 DEF Conserva, Rifiutato
<1> QED
  BY <1>2, <1>3 DEF Salva

\* An annulment, ours or of the ente, is final.
THEOREM AnnullamentiFinali == Spec => AnnullamentiDefinitivi
<1>1. TypeOK /\ [Next]_vars =>
        [/\ db.stato = "ANNULLATO" => db'.stato = "ANNULLATO"
         /\ db.annullatoEnte => db'.annullatoEnte]_vars
  <2> SUFFICES ASSUME TypeOK, [Next]_vars PROVE Conserva(db')
    BY DEF Conserva
  <2>t. db \in Fir /\ \A w \in Workers : copia[w] \in Fir
    BY DEF TypeOK
  <2>f. db' = db => Conserva(db')
    BY DEF Conserva
  <2>1. ASSUME NEW w \in Workers, Tentativo(w) \/ SuperaSoglia(w) \/ Muore(w)
        PROVE  Conserva(db')
    <3>1. CASE Prenota(w)
      BY <2>t, <3>1 DEF Prenota, Conserva, Fir
    <3>2. CASE Registra(w)
      BY <2>t, <3>2 DEF Registra, RegistraTransazioneInAttesa, Conserva, Fir
    <3>3. CASE SalvaEsito(w) \/ SalvaErrore(w)
      BY <2>t, <3>3, SalvaConserva DEF SalvaEsito, SalvaErrore
    <3>4. CASE SalvaEsitoFallito(w) \/ SalvaSincronizzatoFallito(w)
      BY <2>t, <2>f, <3>4, SalvaConserva DEF SalvaEsitoFallito, SalvaSincronizzatoFallito
    <3>5. CASE \/ Leggi(w) \/ PrenotazionePersa(w) \/ AvviaRifiutato(w)
               \/ AvviaSuSincronizzato(w) \/ AvviaStalloIncerto(w) \/ Avvia(w)
               \/ AvviaFallito(w) \/ Spedisci(w) \/ SpedisciIncerto(w)
               \/ SpedisciFallito(w) \/ RegistraFallito(w) \/ LeggiEsito(w)
               \/ TransazioneNonTrovata(w) \/ LeggiEsitoFallito(w)
               \/ SuperaSoglia(w) \/ Muore(w)
      BY <2>f, <3>5 DEF Leggi, PrenotazionePersa, AvviaRifiutato, AvviaSuSincronizzato,
         AvviaStalloIncerto, Avvia, AvviaFallito, Spedisci, SpedisciIncerto,
         SpedisciFallito, RegistraFallito, LeggiEsito, TransazioneNonTrovata,
         LeggiEsitoFallito, SuperaSoglia, Muore
    <3> QED
      BY <2>1, <3>1, <3>2, <3>3, <3>4, <3>5 DEF Tentativo
  <2>2. ASSUME NEW r \in Richieste, Richiesta(r) PROVE Conserva(db')
    <3> DEFINE g == richiesta[r].fir
    <3>1. g \in Fir
      BY DEF TypeOK
    <3>2. CASE SalvaRiapertura(r)
      <4>1. [g EXCEPT !.sync = Pending] \in Fir
        BY <3>1, TipiStato DEF Fir
      <4> QED
        BY <2>t, <3>2, <4>1, SalvaConserva DEF SalvaRiapertura
    <3>3. CASE SalvaRichiesta(r)
      <4>1. PICK f \in Applica(richiesta[r].op, g, esito) : db' = Salva(db, f)
        BY <3>3 DEF SalvaRichiesta
      <4>2. f \in Fir
        BY <3>1, <3>3, <4>1, TipiRichiesta DEF SalvaRichiesta
      <4> QED
        BY <2>t, <4>1, <4>2, SalvaConserva
    <3>4. CASE Seleziona(r) \/ (\E op \in Operazioni : Carica(r, op)) \/ Abbandona(r)
      BY <2>f, <3>4 DEF Seleziona, Carica, Abbandona
    <3> QED
      BY <2>2, <3>2, <3>3, <3>4 DEF Richiesta
  <2>3. CASE \E t \in Transazioni : EnteElabora(t)
    BY <2>f, <2>3 DEF EnteElabora
  <2>4. CASE Certificato
    <3>1. CASE RiapriFermiPerCertificato
      BY <2>t, <3>1 DEF RiapriFermiPerCertificato, Conserva, Fir
    <3> QED
      BY <2>f, <2>4, <3>1 DEF Certificato, CaricaCertificato, RiaperturaFermiFallita,
         RimuoviCertificato
  <2>5. CASE UNCHANGED vars
    BY <2>f, <2>5 DEF vars
  <2> QED
    BY <2>1, <2>2, <2>3, <2>4, <2>5 DEF Next
<1>2. Spec => [][Next]_vars
  BY DEF Spec
<1> QED
  BY <1>1, <1>2, TipiCorretti, PTL DEF AnnullamentiDefinitivi

-----------------------------------------------------------------------------
(* The link.                                                                 *)

\* The number of one of our transactions, and the outcome that carries it.
Dato(n, esiti) == n \in Transazioni /\ esiti[n] = "conNumero"

Autentica(f, esiti) ==
  /\ f.origine = "TRASMESSO_DA_NOI" => Dato(f.numero, esiti)
  /\ f.proposto # 0 => Dato(f.proposto, esiti)

\* The guards of the load that the save counts on.
Pronta(op, f) ==
  /\ op = "RICONCILIA_SYNCING" => f.transazione # 0
  /\ op = "CONFERMA_LEGAME" => f.proposto # 0

\* What makes LegameAutentico inductive: every copy is authentic too, since any
\* of them may be saved, and what is not sent has no outcome.
Legami ==
  /\ Autentica(db, esito)
  /\ \A w \in Workers : Autentica(copia[w], esito)
  /\ \A r \in Richieste :
       /\ Autentica(richiesta[r].fir, esito)
       /\ Pronta(richiesta[r].op, richiesta[r].fir)
  /\ \A t \in Transazioni : t > post => esito[t] = "nessuna"

StessoLegame(g, f) ==
  g.origine = f.origine /\ g.numero = f.numero /\ g.proposto = f.proposto

\* Outcomes stay.
EsitiConservati ==
  \A t \in Transazioni : esito[t] = "conNumero" => esito'[t] = "conNumero"

\* Only these three columns count.
LEMMA AutenticaCopia ==
  ASSUME NEW f, NEW g, NEW esiti, StessoLegame(g, f), Autentica(f, esiti)
  PROVE  Autentica(g, esiti)
BY DEF StessoLegame, Autentica

\* A FIR just issued claims no number.
LEMMA AutenticaIniziale == \A esiti : Autentica(FirEmesso, esiti)
BY DEF Autentica, FirEmesso

\* What an attempt does to its aggregate before the outcome, and a save, leave
\* the link as it is.
LEMMA LegameFermo ==
  ASSUME NEW f \in Fir
  PROVE  /\ \A o : StessoLegame(AvviaTentativo(f, o), f)
         /\ \A t : StessoLegame(RegistraTransazioneInAttesa(f, t), f)
         /\ StessoLegame(ChiudiTransazione(f), f)
         /\ \A c : StessoLegame(MarkSyncFailed(f, c), f)
         /\ \A c : StessoLegame(Fallimento(f, c), f)
         /\ StessoLegame(SegnaIncerta(f), f)
         /\ \A riga \in Fir : StessoLegame(RigaSalvata(riga, f), f)
<1>1. \A c : StessoLegame(MarkSyncFailed(f, c), f)
  BY DEF MarkSyncFailed, StessoLegame, Fir
<1>2. \A c : StessoLegame(Fallimento(f, c), f)
  BY <1>1 DEF Fallimento
<1>3. \A g \in Fir : StessoLegame(ChiudiTransazione(g), g)
  BY DEF ChiudiTransazione, StessoLegame, Fir
<1>4. StessoLegame(SegnaIncerta(f), f)
  <2>1. Incerta \in Codici
    BY TipiCodici
  <2>2. MarkSyncFailed(f, Incerta) \in Fir
    BY <2>1, TipiTentativo
  <2> QED
    BY <1>1, <1>3, <2>2 DEF SegnaIncerta, StessoLegame
<1>5. \A riga \in Fir : StessoLegame(RigaSalvata(riga, f), f)
  BY DEF RigaSalvata, StessoLegame, Fir
<1>6. /\ \A o : StessoLegame(AvviaTentativo(f, o), f)
      /\ \A t : StessoLegame(RegistraTransazioneInAttesa(f, t), f)
  BY DEF AvviaTentativo, RegistraTransazioneInAttesa, StessoLegame, Fir
<1> QED
  BY <1>1, <1>2, <1>3, <1>4, <1>5, <1>6

\* A positive outcome gives an authentic link.
LEMMA EsitoAutentico ==
  ASSUME NEW f \in Fir, NEW n, NEW c \in BOOLEAN, NEW esiti, Autentica(f, esiti),
         Dato(n, esiti)
  PROVE  Autentica(EsitoPositivo(f, n, c), esiti)
<1>1. CASE c
  BY <1>1 DEF EsitoPositivo, ProponiLegame, Autentica, Fir
<1>2. CASE ~c
  BY <1>2 DEF EsitoPositivo, MarkSynced, Autentica, Fir
<1> QED
  BY <1>1, <1>2

\* The domain methods of the requests do too.
LEMMA RichiestaAutentica ==
  ASSUME NEW f \in Fir, NEW op \in OperazioniNote, op # "RIAPRI", NEW esiti,
         Autentica(f, esiti), Pronta(op, f),
         NEW g \in Applica(op, f, esiti)
  PROVE  Autentica(g, esiti)
<1>1. CASE op = "RICONCILIA_SYNCING"
  <2>1. PICK c \in Conferme : /\ g = EsitoPositivo(f, f.transazione, c)
                             /\ esiti[f.transazione] = "conNumero"
    BY <1>1 DEF Applica
  <2>2. f.transazione \in Transazioni /\ c \in BOOLEAN
    BY <1>1, FirTrasmissioneAssumption DEF Fir, Transazioni, Pronta
  <2> QED
    BY <2>1, <2>2, EsitoAutentico DEF Dato
<1>2. CASE op = "STATO_ENTE"
  <2>1. PICK s \in StatiEnte : g = ApplicaStatoEnte(f, s)
    BY <1>2 DEF Applica
  <2>2. StessoLegame(g, f)
    BY <2>1 DEF ApplicaStatoEnte, StessoLegame, Fir
  <2> QED
    BY <2>2, AutenticaCopia
<1>3. CASE op = "CONFERMA_LEGAME"
  <2>1. /\ g.origine = "TRASMESSO_DA_NOI" /\ g.numero = f.proposto /\ g.proposto = 0
        /\ f.proposto # 0
    BY <1>3 DEF Applica, Pronta, Fir
  <2> QED
    BY <2>1 DEF Autentica
<1>4. CASE op \in {"AGGANCIA", "RILASCIA"}
  BY <1>4 DEF Applica, Autentica, Fir
<1>5. CASE op \notin {"RICONCILIA_SYNCING", "STATO_ENTE", "CONFERMA_LEGAME", "AGGANCIA", "RILASCIA"}
  <2>1. StessoLegame(g, f)
    BY <1>5 DEF OperazioniNote, Applica, StessoLegame, Fir
  <2> QED
    BY <2>1, AutenticaCopia
<1> QED
  BY <1>1, <1>2, <1>3, <1>4, <1>5

\* A step whose copies, new row and new outcomes are authentic.
LEMMA LegamiDopo ==
  ASSUME TypeOK, Legami, EsitiConservati, Autentica(db', esito'),
         \A w \in Workers : copia'[w] = copia[w] \/ Autentica(copia'[w], esito'),
         \A r \in Richieste :
            \/ richiesta'[r] = richiesta[r]
            \/ /\ Autentica(richiesta'[r].fir, esito')
               /\ Pronta(richiesta'[r].op, richiesta'[r].fir),
         \A t \in Transazioni : t > post' => esito'[t] = "nessuna"
  PROVE  Legami'
<1>1. \A f : Autentica(f, esito) => Autentica(f, esito')
  BY DEF EsitiConservati, Autentica, Dato
<1>2. \A w \in Workers : Autentica(copia'[w], esito')
  BY <1>1 DEF Legami
<1>3. \A r \in Richieste : /\ Autentica(richiesta'[r].fir, esito')
                          /\ Pronta(richiesta'[r].op, richiesta'[r].fir)
  BY <1>1 DEF Legami
<1> QED
  BY <1>2, <1>3 DEF Legami, Pronta

\* A step that changes no outcome, of one worker that goes on with copy f.
LEMMA LegamiCopia ==
  ASSUME TypeOK, Legami, Autentica(db', esito),
         UNCHANGED <<richiesta, esito, post>>,
         NEW w \in Workers, NEW q, NEW f, Vai(w, q, f), Autentica(f, esito)
  PROVE  Legami'
<1>1. \A v \in Workers : copia'[v] = copia[v] \/ copia'[v] = f
  BY DEF Vai, TypeOK
<1>2. EsitiConservati /\ esito' = esito /\ post' = post /\ richiesta' = richiesta
  BY DEF EsitiConservati
<1>3. \A t \in Transazioni : t > post => esito[t] = "nessuna"
  BY DEF Legami
<1> QED
  BY <1>1, <1>2, <1>3, LegamiDopo

\* A step of a request, or of the environment, that changes no outcome.
LEMMA LegamiRichiesta ==
  ASSUME TypeOK, Legami, Autentica(db', esito), UNCHANGED <<copia, esito, post>>,
         \A r \in Richieste :
            \/ richiesta'[r] = richiesta[r]
            \/ /\ Autentica(richiesta'[r].fir, esito)
               /\ Pronta(richiesta'[r].op, richiesta'[r].fir)
  PROVE  Legami'
<1>1. EsitiConservati /\ esito' = esito /\ post' = post
  BY DEF EsitiConservati
<1>2. \A t \in Transazioni : t > post => esito[t] = "nessuna"
  BY DEF Legami
<1> QED
  BY <1>1, <1>2, LegamiDopo

\* A save writes the link of its copy.
LEMMA SalvaAutentica ==
  ASSUME db \in Fir, Autentica(db, esito), NEW f \in Fir, Autentica(f, esito)
  PROVE  Autentica(RigaSalvata(db, f), esito) /\ Autentica(Salva(db, f), esito)
<1>1. Autentica(RigaSalvata(db, f), esito)
  BY LegameFermo, AutenticaCopia
<1> QED
  BY <1>1 DEF Salva

\* The steps of an attempt keep the invariant of the link.
LEMMA LegamiTentativo ==
  ASSUME TypeOK, TypeOK', Forma, Legami, NEW w \in Workers, Tentativo(w) \/ Muore(w)
  PROVE  Legami'
<1> USE DEF ambiente, storia
<1>t. /\ db \in Fir /\ copia[w] \in Fir /\ ora[w] \in Nat
      /\ Autentica(db, esito) /\ Autentica(copia[w], esito)
      /\ Autentica(FirEmesso, esito)
  BY AutenticaIniziale DEF TypeOK, Legami
<1>a. /\ AvviaTentativo(db, ora[w]) \in Fir
      /\ Autentica(AvviaTentativo(db, ora[w]), esito)
  BY <1>t, TipiTentativo, LegameFermo, AutenticaCopia
<1>f. ASSUME NEW f \in Fir, Autentica(f, esito)
      PROVE  /\ \A c : Autentica(MarkSyncFailed(f, c), esito)
             /\ \A c : Autentica(Fallimento(f, c), esito)
             /\ Autentica(SegnaIncerta(f), esito)
             /\ Autentica(ChiudiTransazione(f), esito) /\ ChiudiTransazione(f) \in Fir
  BY <1>f, LegameFermo, AutenticaCopia, TipiTentativo
<1>v. ASSUME UNCHANGED <<richiesta, esito, post>>, Autentica(db', esito),
             \E q, f : Vai(w, q, f) /\ Autentica(f, esito)
      PROVE  Legami'
  BY <1>v, LegamiCopia
<1>z. Termina(w) => Vai(w, "fermo", FirEmesso)
  BY DEF Termina
<1>1. CASE Leggi(w)
  BY <1>1, <1>t, <1>v DEF Leggi
<1>2. CASE Prenota(w)
  <2>1. StessoLegame(db', db)
    BY <1>t, <1>2 DEF Prenota, StessoLegame, Fir
  <2>2. Autentica(db', esito)
    BY <1>t, <2>1, AutenticaCopia
  <2> QED
    BY <1>2, <2>2, LegamiRichiesta DEF Prenota
<1>3. CASE PrenotazionePersa(w) \/ AvviaSuSincronizzato(w) \/ Muore(w)
  BY <1>3, <1>t, <1>v, <1>z DEF PrenotazionePersa, AvviaSuSincronizzato, Muore
<1>4. CASE AvviaRifiutato(w)
  BY <1>4, <1>t, <1>f, <1>v DEF AvviaRifiutato
<1>5. CASE AvviaStalloIncerto(w)
  BY <1>5, <1>t, <1>a, <1>f, <1>v DEF AvviaStalloIncerto
<1>6. CASE Avvia(w)
  BY <1>6, <1>t, <1>a, <1>v DEF Avvia
<1>7. CASE AvviaFallito(w)
  BY <1>7, <1>t, <1>a, <1>f, <1>v DEF AvviaFallito
<1>8. CASE Spedisci(w) \/ SpedisciIncerto(w)
  <2>1. PICK q, f : Vai(w, q, f) /\ Autentica(f, esito)
    BY <1>8, <1>t, <1>f, LegameFermo, AutenticaCopia DEF Spedisci, SpedisciIncerto
  <2>2. db' = db /\ richiesta' = richiesta /\ (Accettata \/ UNCHANGED <<post, esito>>)
    BY <1>8 DEF Spedisci, SpedisciIncerto
  <2>3. CASE UNCHANGED <<post, esito>>
    BY <1>t, <1>v, <2>1, <2>2, <2>3
  <2>4. CASE Accettata
    <3>1. /\ post \in Nat /\ post' = post + 1 /\ post + 1 \in Transazioni
          /\ esito' = [esito EXCEPT ![post + 1] = "inCorso"]
      BY <2>4, FirTrasmissioneAssumption DEF Accettata, TypeOK, Transazioni
    <3>2. \A t \in Transazioni : t > post => esito[t] = "nessuna"
      BY DEF Legami
    <3>3. EsitiConservati
      BY <3>1, <3>2 DEF EsitiConservati, TypeOK, Transazioni
    <3>4. \A t \in Transazioni : t > post' => esito'[t] = "nessuna"
      BY <3>1, <3>2 DEF TypeOK, Transazioni
    <3>5. \A g : Autentica(g, esito) => Autentica(g, esito')
      BY <3>3 DEF EsitiConservati, Autentica, Dato
    <3>6. \A v \in Workers : copia'[v] = copia[v] \/ copia'[v] = f
      BY <2>1 DEF Vai, TypeOK
    <3> QED
      BY <1>t, <2>1, <2>2, <3>3, <3>4, <3>5, <3>6, LegamiDopo
  <2> QED
    BY <2>2, <2>3, <2>4
<1>9. CASE SpedisciFallito(w) \/ RegistraFallito(w) \/ TransazioneNonTrovata(w)
             \/ LeggiEsitoFallito(w)
  BY <1>9, <1>t, <1>f, <1>v DEF SpedisciFallito, RegistraFallito, TransazioneNonTrovata,
     LeggiEsitoFallito
<1>10. CASE Registra(w)
  <2>1. Autentica(db', esito)
    BY <1>10, <1>t, LegameFermo, AutenticaCopia DEF Registra
  <2> QED
    BY <1>10, <1>t, <1>v, <2>1 DEF Registra
<1>11. CASE LeggiEsito(w)
  <2> DEFINE f == copia[w]
             t == copia[w].inAttesa
  <2>1. t \in Transazioni
    BY <1>11, CopieVive DEF LeggiEsito, Transazioni
  <2>2. ASSUME esito[t] = "conNumero", NEW c \in BOOLEAN
        PROVE  Autentica(EsitoPositivo(f, t, c), esito)
    BY <1>t, <2>1, <2>2, EsitoAutentico DEF Dato
  <2>3. \A c : Autentica(MarkSyncFailed(ChiudiTransazione(f), c), esito)
    BY <1>t, <1>f
  <2>4. db' = db /\ UNCHANGED <<richiesta, esito, post>>
    BY <1>11 DEF LeggiEsito
  <2>5. Conferme \subseteq BOOLEAN
    BY FirTrasmissioneAssumption
  <2>6. \E q, g : Vai(w, q, g) /\ Autentica(g, esito)
    BY <1>11, <2>2, <2>3, <2>5 DEF LeggiEsito
  <2> QED
    BY <1>t, <1>v, <2>4, <2>6
<1>12. CASE \/ SalvaEsito(w) \/ SalvaErrore(w) \/ SalvaSincronizzatoFallito(w)
            \/ SalvaEsitoFallito(w)
  <2>1. Autentica(db', esito)
    BY <1>12, <1>t, SalvaAutentica
       DEF SalvaEsito, SalvaErrore, SalvaSincronizzatoFallito, SalvaEsitoFallito
  <2>2. \E q, f : Vai(w, q, f) /\ Autentica(f, esito)
    BY <1>12, <1>t, <1>f, <1>z
       DEF SalvaEsito, SalvaErrore, SalvaSincronizzatoFallito, SalvaEsitoFallito
  <2>3. UNCHANGED <<richiesta, esito, post>>
    BY <1>12 DEF SalvaEsito, SalvaErrore, SalvaSincronizzatoFallito, SalvaEsitoFallito
  <2> QED
    BY <1>v, <2>1, <2>2, <2>3
<1> QED
  BY <1>1, <1>2, <1>3, <1>4, <1>5, <1>6, <1>7, <1>8, <1>9, <1>10, <1>11, <1>12 DEF Tentativo

\* Those of the other requests too.
LEMMA LegamiRichieste ==
  ASSUME TypeOK, Legami, NEW r \in Richieste, Richiesta(r)
  PROVE  Legami'
<1> USE DEF locali, storia
<1> DEFINE g == richiesta[r].fir
<1>t. /\ db \in Fir /\ g \in Fir /\ Autentica(db, esito) /\ Autentica(g, esito)
      /\ Pronta(richiesta[r].op, g)
      /\ Autentica(FirEmesso, esito)
  BY AutenticaIniziale DEF TypeOK, Legami
<1>l. /\ Libera.fir = FirEmesso /\ Selezionata.fir = FirEmesso
      /\ Pronta(Libera.op, FirEmesso) /\ Pronta(Selezionata.op, FirEmesso)
  BY FirTrasmissioneAssumption DEF Libera, Selezionata, Pronta, OperazioniNote
<1>n. ASSUME NEW n, richiesta' = [richiesta EXCEPT ![r] = n]
      PROVE  \A s \in Richieste : richiesta'[s] = richiesta[s] \/ richiesta'[s] = n
  BY <1>n DEF TypeOK
<1>1. CASE Seleziona(r) \/ Abbandona(r)
  <2>1. UNCHANGED <<db, copia, esito, post>>
    BY <1>1 DEF Seleziona, Abbandona
  <2>2. \/ richiesta' = [richiesta EXCEPT ![r] = Libera]
        \/ richiesta' = [richiesta EXCEPT ![r] = Selezionata]
    BY <1>1 DEF Seleziona, Abbandona
  <2>3. \A s \in Richieste : \/ richiesta'[s] = richiesta[s]
                            \/ richiesta'[s] = Libera \/ richiesta'[s] = Selezionata
    BY <1>n, <2>2
  <2> QED
    BY <1>t, <1>l, <2>1, <2>3, LegamiRichiesta
<1>2. ASSUME NEW op \in Operazioni, Carica(r, op) PROVE Legami'
  <2>1. UNCHANGED <<db, copia, esito, post>> /\ Ammessa(op, db)
    BY <1>2 DEF Carica
  <2>2. Pronta(op, db)
    BY <2>1 DEF Ammessa, Pronta
  <2>3. \A s \in Richieste : richiesta'[s] = richiesta[s] \/ richiesta'[s] = [op |-> op, fir |-> db]
    BY <1>2, <1>n DEF Carica
  <2> QED
    BY <1>t, <2>1, <2>2, <2>3, LegamiRichiesta
<1>3. CASE SalvaRiapertura(r) \/ SalvaRichiesta(r)
  <2>1. PICK f \in Fir : db' = Salva(db, f) /\ Autentica(f, esito)
    <3>1. CASE SalvaRiapertura(r)
      <4> DEFINE f == [g EXCEPT !.sync = Pending]
      <4>1. f \in Fir /\ StessoLegame(f, g)
        BY <1>t, TipiStato DEF Fir, StessoLegame
      <4>2. Autentica(f, esito)
        BY <1>t, <4>1, AutenticaCopia
      <4> QED
        BY <3>1, <4>1, <4>2 DEF SalvaRiapertura
    <3>2. CASE SalvaRichiesta(r)
      <4>1. PICK f \in Applica(richiesta[r].op, g, esito) : db' = Salva(db, f)
        BY <3>2 DEF SalvaRichiesta
      <4>2. f \in Fir /\ Autentica(f, esito)
        BY <1>t, <3>2, <4>1, TipiRichiesta, RichiestaAutentica DEF SalvaRichiesta
      <4> QED
        BY <4>1, <4>2
    <3> QED
      BY <1>3, <3>1, <3>2
  <2>2. Autentica(db', esito)
    BY <1>t, <2>1, SalvaAutentica
  <2>3. UNCHANGED <<copia, esito, post>> /\ richiesta' = [richiesta EXCEPT ![r] = Libera]
    BY <1>3 DEF SalvaRiapertura, SalvaRichiesta
  <2>4. \A s \in Richieste : richiesta'[s] = richiesta[s] \/ richiesta'[s] = Libera
    BY <1>n, <2>3
  <2> QED
    BY <1>t, <1>l, <2>2, <2>3, <2>4, LegamiRichiesta
<1> QED
  BY <1>1, <1>2, <1>3 DEF Richiesta

\* Every step keeps it.
LEMMA LegamiConservati == TypeOK /\ TypeOK' /\ Forma /\ Legami /\ [Next]_vars => Legami'
<1> SUFFICES ASSUME TypeOK, TypeOK', Forma, Legami, [Next]_vars PROVE Legami'
  OBVIOUS
<1> USE DEF locali, storia, ambiente
<1>t. db \in Fir /\ Autentica(db, esito)
  BY DEF TypeOK, Legami
<1>1. ASSUME NEW w \in Workers, Tentativo(w) \/ SuperaSoglia(w) \/ Muore(w) PROVE Legami'
  BY <1>1, <1>t, LegamiTentativo, LegamiRichiesta DEF SuperaSoglia
<1>2. ASSUME NEW t \in Transazioni, EnteElabora(t) PROVE Legami'
  <2>1. /\ esito[t] = "inCorso" /\ UNCHANGED <<db, copia, richiesta, post>>
        /\ \A u \in Transazioni \ {t} : esito'[u] = esito[u]
    BY <1>2 DEF EnteElabora, TypeOK
  <2>2. EsitiConservati
    BY <2>1 DEF EsitiConservati
  <2>3. \A u \in Transazioni : u > post' => esito'[u] = "nessuna"
    BY <2>1 DEF Legami
  <2>4. Autentica(db', esito')
    BY <1>t, <2>1, <2>2 DEF EsitiConservati, Autentica, Dato
  <2> QED
    BY <2>1, <2>2, <2>3, <2>4, LegamiDopo
<1>3. CASE Certificato
  <2>1. UNCHANGED <<copia, richiesta, esito, post>>
    BY <1>3 DEF Certificato, CaricaCertificato, RiapriFermiPerCertificato,
       RiaperturaFermiFallita, RimuoviCertificato
  <2>2. db' = db \/ db' = [db EXCEPT !.sync = Pending]
    BY <1>3 DEF Certificato, CaricaCertificato, RiapriFermiPerCertificato,
       RiaperturaFermiFallita, RimuoviCertificato
  <2>3. StessoLegame(db', db)
    BY <1>t, <2>2 DEF StessoLegame, Fir
  <2>4. Autentica(db', esito)
    BY <1>t, <2>3, AutenticaCopia
  <2> QED
    BY <2>1, <2>4, LegamiRichiesta
<1>4. CASE UNCHANGED vars
  BY <1>t, <1>4, LegamiRichiesta DEF vars
<1> QED
  BY <1>1, <1>2, <1>3, <1>4, LegamiRichieste DEF Next

\* It holds at the start.
LEMMA LegamiIniziali == Init => Legami
<1> SUFFICES ASSUME Init PROVE Legami
  OBVIOUS
<1>1. Autentica(db, esito)
  <2>1. StessoLegame(FirEmessoSenzaCertificato, FirEmesso)
    BY TipoIniziale, LegameFermo DEF FirEmessoSenzaCertificato
  <2> QED
    BY <2>1, AutenticaIniziale, AutenticaCopia DEF Init
<1>2. Pronta(Libera.op, Libera.fir) /\ Libera.fir = FirEmesso
  BY FirTrasmissioneAssumption DEF Libera, Pronta, OperazioniNote
<1> QED
  BY <1>1, <1>2, AutenticaIniziale DEF Init, Legami

\* The numbers on the row that claim to be ours are numbers the ente gave us.
THEOREM LegameSempreAutentico == Spec => []LegameAutentico
<1>1. Init => Legami
  BY LegamiIniziali
<1>2. IInv /\ IInv' /\ Legami /\ [Next]_vars => Legami'
  <2>1. IInv' => TypeOK'
    BY DEF IInv
  <2> QED
    BY <2>1, LegamiConservati, Parti
<1>3. Legami => LegameAutentico
  BY DEF Legami, Autentica, Dato, LegameAutentico
<1> QED
  BY <1>1, <1>2, <1>3, InvarianteInduttivo, PTL DEF Spec

-----------------------------------------------------------------------------
(* The pending transaction.                                                  *)

\* The row and the copies of requests that know the last reservation: the ones a
\* save may write over its columns.
Recenti == {c \in {db} \cup {richiesta[r].fir : r \in Richieste} : c.avviato = orologio}

Chiusa(c) == c.sync.status = "SYNCED" => c.inAttesa = 0

\* A closed transmission has nothing to read; until the attempt that holds the
\* reservation starts, its copies agree on the transaction to be read; once it is
\* about to send, there is none.
Attese ==
  /\ Chiusa(db)
  /\ \A r \in Richieste : Chiusa(richiesta[r].fir)
  /\ \A w \in Workers : pc[w] = "salvaEsito" => Chiusa(copia[w])
  /\ \A w \in Workers :
       pc[w] = "prenotato" =>
         \A c, d \in Recenti :
           c.sync.status = "SYNCING" /\ d.sync.status = "SYNCING" => c.inAttesa = d.inAttesa
  /\ \A w \in Workers :
       pc[w] = "daSpedire" /\ ora[w] = orologio => \A c \in Recenti : c.inAttesa = 0

\* A step of no reservation, after which the recent copies are those of before or
\* closed, and nobody is newly about to send.
LEMMA AtteseDopo ==
  ASSUME TypeOK, Attese,
         \A r \in Richieste : Chiusa(richiesta'[r].fir), Chiusa(db'),
         orologio' = orologio,
         \A c \in Recenti' : \/ c.sync.status = "SYNCED" /\ c.inAttesa = 0
                             \/ \E d \in Recenti : c.sync = d.sync /\ c.inAttesa = d.inAttesa,
         \A w \in Workers : \/ pc'[w] = pc[w] /\ ora'[w] = ora[w] /\ copia'[w] = copia[w]
                           \/ pc'[w] \notin {"prenotato", "daSpedire", "salvaEsito"}
  PROVE  Attese'
<1>1. ASSUME NEW w \in Workers, pc'[w] = "prenotato", NEW c \in Recenti', NEW d \in Recenti',
             c.sync.status = "SYNCING", d.sync.status = "SYNCING"
      PROVE  c.inAttesa = d.inAttesa
  <2>1. pc[w] = "prenotato"
    BY <1>1
  <2>2. PICK c0 \in Recenti : c.sync = c0.sync /\ c.inAttesa = c0.inAttesa
    BY <1>1
  <2>3. PICK d0 \in Recenti : d.sync = d0.sync /\ d.inAttesa = d0.inAttesa
    BY <1>1
  <2> QED
    BY <1>1, <2>1, <2>2, <2>3 DEF Attese
<1>2. ASSUME NEW w \in Workers, pc'[w] = "daSpedire", ora'[w] = orologio', NEW c \in Recenti'
      PROVE  c.inAttesa = 0
  <2>1. pc[w] = "daSpedire" /\ ora[w] = orologio
    BY <1>2
  <2> QED
    BY <2>1 DEF Attese
<1>3. ASSUME NEW w \in Workers, pc'[w] = "salvaEsito" PROVE Chiusa(copia'[w])
  BY <1>3 DEF Attese
<1> QED
  BY <1>1, <1>2, <1>3 DEF Attese, Chiusa

\* The last reservation is held by an attempt past its POST: nobody else waits
\* to start or to send under it.
LEMMA AtteseAltrove ==
  ASSUME TypeOK, Forma, Attese, NEW w \in Workers, Vivo(w), ora[w] = orologio,
         pc[w] \notin {"prenotato", "daSpedire"},
         UNCHANGED <<richiesta, orologio>>, Chiusa(db'),
         \A v \in Workers \ {w} : pc'[v] = pc[v] /\ ora'[v] = ora[v] /\ copia'[v] = copia[v],
         pc'[w] \notin {"prenotato", "daSpedire", "salvaEsito"}
  PROVE  Attese'
<1>1. \A v \in Workers : ora[v] = orologio /\ Vivo(v) => v = w
  BY DEF Forma, Istanti
<1>2. \A v \in Workers : pc[v] = "prenotato" => ora[v] = orologio
  BY PrenotatoTiene DEF Forma, Istanti
<1>3. \A v \in Workers : pc[v] # "prenotato" /\ ~(pc[v] = "daSpedire" /\ ora[v] = orologio)
  BY <1>1, <1>2 DEF Vivo
<1>4. \A v \in Workers : pc'[v] # "prenotato" /\ ~(pc'[v] = "daSpedire" /\ ora'[v] = orologio')
  BY <1>3
<1>5. \A v \in Workers : pc'[v] = "salvaEsito" => Chiusa(copia'[v])
  BY DEF Attese
<1>6. \A r \in Richieste : Chiusa(richiesta'[r].fir)
  BY DEF Attese
<1> QED
  BY <1>4, <1>5, <1>6 DEF Attese, Chiusa

\* An attempt under way: only a start leads to a POST, and it has looked.
LEMMA AtteseInterna ==
  ASSUME TypeOK, Forma, Attese, NEW w \in Workers, Interna(w)
  PROVE  Attese'
<1> USE DEF ambiente, storia
<1>1. PICK q \in Passi, f \in Fir : Muove(w, q, f)
  BY ClasseInterna
<1>2. /\ UNCHANGED <<richiesta, orologio, ora>> /\ Vivo(w)
      /\ q \notin {"prenotato", "letto"}
      /\ pc'[w] = q /\ copia'[w] = f
      /\ \A v \in Workers \ {w} : pc'[v] = pc[v] /\ copia'[v] = copia[v]
  BY <1>1 DEF Muove, Vai, TypeOK, Tiene
<1>3. CASE Registra(w)
  <2>1. db \in Fir /\ copia[w].inAttesa \in 1 .. MaxPost
    BY <1>3, CopieVive DEF Registra
  <2>2. pc[w] = "daRegistrare" /\ pc'[w] = "inAttesaEsito"
    BY <1>3 DEF Registra, Vai, TypeOK
  <2>3. CASE db' = db
    <3>1. Recenti' = Recenti
      BY <1>2, <2>3 DEF Recenti
    <3>2. Chiusa(db') /\ \A r \in Richieste : Chiusa(richiesta'[r].fir)
      BY <1>2, <2>3 DEF Attese
    <3> QED
      BY <1>2, <2>2, <3>1, <3>2, AtteseDopo
  <2>4. CASE db' # db
    <3>1. /\ db.sync.status = "SYNCING" /\ db.avviato = ora[w]
          /\ db' = RegistraTransazioneInAttesa(db, copia[w].inAttesa)
      BY <1>3, <2>4 DEF Registra
    <3>2. Chiusa(db')
      BY <2>1, <3>1, EffettiRegistra DEF Chiusa
    <3>3. ora[w] = orologio
      BY <3>1 DEF Forma, Istanti
    <3> QED
      BY <1>2, <2>2, <3>2, <3>3, AtteseAltrove
  <2> QED
    BY <2>3, <2>4
<1>4. CASE ~Registra(w)
  <2>1. db' = db
    BY <1>4 DEF Interna, AvviaRifiutato, AvviaStalloIncerto, Avvia, AvviaFallito,
                Spedisci, SpedisciIncerto, SpedisciFallito, RegistraFallito,
                LeggiEsito, TransazioneNonTrovata, LeggiEsitoFallito
  <2>2. Recenti' = Recenti
    BY <1>2, <2>1 DEF Recenti
  <2>3. Chiusa(db') /\ \A r \in Richieste : Chiusa(richiesta'[r].fir)
    BY <1>2, <2>1 DEF Attese
  <2>4. q = "salvaEsito" => Chiusa(f)
    <3>1. CASE LeggiEsito(w)
      <4>1. copia[w] \in Fir /\ Conferme \subseteq BOOLEAN
        BY FirTrasmissioneAssumption DEF TypeOK
      <4>2. \A t, c : c \in Conferme => Chiusa(EsitoPositivo(copia[w], t, c))
        BY <4>1, EffettiPositivo DEF Chiusa
      <4>3. \A c \in {MissingNumero, ValidationError} :
              Chiusa(MarkSyncFailed(ChiudiTransazione(copia[w]), c))
        BY <4>1, TipiCodici, EffettiChiusura, EffettiFallimento DEF Chiusa
      <4> QED
        BY <1>2, <3>1, <4>2, <4>3 DEF LeggiEsito, Vai, TypeOK
    <3>2. CASE ~LeggiEsito(w)
      <4>1. pc'[w] # "salvaEsito"
        BY <1>4, <3>2 DEF Interna, AvviaRifiutato, AvviaStalloIncerto, Avvia,
           AvviaFallito, Spedisci, SpedisciIncerto, SpedisciFallito, RegistraFallito,
           TransazioneNonTrovata, LeggiEsitoFallito, Vai, TypeOK
      <4> QED
        BY <1>2, <4>1
    <3> QED
      BY <3>1, <3>2
  <2>5. ASSUME q = "daSpedire", NEW c \in Recenti PROVE c.inAttesa = 0
    <3>1. Avvia(w)
      <4>1. pc'[w] = "daSpedire"
        BY <1>2, <2>5
      <4> QED
        BY <1>4, <4>1 DEF Interna, AvviaRifiutato, AvviaStalloIncerto, AvviaFallito,
           Spedisci, SpedisciIncerto, SpedisciFallito, RegistraFallito, LeggiEsito,
           TransazioneNonTrovata, LeggiEsitoFallito, Vai, TypeOK
    <3>2. pc[w] = "prenotato" /\ db.inAttesa = 0
      BY <1>2, <2>5, <3>1 DEF Avvia, Vai, TypeOK
    <3>3. db.sync.status = "SYNCING"
      BY <3>1, <3>2, PrenotatoTiene DEF Avvia, PuoAvviare, CanRetry
    <3>4. db \in Recenti
      BY DEF Recenti, Forma, Istanti
    <3>5. c.sync.status \in {"SYNCING", "SYNCED"}
      <4>1. Tiene(w) /\ ora[w] = orologio
        BY <3>2, PrenotatoTiene DEF Tiene, Vivo, Forma, Istanti
      <4> QED
        BY <2>5, <4>1 DEF Recenti, Forma, Prenotazioni
    <3>6. Chiusa(c)
      BY <2>5 DEF Recenti, Attese
    <3> QED
      BY <2>5, <3>2, <3>3, <3>4, <3>5, <3>6 DEF Attese, Chiusa
  <2>6. ASSUME NEW v \in Workers
        PROVE  /\ pc'[v] = "salvaEsito" => Chiusa(copia'[v])
               /\ pc'[v] = "prenotato" => pc[v] = "prenotato"
               /\ pc'[v] = "daSpedire" /\ ora'[v] = orologio' => \A c \in Recenti : c.inAttesa = 0
    <3>1. CASE v = w
      BY <1>2, <2>4, <2>5, <3>1
    <3>2. CASE v # w
      BY <1>2, <3>2 DEF Attese
    <3> QED
      BY <3>1, <3>2
  <2>7. \A v \in Workers : pc[v] = "prenotato" =>
          \A c, d \in Recenti :
            c.sync.status = "SYNCING" /\ d.sync.status = "SYNCING" => c.inAttesa = d.inAttesa
    BY DEF Attese
  <2> QED
    BY <2>2, <2>3, <2>6, <2>7 DEF Attese, Chiusa
<1> QED
  BY <1>3, <1>4

\* The row keeps its columns, the requests their copies.
LEMMA RecentiFerme ==
  ASSUME TypeOK, Forma, Invariata, UNCHANGED <<richiesta, orologio>>,
         NEW c \in Recenti'
  PROVE  \E d \in Recenti : c.sync = d.sync /\ c.inAttesa = d.inAttesa
<1>1. db \in Recenti
  BY DEF Recenti, Forma, Istanti
<1>2. CASE c = db'
  BY <1>1, <1>2 DEF Invariata
<1>3. CASE c # db'
  BY <1>3 DEF Recenti
<1> QED
  BY <1>2, <1>3

\* An attempt that saves, or ends.
LEMMA AtteseSalva ==
  ASSUME TypeOK, Forma, Attese, NEW w \in Workers, UNCHANGED <<richiesta, orologio>>,
         \/ Invariata
         \/ pc[w] \in {"salvaEsito", "salvaErrore", "risalva"} /\ Scrive(copia[w]),
         pc'[w] \in {"fermo", "risalva"},
         \A v \in Workers \ {w} : pc'[v] = pc[v] /\ ora'[v] = ora[v] /\ copia'[v] = copia[v]
  PROVE  Attese'
<1>r. \A r \in Richieste : Chiusa(richiesta'[r].fir)
  BY DEF Attese
<1>1. CASE Invariata
  <2>1. Chiusa(db')
    BY <1>1 DEF Attese, Chiusa, Invariata
  <2>2. \A c \in Recenti' : \E d \in Recenti : c.sync = d.sync /\ c.inAttesa = d.inAttesa
    BY <1>1, RecentiFerme
  <2> QED
    BY <1>r, <2>1, <2>2, AtteseDopo
<1>2. CASE ~Invariata
  <2>1. /\ pc[w] \in {"salvaEsito", "salvaErrore", "risalva"}
        /\ copia[w].avviato = db.avviato
        /\ db'.sync = copia[w].sync /\ db'.inAttesa = copia[w].inAttesa
    BY <1>2 DEF Scrive, Invariata
  <2>2. Vivo(w) /\ ora[w] = orologio
    BY <2>1 DEF Vivo, Forma, Istanti
  <2>3. Chiusa(copia[w])
    BY <2>1 DEF Attese, Chiusa, Forma, Copie
  <2>4. Chiusa(db')
    BY <2>1, <2>3 DEF Chiusa
  <2> QED
    BY <2>1, <2>2, <2>4, AtteseAltrove
<1> QED
  BY <1>1, <1>2

\* A new reservation: no copy knows it yet.
LEMMA AttesePrenota ==
  ASSUME TypeOK, Forma, Attese, NEW w \in Workers, Prenota(w)
  PROVE  Attese'
<1>1. \A v \in Workers :
        /\ v # w => pc'[v] = pc[v] /\ ora'[v] = ora[v]
        /\ v = w => pc'[v] = "prenotato"
        /\ copia'[v] = copia[v]
  BY DEF Prenota, TypeOK
<1>2. /\ orologio' = orologio + 1 /\ richiesta' = richiesta
      /\ orologio \in Nat
      /\ db'.sync.status = "SYNCING"
  BY DEF Prenota, TypeOK, Fir, SyncStatus
<1>3. \A r \in Richieste : richiesta'[r].fir.avviato # orologio'
  BY <1>2 DEF Forma, Istanti, TypeOK, Fir
<1>4. Recenti' \subseteq {db'}
  BY <1>3 DEF Recenti
<1>5. \A v \in Workers : v # w => ora'[v] # orologio'
  BY <1>1, <1>2 DEF Forma, Istanti, TypeOK
<1>6. Chiusa(db') /\ \A r \in Richieste : Chiusa(richiesta'[r].fir)
  BY <1>2 DEF Attese, Chiusa
<1>7. \A v \in Workers : /\ pc'[v] = "salvaEsito" => Chiusa(copia'[v])
                        /\ ~(pc'[v] = "daSpedire" /\ ora'[v] = orologio')
  BY <1>1, <1>5 DEF Attese
<1>8. \A c, d \in Recenti' : c = d
  BY <1>4
<1> QED
  BY <1>6, <1>7, <1>8 DEF Attese, Chiusa

\* A step of no attempt while none counts on the last reservation.
LEMMA AtteseSenzaTitolare ==
  ASSUME TypeOK, Forma, Attese, UNCHANGED <<pc, copia, ora, orologio>>, Chiusa(db'),
         \A r \in Richieste : Chiusa(richiesta'[r].fir),
         \A w \in Workers : ~(Tiene(w) /\ ora[w] = orologio)
  PROVE  Attese'
<1>1. \A w \in Workers : pc[w] # "prenotato"
  BY PrenotatoTiene DEF Tiene, Vivo, Forma, Istanti
<1>2. \A w \in Workers : ~(pc[w] = "daSpedire" /\ ora[w] = orologio)
  BY DEF Tiene, Vivo
<1>3. \A w \in Workers : pc'[w] # "prenotato" /\ ~(pc'[w] = "daSpedire" /\ ora'[w] = orologio')
  BY <1>1, <1>2
<1>4. \A w \in Workers : pc'[w] = "salvaEsito" => Chiusa(copia'[w])
  BY DEF Attese
<1>5. \A r \in Richieste : Chiusa(richiesta'[r].fir)
  OBVIOUS
<1> QED
  BY <1>3, <1>4, <1>5 DEF Attese, Chiusa

\* What a request may write over the pending transaction: what it loaded, or
\* nothing left to read.
LEMMA AttesaRichiesta ==
  ASSUME TypeOK, Forma, NEW r \in Richieste,
         SalvaRiapertura(r) \/ SalvaRichiesta(r)
  PROVE  \E f \in Fir :
           /\ f.avviato = richiesta[r].fir.avviato
           /\ \/ f.sync = richiesta[r].fir.sync /\ f.inAttesa = richiesta[r].fir.inAttesa
              \/ f.sync = Pending /\ richiesta[r].op = "RIAPRI"
              \/ f.sync.status = "SYNCED" /\ f.inAttesa = 0
           /\ Scrive(f)
<1> DEFINE g == richiesta[r].fir
           op == richiesta[r].op
<1>1. g \in Fir /\ g.avviato <= db.avviato /\ db \in Fir
  BY DEF TypeOK, Forma, Istanti
<1>2. CASE SalvaRiapertura(r)
  <2> DEFINE f == [g EXCEPT !.sync = Pending]
  <2>1. f \in Fir /\ f.avviato = g.avviato /\ f.sync = Pending
    BY <1>1, TipiStato DEF Fir
  <2>2. db' = Salva(db, f) /\ op = "RIAPRI"
    BY <1>2 DEF SalvaRiapertura
  <2>3. Scrive(f)
    BY <1>1, <2>1, <2>2, EffettiSalva
  <2> QED
    BY <2>1, <2>2, <2>3
<1>3. CASE SalvaRichiesta(r)
  <2>1. PICK f \in Applica(op, g, esito) : db' = Salva(db, f)
    BY <1>3 DEF SalvaRichiesta
  <2>2. op \in OperazioniNote /\ op # "RIAPRI"
    BY <1>3 DEF SalvaRichiesta
  <2>3. f \in Fir
    BY <1>1, <2>1, <2>2, TipiRichiesta
  <2>4. /\ f.avviato = g.avviato
        /\ \/ f.sync = g.sync /\ f.inAttesa = g.inAttesa
           \/ f.sync.status = "SYNCED" /\ f.inAttesa = 0
    <3>1. CASE op = "RICONCILIA_SYNCING"
      <4>1. PICK c \in Conferme : f = EsitoPositivo(g, g.transazione, c)
        BY <2>1, <3>1 DEF Applica
      <4>2. c \in BOOLEAN
        BY FirTrasmissioneAssumption
      <4> QED
        BY <1>1, <4>1, <4>2, EffettiPositivo
    <3>2. CASE op # "RICONCILIA_SYNCING"
      <4> HIDE DEF g, op
      <4> QED
        BY <1>1, <2>1, <2>2, <3>2 DEF Applica, ApplicaStatoEnte, OperazioniNote, Fir
    <3> QED
      BY <3>1, <3>2
  <2>5. Scrive(f)
    BY <1>1, <2>1, <2>3, <2>4, EffettiSalva
  <2> QED
    BY <2>3, <2>4, <2>5
<1> QED
  BY <1>2, <1>3

\* The steps of the other requests.
LEMMA AtteseRichiesta ==
  ASSUME TypeOK, Forma, Attese, NEW r \in Richieste, Richiesta(r)
  PROVE  Attese'
<1> USE DEF locali
<1> DEFINE g == richiesta[r].fir
<1>u. UNCHANGED <<pc, copia, ora, orologio>>
  BY DEF Richiesta, Seleziona, Carica, SalvaRiapertura, SalvaRichiesta, Abbandona
<1>d. db.avviato = orologio /\ orologio \in Nat
  BY DEF Forma, Istanti, TypeOK
<1>1. ASSUME NEW op \in Operazioni, Carica(r, op)
      PROVE  Attese'
  <2>1. /\ db' = db
        /\ \A s \in Richieste : richiesta'[s].fir \in {richiesta[s].fir, db}
    BY <1>1 DEF Carica, TypeOK
  <2>2. Recenti' \subseteq Recenti
    BY <1>u, <2>1 DEF Recenti
  <2>3. Chiusa(db') /\ \A s \in Richieste : Chiusa(richiesta'[s].fir)
    BY <2>1 DEF Attese, Chiusa
  <2> QED
    BY <1>u, <2>2, <2>3, AtteseDopo
<1>2. CASE \/ Seleziona(r) \/ SalvaRiapertura(r) \/ SalvaRichiesta(r) \/ Abbandona(r)
  <2>1. \A s \in Richieste : richiesta'[s].fir \in {richiesta[s].fir, FirEmesso}
    BY <1>2 DEF Seleziona, SalvaRiapertura, SalvaRichiesta, Abbandona, Libera,
                Selezionata, TypeOK
  <2>2. FirEmesso.avviato = 0 /\ Chiusa(FirEmesso)
    BY DEF FirEmesso, Pending, Chiusa
  <2>3. \A s \in Richieste : Chiusa(richiesta'[s].fir)
    BY <2>1, <2>2 DEF Attese
  <2>4. PICK f \in Fir :
          /\ f.avviato = g.avviato
          /\ \/ f.sync = g.sync /\ f.inAttesa = g.inAttesa
             \/ f.sync = Pending /\ richiesta[r].op = "RIAPRI"
             \/ f.sync.status = "SYNCED" /\ f.inAttesa = 0
          /\ Scrive(f)
    <3>1. CASE SalvaRiapertura(r) \/ SalvaRichiesta(r)
      BY <3>1, AttesaRichiesta
    <3>2. CASE Seleziona(r) \/ Abbandona(r)
      <4>1. g \in Fir /\ Scrive(g)
        BY <3>2 DEF Seleziona, Abbandona, TypeOK, Scrive
      <4> QED
        BY <4>1
    <3> QED
      BY <1>2, <3>1, <3>2
  <2>5. Chiusa(db')
    BY <2>4 DEF Scrive, Attese, Chiusa, Pending
  <2>6. CASE \A w \in Workers : ~(Tiene(w) /\ ora[w] = orologio)
    BY <1>u, <2>3, <2>5, <2>6, AtteseSenzaTitolare
  <2>7. ASSUME NEW w \in Workers, Tiene(w), ora[w] = orologio
        PROVE  Attese'
    <3>1. orologio # 0
      BY <2>7 DEF Tiene, Forma, Istanti
    <3>2. db \in Recenti /\ (g.avviato = orologio => g \in Recenti)
      BY <1>d DEF Recenti
    <3>3. richiesta[r].op = "RIAPRI" => g.avviato # orologio
      <4>1. richiesta[r].op = "RIAPRI" => g.sync.status = "PERMANENTLY_FAILED"
        BY DEF Forma, Copie, Codifica, Coerente, PuoRiaprire, Riapribili, NON_RETRYABLE
      <4> QED
        BY <2>7, <4>1 DEF Forma, Prenotazioni
    <3>4. \/ db'.sync = db.sync /\ db'.inAttesa = db.inAttesa
          \/ /\ g.avviato = orologio
             /\ db'.sync = g.sync /\ db'.inAttesa = g.inAttesa
          \/ db'.sync.status = "SYNCED" /\ db'.inAttesa = 0
      BY <1>d, <2>4, <3>3 DEF Scrive
    <3>5. ASSUME NEW c \in Recenti'
          PROVE  \/ c.sync.status = "SYNCED" /\ c.inAttesa = 0
                 \/ \E d \in Recenti : c.sync = d.sync /\ c.inAttesa = d.inAttesa
      <4>1. CASE c = db'
        BY <3>2, <3>4, <4>1
      <4>2. CASE c # db'
        <5>1. PICK s \in Richieste : c = richiesta'[s].fir /\ c.avviato = orologio
          BY <1>u, <4>2 DEF Recenti
        <5>2. c = richiesta[s].fir
          BY <2>1, <2>2, <3>1, <5>1
        <5>3. c \in Recenti
          BY <5>1, <5>2 DEF Recenti
        <5> QED
          BY <5>3
      <4> QED
        BY <4>1, <4>2
    <3> QED
      BY <1>u, <2>3, <2>5, <3>5, AtteseDopo
  <2> QED
    BY <2>6, <2>7
<1> QED
  BY <1>1, <1>2 DEF Richiesta

\* The certificate, the ente and the passing of time.
LEMMA AtteseAmbiente ==
  ASSUME TypeOK, Forma, Attese,
         \/ Certificato \/ UNCHANGED vars
         \/ \E t \in Transazioni : EnteElabora(t)
         \/ \E w \in Workers : SuperaSoglia(w)
  PROVE  Attese'
<1> USE DEF locali, vars
<1>1. UNCHANGED <<pc, copia, ora, orologio, richiesta>>
  BY DEF Certificato, CaricaCertificato, RiapriFermiPerCertificato,
         RiaperturaFermiFallita, RimuoviCertificato, EnteElabora, SuperaSoglia
<1>2. \/ db' = db
      \/ /\ db.sync.status = "PERMANENTLY_FAILED"
         /\ db'.sync = Pending
  BY DEF Certificato, CaricaCertificato, RiapriFermiPerCertificato,
         RiaperturaFermiFallita, RimuoviCertificato, EnteElabora, SuperaSoglia,
         TypeOK, Fir
<1>3. Chiusa(db') /\ \A r \in Richieste : Chiusa(richiesta'[r].fir)
  BY <1>1, <1>2 DEF Attese, Chiusa, Pending
<1>4. CASE db' = db
  <2>1. Recenti' = Recenti
    BY <1>1, <1>4 DEF Recenti
  <2> QED
    BY <1>1, <1>3, <2>1, AtteseDopo
<1>5. CASE db.sync.status = "PERMANENTLY_FAILED"
  <2>1. \A w \in Workers : ~(Tiene(w) /\ ora[w] = orologio)
    BY <1>5 DEF Forma, Prenotazioni
  <2> QED
    BY <1>1, <1>3, <2>1, AtteseSenzaTitolare
<1> QED
  BY <1>2, <1>4, <1>5

\* Every step keeps the invariant of the pending transaction.
LEMMA AtteseConservate == TypeOK /\ Forma /\ Attese /\ [Next]_vars => Attese'
<1> SUFFICES ASSUME TypeOK, Forma, Attese, [Next]_vars PROVE Attese'
  OBVIOUS
<1>1. ASSUME NEW w \in Workers, Leggi(w) PROVE Attese'
  <2>1. UNCHANGED <<db, richiesta, orologio, ora>>
    BY <1>1 DEF Leggi
  <2>2. Recenti' = Recenti
    BY <2>1 DEF Recenti
  <2>3. Chiusa(db') /\ \A r \in Richieste : Chiusa(richiesta'[r].fir)
    BY <2>1 DEF Attese
  <2>4. \A v \in Workers : \/ pc'[v] = pc[v] /\ copia'[v] = copia[v]
                          \/ pc'[v] = "letto"
    BY <1>1 DEF Leggi, Vai, TypeOK
  <2> QED
    BY <2>1, <2>2, <2>3, <2>4, AtteseDopo
<1>2. ASSUME NEW w \in Workers,
             \/ PrenotazionePersa(w) \/ AvviaSuSincronizzato(w) \/ Muore(w)
             \/ SalvaEsito(w) \/ SalvaSincronizzatoFallito(w) \/ SalvaErrore(w)
      PROVE  Attese'
  <2>1. Chiude(w)
    BY <1>2, ClasseChiude
  <2>2. /\ UNCHANGED <<richiesta, orologio>>
        /\ \/ Invariata
           \/ pc[w] \in {"salvaEsito", "salvaErrore", "risalva"} /\ Scrive(copia[w])
    BY <2>1 DEF Chiude
  <2>3. /\ pc'[w] = "fermo"
        /\ \A v \in Workers \ {w} : pc'[v] = pc[v] /\ ora'[v] = ora[v] /\ copia'[v] = copia[v]
    BY <2>1 DEF Chiude, Termina, Vai, TypeOK
  <2> QED
    BY <2>2, <2>3, AtteseSalva
<1>3. ASSUME NEW w \in Workers, SalvaEsitoFallito(w) PROVE Attese'
  <2>1. Scrive(copia[w]) /\ pc[w] = "salvaEsito"
    BY <1>3, CopieVive, EffettiSalva DEF SalvaEsitoFallito
  <2>2. /\ UNCHANGED <<richiesta, orologio>> /\ pc'[w] = "risalva"
        /\ \A v \in Workers \ {w} : pc'[v] = pc[v] /\ ora'[v] = ora[v] /\ copia'[v] = copia[v]
    BY <1>3 DEF SalvaEsitoFallito, Vai, TypeOK
  <2> QED
    BY <2>1, <2>2, AtteseSalva
<1>4. ASSUME NEW w \in Workers, Tentativo(w) PROVE Attese'
  BY <1>1, <1>2, <1>3, <1>4, AtteseInterna, AttesePrenota DEF Tentativo, Interna
<1> QED
  BY <1>2, <1>4, AtteseRichiesta, AtteseAmbiente DEF Next

\* It holds at the start.
LEMMA AtteseIniziali == Init => Attese
<1> SUFFICES ASSUME Init PROVE Attese
  OBVIOUS
<1>1. Chiusa(FirEmesso)
  BY DEF FirEmesso, Pending, Chiusa
<1>2. Chiusa(FirEmessoSenzaCertificato)
  BY TipoIniziale, TipiCodici, EffettiFallimento DEF FirEmessoSenzaCertificato, Chiusa
<1> QED
  BY <1>1, <1>2 DEF Init, Attese, Libera

\* A POST leaves only while the row has no transaction to be read: an attempt
\* that finds one resumes it, and until it sends, nothing puts one there.
THEOREM TransazioneLettaPrimaDellaPost == Spec => NessunaPostConTransazioneAperta
<1> DEFINE Passo ==
      post' # post =>
        \E w \in Workers :
          /\ pc[w] = "daSpedire"
          /\ pc'[w] # "daSpedire"
          /\ scaduta[w] \/ db.inAttesa = 0
<1>1. Init => Attese
  BY AtteseIniziali
<1>2. IInv /\ Attese /\ [Next]_vars => Attese'
  BY AtteseConservate, Parti
<1>3. IInv /\ Attese /\ [Next]_vars => Passo
  <2> SUFFICES ASSUME IInv, Attese, [Next]_vars, post' # post
               PROVE  \E w \in Workers : /\ pc[w] = "daSpedire"
                                         /\ pc'[w] # "daSpedire"
                                         /\ scaduta[w] \/ db.inAttesa = 0
    OBVIOUS
  <2>1. TypeOK /\ Forma
    BY Parti
  <2>2. PICK w \in Workers : Spedisci(w) \/ SpedisciIncerto(w)
    <3>1. \A r \in Richieste : ~Richiesta(r)
      BY DEF Richiesta, Seleziona, Carica, SalvaRiapertura, SalvaRichiesta, Abbandona, storia
    <3>2. ~Certificato /\ ~(\E t \in Transazioni : EnteElabora(t)) /\ ~UNCHANGED vars
      BY DEF Certificato, CaricaCertificato, RiapriFermiPerCertificato,
             RiaperturaFermiFallita, RimuoviCertificato, EnteElabora, storia, vars
    <3>3. \A w \in Workers : ~SuperaSoglia(w) /\ ~Muore(w)
      BY DEF SuperaSoglia, Muore, storia
    <3>4. PICK w \in Workers : Tentativo(w)
      BY <3>1, <3>2, <3>3 DEF Next
    <3> QED
      BY <3>4 DEF Tentativo, Leggi, Prenota, PrenotazionePersa, AvviaRifiutato,
         AvviaSuSincronizzato, AvviaStalloIncerto, Avvia, AvviaFallito, SpedisciFallito,
         Registra, RegistraFallito, LeggiEsito, TransazioneNonTrovata, LeggiEsitoFallito,
         SalvaEsito, SalvaEsitoFallito, SalvaSincronizzatoFallito, SalvaErrore, storia
  <2>3. pc[w] = "daSpedire" /\ pc'[w] # "daSpedire"
    BY <2>1, <2>2 DEF Spedisci, SpedisciIncerto, Vai, TypeOK
  <2>4. ~scaduta[w] => ora[w] = orologio
    BY <2>1, <2>3 DEF Forma, Prenotazioni, Tiene, Vivo
  <2>5. db \in Recenti
    BY <2>1 DEF Recenti, Forma, Istanti
  <2>6. ~scaduta[w] => db.inAttesa = 0
    BY <2>3, <2>4, <2>5 DEF Attese
  <2> QED
    BY <2>3, <2>6
<1> QED
  BY <1>1, <1>2, <1>3, InvarianteInduttivo, PTL DEF Spec, NessunaPostConTransazioneAperta
=============================================================================
