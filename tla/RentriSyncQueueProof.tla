----------------------- MODULE RentriSyncQueueProof -------------------------
(***************************************************************************)
(* Proofs about RentriSyncQueue: its type invariant, the inductive         *)
(* invariant CodaInv and the two safety properties that follow from it,    *)
(* for any callers and bounds.                                             *)
(***************************************************************************)
EXTENDS RentriSyncQueue, TLAPS

-----------------------------------------------------------------------------
(* Types. *)

\* The transitions of RENTRISyncStatus return a status.
LEMMA TipiStato ==
  /\ Pending \in SyncStatus
  /\ Synced \in SyncStatus
  /\ \A s \in SyncStatus : MarkAsSyncing(s) \in SyncStatus
  /\ \A s \in SyncStatus :
       MarkAsFailed(s, ApiError) \in SyncStatus /\ MarkAsFailed(s, Incerta) \in SyncStatus
BY DEF Pending, Synced, MarkAsSyncing, MarkAsFailed, Failed, SyncStatus, Stati,
       Codici, NON_RETRYABLE, ApiError, NessunCodice, Forbidden,
       ValidationError, Incerta, MissingNumero, NonAcquisito, CertMancante

\* What MarkAsFailed leaves open, and what it does not.
LEMMA EffettiFallimento ==
  ASSUME NEW s \in SyncStatus, NEW c \in {ApiError, Incerta}
  PROVE  /\ MarkAsFailed(s, c).attempts = s.attempts + 1
         /\ MarkAsFailed(s, c).code = c
         /\ MarkAsFailed(s, c).status \in {"FAILED", "PERMANENTLY_FAILED"}
         /\ MarkAsFailed(s, c).status = "FAILED" =>
              /\ s.attempts + 1 < MaxTentativi
              /\ c \notin NON_RETRYABLE
BY MaxTentativiAssumption DEF MarkAsFailed, Failed, SyncStatus, NON_RETRYABLE

\* The state of a job, before and after.
LEMMA TipiJob ==
  ASSUME TypeOK
  PROVE  /\ NessunJob \in [stato : {"assente"}, conferma : BOOLEAN,
                           riprove : 0 .. MaxRiprove, stallato : BOOLEAN]
         /\ job.stato \in {"assente", "attesa", "attivo", "completato", "fallito"}
         /\ job.conferma \in BOOLEAN
         /\ job.riprove \in 0 .. MaxRiprove
         /\ sync.attempts \in Nat
         /\ sync.status \in Stati
BY RentriSyncQueueAssumption DEF TypeOK, NessunJob, SyncStatus

\* The calls after getJob: the new one, and those it overlaps.
LEMMA EffettoCerca ==
  ASSUME TypeOK, NEW c \in Chiamanti, NEW conferma \in BOOLEAN, Cerca(c, conferma)
  PROVE  /\ chiamata' \in [Chiamanti ->
                [passo : {"fuori", "trovato", "toglie", "aggiunge"},
                 conferma : BOOLEAN, vista : BOOLEAN, sola : BOOLEAN,
                 servita : BOOLEAN]]
         /\ chiamata'[c].passo = IF job.stato = "assente" THEN "aggiunge"
                                                         ELSE "trovato"
         /\ chiamata'[c].vista = job.conferma
         /\ chiamata'[c].sola =>
              \A d \in Chiamanti \ {c} : chiamata[d].passo = "fuori"
         /\ \A d \in Chiamanti \ {c} :
              /\ chiamata'[d].passo = chiamata[d].passo
              /\ chiamata'[d].vista = chiamata[d].vista
              /\ chiamata[d].passo # "fuori" => ~chiamata'[d].sola
<1> DEFINE Passi == [passo : {"fuori", "trovato", "toglie", "aggiunge"},
                     conferma : BOOLEAN, vista : BOOLEAN, sola : BOOLEAN,
                     servita : BOOLEAN]
           altri == {d \in Chiamanti \ {c} : chiamata[d].passo # "fuori"}
           sola == altri = {}
           nuova == [passo    |-> IF job.stato = "assente" THEN "aggiunge"
                                                          ELSE "trovato",
                     conferma |-> conferma,
                     vista    |-> job.conferma,
                     sola     |-> sola,
                     servita  |-> FALSE]
           altra(d) == IF d \in altri THEN [chiamata[d] EXCEPT !.sola = FALSE]
                                      ELSE chiamata[d]
<1>1. chiamata' = [d \in Chiamanti |-> IF d = c THEN nuova ELSE altra(d)]
  BY DEF Cerca
<1>2. sola \in BOOLEAN
  OBVIOUS
<1>3. sola => \A d \in Chiamanti \ {c} : chiamata[d].passo = "fuori"
  OBVIOUS
<1> HIDE DEF sola
<1>4. /\ nuova \in Passi
      /\ nuova.sola = sola
      /\ nuova.vista = job.conferma
      /\ nuova.passo = IF job.stato = "assente" THEN "aggiunge" ELSE "trovato"
  BY <1>2, TipiJob
<1> HIDE DEF nuova
<1>5. \A d \in Chiamanti : chiamata[d] \in Passi
  BY DEF TypeOK
<1>6. \A d \in Chiamanti \ {c} :
         /\ altra(d) \in Passi
         /\ altra(d).passo = chiamata[d].passo
         /\ altra(d).vista = chiamata[d].vista
         /\ chiamata[d].passo # "fuori" => altra(d).sola = FALSE
  BY <1>5
<1> HIDE DEF altra
<1>7. chiamata'[c] = nuova /\ \A d \in Chiamanti \ {c} : chiamata'[d] = altra(d)
  BY <1>1
<1>8. chiamata' \in [Chiamanti -> Passi]
  BY <1>1, <1>4, <1>6
<1> QED BY <1>3, <1>4, <1>6, <1>7, <1>8

\* The steps of the calls of addSyncJob.
LEMMA TipiChiamata ==
  ASSUME TypeOK, NEW c \in Chiamanti, Chiamata(c) \/ ChiamataFallita(c)
                                      \/ \E conferma \in BOOLEAN : Cerca(c, conferma)
  PROVE  TypeOK'
<1> DEFINE Passi == [passo : {"fuori", "trovato", "toglie", "aggiunge"},
                     conferma : BOOLEAN, vista : BOOLEAN, sola : BOOLEAN,
                     servita : BOOLEAN]
<1>1. chiamata \in [Chiamanti -> Passi] /\ Fuori \in Passi
  BY DEF TypeOK, Fuori
<1>2. /\ Torna(c) => chiamata' \in [Chiamanti -> Passi]
      /\ \A p \in {"fuori", "trovato", "toglie", "aggiunge"} :
           Vai(c, p) => chiamata' \in [Chiamanti -> Passi]
  BY <1>1 DEF Torna, Vai
<1>3. ASSUME NEW conferma \in BOOLEAN, Cerca(c, conferma) PROVE TypeOK'
  <2>1. chiamata' \in [Chiamanti -> Passi]
    BY <1>3, EffettoCerca
  <2>2. UNCHANGED <<sync, proposto, job, passo, batch, imprevisti, riaperture,
                    accolta, promessa>>
    BY <1>3 DEF Cerca, riga
  <2> QED BY <2>1, <2>2 DEF TypeOK
<1>4. CASE Restituisce(c)
  BY <1>1, <1>2, <1>4 DEF Restituisce, FlagMancante, TypeOK, riga
<1>5. CASE Decide(c)
  BY <1>2, <1>5 DEF Decide, TypeOK, riga
<1>6. CASE Toglie(c)
  BY <1>2, <1>6, TipiJob DEF Toglie, TypeOK, riga
<1>7. CASE ToglieFallito(c)
  BY <1>2, <1>7 DEF ToglieFallito, TypeOK, riga
<1>8. CASE Aggiunge(c)
  <2>1. chiamata[c].conferma \in BOOLEAN
    BY <1>1
  <2>2. /\ job'.stato = "attesa"
        /\ job' \in [stato : {"attesa"}, conferma : BOOLEAN,
                     riprove : 0 .. MaxRiprove, stallato : BOOLEAN]
    BY <1>8, <2>1, TipiJob DEF Aggiunge, NessunJob
  <2> QED BY <1>1, <1>2, <1>8, <2>2 DEF Aggiunge, TypeOK, riga
<1>9. CASE AggiungeIgnorato(c)
  BY <1>1, <1>2, <1>9 DEF AggiungeIgnorato, TypeOK, riga
<1>10. CASE ChiamataFallita(c)
  BY <1>2, <1>10 DEF ChiamataFallita, Imprevisto, TypeOK, riga
<1> QED BY <1>3, <1>4, <1>5, <1>6, <1>7, <1>8, <1>9, <1>10 DEF Chiamata

\* The steps of the job, of the batch and of the user.
LEMMA TipiEsecuzione ==
  ASSUME TypeOK,
         \/ Esecuzione \/ LetturaFallita \/ TentativoInterrotto \/ WorkerMuore
         \/ BatchInterrotto \/ Scade \/ CancelJob \/ PrenotaBatch \/ EsitoBatch
         \/ Riapri
  PROVE  TypeOK'
<1> DEFINE Passi == [passo : {"fuori", "trovato", "toglie", "aggiunge"},
                     conferma : BOOLEAN, vista : BOOLEAN, sola : BOOLEAN,
                     servita : BOOLEAN]
           Jobs == [stato : {"assente", "attesa", "attivo", "completato", "fallito"},
                    conferma : BOOLEAN, riprove : 0 .. MaxRiprove,
                    stallato : BOOLEAN]
<1>1. /\ job \in Jobs /\ chiamata \in [Chiamanti -> Passi] /\ sync \in SyncStatus
      /\ proposto \in BOOLEAN /\ batch \in BOOLEAN /\ promessa \in BOOLEAN
      /\ accolta \in {"no", "inCoda", "assorbita", "persa"}
      /\ imprevisti \in Nat /\ riaperture \in Nat
      /\ passo \in {"fuori", "prenota", "tenta", "completa", "rilancia", "regola"}
      /\ passo = "fuori" <=> job.stato # "attivo"
  BY DEF TypeOK
<1>2. Letta => chiamata' \in [Chiamanti -> Passi] /\ accolta' = "no"
  <2> DEFINE inCorso(c) == chiamata[c].passo # "fuori"
             letta(c) == [chiamata[c] EXCEPT !.servita = inCorso(c)]
  <2>1. \A c \in Chiamanti : inCorso(c) \in BOOLEAN
    OBVIOUS
  <2>2. Letta => chiamata' = [c \in Chiamanti |-> letta(c)] /\ accolta' = "no"
    BY DEF Letta
  <2> HIDE DEF inCorso
  <2>3. \A c \in Chiamanti : letta(c) \in Passi
    BY <1>1, <2>1
  <2> QED BY <2>2, <2>3
<1>3. \A s \in {"completato", "fallito"} :
        Termina(s) => job' \in Jobs /\ job'.stato = s /\ promessa' = FALSE
  BY <1>1 DEF Termina
<1>4. CASE AvviaJob
  <2>1. job' \in Jobs /\ job'.stato = "attivo"
    BY <1>1, <1>4 DEF AvviaJob
  <2> QED BY <1>1, <1>4, <2>1 DEF AvviaJob, TypeOK, riga
<1>5. CASE Prenota
  BY <1>1, <1>2, <1>5, TipiStato DEF Prenota, TypeOK
<1>6. CASE GiaInCorso \/ NonTrasmissibile \/ LetturaFallita
  BY <1>1, <1>2, <1>6
  DEF GiaInCorso, NonTrasmissibile, LetturaFallita, Imprevisto, TypeOK, riga
<1>7. CASE EsitoPositivo
  BY <1>1, <1>7, TipiStato DEF EsitoPositivo, TypeOK
<1>8. CASE EsitoNegativo
  BY <1>1, <1>8, TipiStato DEF EsitoNegativo, TypeOK
<1>9. CASE TentativoInterrotto
  BY <1>1, <1>9, TipiStato DEF TentativoInterrotto, Imprevisto, TypeOK
<1>10. CASE Completa
  BY <1>1, <1>3, <1>10 DEF Completa, TypeOK, riga
<1>11. CASE Riprova
  <2>1. /\ job' \in Jobs /\ job'.stato # "attivo"
        /\ promessa' \in BOOLEAN
        /\ accolta' \in {"no", "inCoda", "assorbita", "persa"}
    <3>1. CASE job.riprove + 1 < MaxRiprove
      <4>1. job.riprove + 1 \in 0 .. MaxRiprove
        BY <1>1, <3>1, RentriSyncQueueAssumption
      <4> QED BY <1>1, <1>11, <3>1, <4>1 DEF Riprova, TypeOK
    <3>2. CASE ~(job.riprove + 1 < MaxRiprove)
      BY <1>1, <1>3, <1>11, <3>2 DEF Riprova, Perde, TypeOK
    <3> QED BY <3>1, <3>2
  <2> QED BY <1>1, <1>11, <2>1 DEF Riprova, TypeOK, riga
<1>12. CASE RegolaViolata
  BY <1>1, <1>3, <1>12 DEF RegolaViolata, TypeOK, riga
<1>13. CASE WorkerMuore
  <2>1. /\ job' \in Jobs /\ job'.stato # "attivo"
        /\ promessa' \in BOOLEAN
        /\ accolta' \in {"no", "inCoda", "assorbita", "persa"}
    BY <1>1, <1>3, <1>13 DEF WorkerMuore, Perde, TypeOK
  <2> QED BY <1>1, <1>13, <2>1 DEF WorkerMuore, Imprevisto, TypeOK, riga
<1>14. CASE BatchInterrotto
  <2>1. batch' = FALSE /\ Imprevisto
        /\ UNCHANGED <<sync, proposto, job, passo, chiamata, riaperture, accolta,
                       promessa>>
    BY <1>14, Zenon DEF BatchInterrotto, riga
  <2>2. imprevisti' \in Nat
    BY <1>1, <2>1 DEF Imprevisto
  <2> QED BY <2>1, <2>2 DEF TypeOK
<1>15. CASE Scade
  BY <1>1, <1>15, TipiJob DEF Scade, TypeOK, riga
<1>16. CASE CancelJob
  BY <1>1, <1>16, TipiJob DEF CancelJob, TypeOK, riga
<1>17. CASE PrenotaBatch
  BY <1>1, <1>17, TipiStato DEF PrenotaBatch, TypeOK
<1>18. CASE EsitoBatch
  BY <1>1, <1>18, TipiStato DEF EsitoBatch, TypeOK
<1>19. CASE Riapri
  BY <1>1, <1>19, TipiStato DEF Riapri, TypeOK
<1> QED
  BY <1>4, <1>5, <1>6, <1>7, <1>8, <1>9, <1>10, <1>11, <1>12, <1>13, <1>14, <1>15,
     <1>16, <1>17, <1>18, <1>19
  DEF Esecuzione

\* A FIR to be transmitted, and nobody at work.
LEMMA TipiIniziali ==
  ASSUME Init
  PROVE  TypeOK
<1>1. /\ job \in [stato : {"assente", "attesa", "attivo", "completato", "fallito"},
                  conferma : BOOLEAN, riprove : 0 .. MaxRiprove,
                  stallato : BOOLEAN]
      /\ job.stato = "assente"
  BY RentriSyncQueueAssumption DEF Init, NessunJob
<1>2. chiamata \in [Chiamanti ->
                    [passo : {"fuori", "trovato", "toglie", "aggiunge"},
                     conferma : BOOLEAN, vista : BOOLEAN, sola : BOOLEAN,
                     servita : BOOLEAN]]
  BY DEF Init, Fuori
<1> QED BY <1>1, <1>2, TipiStato DEF Init, TypeOK

\* Every step.
LEMMA TipiPasso ==
  ASSUME TypeOK, Next
  PROVE  TypeOK'
BY TipiChiamata, TipiEsecuzione DEF Next, Guasto

\* Type correctness: the attempts of a job never pass MaxRiprove, and a job is
\* active exactly while processSingleSync runs.
THEOREM CodaTipi == Spec => []TypeOK
<1>1. TypeOK /\ [Next]_vars => TypeOK'
  BY TipiPasso DEF TypeOK, vars, riga
<1> QED BY <1>1, TipiIniziali, PTL DEF Spec

-----------------------------------------------------------------------------
(* The retries. *)

\* A call of addSyncJob touches neither the row nor the attempt under way; it
\* replaces the job only by a new one.
LEMMA ChiamataSulJob ==
  ASSUME TypeOK, NEW c \in Chiamanti, Chiamata(c) \/ ChiamataFallita(c)
                                      \/ \E conferma \in BOOLEAN : Cerca(c, conferma)
  PROVE  /\ UNCHANGED <<sync, proposto, passo, batch, riaperture>>
         /\ imprevisti' = imprevisti \/ imprevisti' # 0
         /\ \/ job' = job
            \/ job'.stato = "assente" /\ job.stato # "attivo"
            \/ /\ job.stato = "assente"
               /\ job'.stato = "attesa" /\ job'.riprove = 0
<1>1. CASE Toglie(c)
  BY <1>1 DEF Toglie, NessunJob, riga
<1>2. CASE Aggiunge(c)
  BY <1>2 DEF Aggiunge, NessunJob, riga
<1>3. CASE ChiamataFallita(c)
  <2>1. UNCHANGED <<sync, proposto, passo, batch, riaperture, job>> /\ Imprevisto
    BY <1>3, Zenon DEF ChiamataFallita, riga
  <2>2. imprevisti' # 0
    BY <2>1 DEF Imprevisto, TypeOK
  <2> QED BY <2>1, <2>2
<1>4. CASE \E conferma \in BOOLEAN : Cerca(c, conferma)
  BY <1>4, Zenon DEF Cerca, riga
<1>5. CASE Restituisce(c) \/ Decide(c) \/ ToglieFallito(c) \/ AggiungeIgnorato(c)
  BY <1>5, Zenon DEF Restituisce, Decide, ToglieFallito, AggiungeIgnorato, riga
<1> QED BY <1>1, <1>2, <1>3, <1>4, <1>5 DEF Chiamata

\* A row that may be reserved has attempts left, and keeps them.
LEMMA EffettiPrenotazione ==
  ASSUME TypeOK, RigaTentabile, CanRetry(sync) \/ sync.status = "SYNCING"
  PROVE  /\ Vivo
         /\ MarkAsSyncing(sync).status = "SYNCING"
         /\ MarkAsSyncing(sync).attempts = sync.attempts
         /\ MarkAsSyncing(sync).code \notin NON_RETRYABLE
BY DEF CanRetry, RigaTentabile, Vivo, MarkAsSyncing, NessunCodice, NON_RETRYABLE,
       Forbidden, ValidationError, Incerta, MissingNumero, NonAcquisito,
       CertMancante

\* Every step keeps a row that may be tried within its attempts.
LEMMA PassoRigaTentabile ==
  ASSUME TypeOK, RigaTentabile, Next
  PROVE  RigaTentabile'
<1>1. ASSUME NEW c \in Chiamanti, Chiamata(c) \/ ChiamataFallita(c)
                                  \/ \E conferma \in BOOLEAN : Cerca(c, conferma)
      PROVE  RigaTentabile'
  BY <1>1, ChiamataSulJob DEF RigaTentabile, Vivo
<1>2. CASE AvviaJob \/ GiaInCorso \/ NonTrasmissibile \/ LetturaFallita \/ Completa
           \/ Riprova \/ RegolaViolata \/ WorkerMuore \/ Scade \/ CancelJob
  <2>1. UNCHANGED <<sync, batch>> /\ (passo' = passo \/ passo' # "tenta")
    BY <1>2, Zenon
    DEF AvviaJob, GiaInCorso, NonTrasmissibile, LetturaFallita, Completa, Riprova,
        RegolaViolata, WorkerMuore, Scade, CancelJob, riga
  <2> QED BY <2>1 DEF RigaTentabile, Vivo
<1>3. CASE Prenota
  <2>1. CanRetry(sync) \/ sync.status = "SYNCING"
    BY <1>3 DEF Prenota, Riservabile
  <2>2. ~batch
    BY <1>3 DEF Prenota, Riservabile, RigaTentabile, CanRetry
  <2> QED BY <1>3, <2>1, <2>2, EffettiPrenotazione DEF Prenota, RigaTentabile, Vivo
<1>4. CASE EsitoPositivo
  BY <1>4 DEF EsitoPositivo, RigaTentabile, Vivo, Synced
<1>5. CASE EsitoNegativo
  <2>1. PICK codice \in {ApiError, Incerta} : sync' = MarkAsFailed(sync, codice)
    BY <1>5 DEF EsitoNegativo
  <2>2. ~batch /\ passo' # "tenta" /\ UNCHANGED batch
    BY <1>5 DEF EsitoNegativo, RigaTentabile
  <2> QED BY <2>1, <2>2, EffettiFallimento DEF RigaTentabile, Vivo, TypeOK, SyncStatus
<1>6. CASE TentativoInterrotto
  <2>1. ~batch /\ passo' # "tenta" /\ batch' = batch
    BY <1>6 DEF TentativoInterrotto, RigaTentabile
  <2>2. sync' = sync \/ sync' = MarkAsFailed(sync, ApiError)
    BY <1>6 DEF TentativoInterrotto
  <2> QED BY <2>1, <2>2, EffettiFallimento DEF RigaTentabile, Vivo, TypeOK, SyncStatus
<1>7. CASE BatchInterrotto
  BY <1>7, Zenon DEF BatchInterrotto, RigaTentabile, Vivo, riga
<1>8. CASE PrenotaBatch
  <2>1. CanRetry(sync) \/ sync.status = "SYNCING"
    BY <1>8 DEF PrenotaBatch
  <2>2. passo # "tenta" /\ passo' = passo
    BY <1>8 DEF PrenotaBatch, RigaTentabile, CanRetry
  <2> QED BY <1>8, <2>1, <2>2, EffettiPrenotazione DEF PrenotaBatch, RigaTentabile, Vivo
<1>9. CASE EsitoBatch
  <2>1. passo # "tenta" /\ passo' = passo /\ batch' = FALSE
    BY <1>9 DEF EsitoBatch, RigaTentabile
  <2>2. \/ sync' = Synced
        \/ sync' = MarkAsFailed(sync, ApiError) \/ sync' = MarkAsFailed(sync, Incerta)
    BY <1>9 DEF EsitoBatch
  <2> QED BY <2>1, <2>2, EffettiFallimento
          DEF RigaTentabile, Vivo, TypeOK, SyncStatus, Synced
<1>10. CASE Riapri
  <2>1. sync.status # "SYNCING"
    BY <1>10 DEF Riapri, PuoRiaprire, RigaTentabile, Vivo, NON_RETRYABLE, Riapribili
  <2>2. /\ Pending.attempts < MaxTentativi
        /\ Pending.code \notin NON_RETRYABLE
    BY MaxTentativiAssumption
    DEF Pending, NessunCodice, NON_RETRYABLE, Forbidden, ValidationError, Incerta,
        MissingNumero, NonAcquisito, CertMancante
  <2> QED BY <1>10, <2>1, <2>2 DEF Riapri, RigaTentabile
<1> QED
  BY <1>1, <1>2, <1>3, <1>4, <1>5, <1>6, <1>7, <1>8, <1>9, <1>10
  DEF Next, Esecuzione, Guasto

\* The attempts of the FIR never fall behind those of the job.
LEMMA PassoRiproveContate ==
  ASSUME TypeOK, RigaTentabile, RiproveContate, Next
  PROVE  RiproveContate'
<1> DEFINE Conto(s, j, p) ==
      /\ j.stato # "fallito"
      /\ p # "regola"
      /\ j.stato \in {"attesa", "attivo"} =>
           s.attempts >= j.riprove + (IF p = "rilancia" THEN 1 ELSE 0)
<1> SUFFICES ASSUME imprevisti' = 0, riaperture' = 0, Vivo'
             PROVE  Conto(sync', job', passo')
  BY Zenon DEF RiproveContate
<1>1. ASSUME Vivo, imprevisti = 0, riaperture = 0 PROVE Conto(sync, job, passo)
  BY <1>1 DEF RiproveContate
<1>2. /\ imprevisti \in Nat /\ riaperture \in Nat
      /\ job.riprove \in Nat /\ sync.attempts \in Nat
      /\ passo = "fuori" <=> job.stato # "attivo"
  BY TipiJob DEF TypeOK
<1>3. ~Imprevisto
  BY <1>2 DEF Imprevisto
<1>4. ASSUME NEW c \in Chiamanti, Chiamata(c) \/ ChiamataFallita(c)
                                  \/ \E conferma \in BOOLEAN : Cerca(c, conferma)
      PROVE  Conto(sync', job', passo')
  <2>1. Conto(sync, job, passo)
    BY <1>1, <1>4, ChiamataSulJob DEF Vivo
  <2> QED BY <1>2, <1>4, <2>1, ChiamataSulJob
<1>5. CASE AvviaJob
  BY <1>1, <1>2, <1>5 DEF AvviaJob, Vivo, riga
<1>6. CASE Prenota
  <2>1. CanRetry(sync) \/ sync.status = "SYNCING"
    BY <1>6 DEF Prenota, Riservabile
  <2> QED BY <1>1, <1>2, <1>6, <2>1, EffettiPrenotazione DEF Prenota
<1>7. CASE GiaInCorso
  BY <1>1, <1>2, <1>7 DEF GiaInCorso, Vivo, riga
<1>8. CASE NonTrasmissibile
  <2>1. Vivo /\ sync.status # "SYNCING" => CanRetry(sync)
    BY DEF RigaTentabile, Vivo, CanRetry
  <2> QED BY <1>8, <2>1 DEF NonTrasmissibile, Vivo, riga
<1>9. CASE EsitoPositivo
  BY <1>9 DEF EsitoPositivo, Synced, Vivo
<1>10. CASE EsitoNegativo
  <2>1. PICK codice \in {ApiError, Incerta} : sync' = MarkAsFailed(sync, codice)
    BY <1>10 DEF EsitoNegativo
  <2>2. Vivo
    BY <1>10 DEF EsitoNegativo, RigaTentabile, Vivo
  <2>3. Conto(sync, job, passo)
    BY <1>1, <1>10, <2>2 DEF EsitoNegativo
  <2>4. sync'.attempts = sync.attempts + 1
    BY <2>1, EffettiFallimento DEF TypeOK
  <2> QED BY <1>2, <1>10, <2>3, <2>4 DEF EsitoNegativo
<1>11. CASE Completa
  BY <1>11, <1>1, <1>2 DEF Completa, Termina, TypeOK
<1>12. CASE Riprova
  <2>1. Vivo /\ imprevisti = 0 /\ riaperture = 0
    BY <1>12 DEF Riprova, Vivo, riga
  <2>2. passo = "rilancia" /\ sync.attempts >= job.riprove + 1
    BY <1>1, <1>2, <1>12, <2>1 DEF Riprova
  <2>3. sync.attempts < MaxTentativi /\ MaxTentativi \in Nat /\ MaxRiprove \in Nat
    BY <2>1, MaxTentativiAssumption, RentriSyncQueueAssumption DEF RigaTentabile
  <2>4. job.riprove + 1 < MaxRiprove
    BY <1>2, <2>2, <2>3, RiproveAssumption
  <2>5. job'.stato = "attesa" /\ job'.riprove = job.riprove + 1
    BY <1>12, <2>4 DEF Riprova, TypeOK
  <2> QED BY <1>2, <1>12, <2>2, <2>5 DEF Riprova, riga
<1>13. CASE RegolaViolata
  BY <1>1, <1>13 DEF RegolaViolata, Vivo, riga
<1>14. CASE LetturaFallita \/ TentativoInterrotto \/ WorkerMuore \/ BatchInterrotto
  BY <1>3, <1>14, Zenon
  DEF LetturaFallita, TentativoInterrotto, WorkerMuore, BatchInterrotto
<1>15. CASE Scade \/ CancelJob
  BY <1>1, <1>2, <1>15 DEF Scade, CancelJob, NessunJob, Vivo, riga
<1>16. CASE PrenotaBatch
  <2>1. CanRetry(sync) \/ sync.status = "SYNCING"
    BY <1>16 DEF PrenotaBatch
  <2> QED BY <1>1, <1>2, <1>16, <2>1, EffettiPrenotazione DEF PrenotaBatch
<1>17. CASE EsitoBatch
  <2>1. Vivo
    BY <1>17 DEF EsitoBatch, RigaTentabile, Vivo
  <2>2. Conto(sync, job, passo)
    BY <1>1, <1>17, <2>1 DEF EsitoBatch
  <2>3. sync'.attempts = sync.attempts + 1
    <3>1. sync' # Synced
      BY DEF Synced, Vivo
    <3> QED BY <1>17, <3>1, EffettiFallimento DEF EsitoBatch, TypeOK
  <2> QED BY <1>2, <1>17, <2>2, <2>3 DEF EsitoBatch
<1>18. CASE Riapri
  BY <1>2, <1>18 DEF Riapri
<1> QED
  BY <1>4, <1>5, <1>6, <1>7, <1>8, <1>9, <1>10, <1>11, <1>12, <1>13, <1>14, <1>15,
     <1>16, <1>17, <1>18
  DEF Next, Esecuzione, Guasto

-----------------------------------------------------------------------------
(* The request for confirmation. *)

\* The step of a call changes that call only; once outside it overlaps nobody.
LEMMA ChiamataSola ==
  ASSUME TypeOK, NEW c \in Chiamanti, Chiamata(c) \/ ChiamataFallita(c)
  PROVE  /\ chiamata[c].passo # "fuori"
         /\ \A d \in Chiamanti \ {c} : chiamata'[d] = chiamata[d]
         /\ chiamata'[c].passo # "fuori" =>
              /\ chiamata'[c].sola = chiamata[c].sola
              /\ chiamata'[c].passo \in {"toglie", "aggiunge"}
<1> DEFINE Uscita == Torna(c)
           Passaggio == Vai(c, "toglie") \/ Vai(c, "aggiunge")
<1>1. chiamata[c].passo # "fuori" /\ (Uscita \/ Passaggio)
  BY Zenon
  DEF Chiamata, Restituisce, Decide, Toglie, ToglieFallito, Aggiunge,
      AggiungeIgnorato, ChiamataFallita
<1>2. CASE Uscita
  BY <1>1, <1>2 DEF Torna, Fuori, TypeOK
<1>3. CASE Passaggio
  BY <1>1, <1>3 DEF Vai, TypeOK
<1> QED BY <1>1, <1>2, <1>3

\* While a call that no other overlaps is under way, the job that is there
\* remains the one it found.
LEMMA ChiamataSolaSa ==
  ASSUME TypeOK, SolaSa, NEW c \in Chiamanti, Chiamata(c) \/ ChiamataFallita(c)
  PROVE  SolaSa'
<1> SUFFICES ASSUME NEW d \in Chiamanti, chiamata'[d].sola,
                    chiamata'[d].passo # "fuori"
             PROVE  /\ \A e \in Chiamanti \ {d} : chiamata'[e].passo = "fuori"
                    /\ chiamata'[d].passo = "aggiunge" => job'.stato = "assente"
                    /\ chiamata'[d].passo = "trovato"
                         /\ job'.stato \in {"attesa", "attivo"} =>
                         chiamata'[d].vista = job'.conferma
  BY DEF SolaSa
<1>1. d = c
  BY ChiamataSola DEF SolaSa
<1>2. /\ chiamata[c].sola
      /\ \A e \in Chiamanti \ {c} : chiamata[e].passo = "fuori"
      /\ chiamata[c].passo = "aggiunge" => job.stato = "assente"
  BY <1>1, ChiamataSola DEF SolaSa
<1>3. \A e \in Chiamanti \ {c} : chiamata'[e].passo = "fuori"
  BY <1>2, ChiamataSola
<1>4. chiamata'[c].passo = "aggiunge" => job'.stato = "assente"
  <2>1. CASE Toglie(c)
    BY <2>1 DEF Toglie, NessunJob
  <2>2. CASE Decide(c)
    BY <2>2 DEF Decide, Vai, TypeOK
  <2>3. CASE Torna(c)
    BY <2>3, <1>1 DEF Torna, Fuori, TypeOK
  <2> QED
    BY <2>1, <2>2, <2>3, Zenon
    DEF Chiamata, Restituisce, ToglieFallito, Aggiunge, AggiungeIgnorato,
        ChiamataFallita
<1> QED BY <1>1, <1>3, <1>4, ChiamataSola

\* A call keeps the promise made to another, and makes one only for a job that
\* carries the flag.
LEMMA ChiamataPromessa ==
  ASSUME TypeOK, SolaSa, PromessaTenuta,
         NEW c \in Chiamanti, Chiamata(c) \/ ChiamataFallita(c)
  PROVE  PromessaTenuta'
<1> DEFINE Garantita(j, ch) ==
      /\ j.stato \in {"attesa", "attivo"} /\ j.conferma
      /\ \A d \in Chiamanti : \/ ch[d].passo = "fuori"
                              \/ ch[d].passo = "trovato" /\ ch[d].vista
<1> SUFFICES ASSUME promessa' PROVE Garantita(job', chiamata')
  BY Zenon DEF PromessaTenuta
<1>1. promessa => Garantita(job, chiamata)
  BY Zenon DEF PromessaTenuta
<1>2. /\ promessa \in BOOLEAN /\ job.conferma \in BOOLEAN
      /\ \A d \in Chiamanti : /\ chiamata[d].vista \in BOOLEAN
                              /\ chiamata[d].conferma \in BOOLEAN
                              /\ chiamata[d].sola \in BOOLEAN
  BY DEF TypeOK
<1>3. ASSUME Torna(c) PROVE chiamata'[c].passo = "fuori"
  BY <1>3 DEF Torna, Fuori, TypeOK
<1>4. ASSUME chiamata[c].sola
      PROVE  \A d \in Chiamanti \ {c} : chiamata'[d].passo = "fuori"
  BY <1>4, ChiamataSola DEF SolaSa
<1>5. CASE Restituisce(c)
  <2>1. Torna(c) /\ job' = job /\ job.stato \in {"attesa", "attivo"}
        /\ chiamata[c].passo = "trovato"
    BY <1>5, Zenon DEF Restituisce
  <2>2. CASE promessa
    BY <1>1, <1>3, <2>1, <2>2, ChiamataSola
  <2>3. CASE ~promessa
    <3>1. chiamata[c].sola /\ chiamata[c].vista
      BY <1>2, <1>5, <2>3 DEF Restituisce, FlagMancante
    <3>2. job.conferma
      BY <2>1, <3>1 DEF SolaSa
    <3> QED BY <1>3, <1>4, <2>1, <3>1, <3>2
  <2> QED BY <2>2, <2>3
<1>6. CASE Decide(c) \/ Toglie(c) \/ ToglieFallito(c) \/ ChiamataFallita(c)
  <2>1. promessa
    BY <1>6, Zenon DEF Decide, Toglie, ToglieFallito, ChiamataFallita
  <2>2. ~Decide(c) /\ ~Toglie(c) /\ ~ToglieFallito(c)
    BY <1>1, <2>1 DEF Decide, Toglie, ToglieFallito, FlagMancante
  <2>3. Torna(c) /\ job' = job
    BY <1>6, <2>2, Zenon DEF ChiamataFallita
  <2> QED BY <1>1, <1>3, <2>1, <2>3, ChiamataSola
<1>7. CASE Aggiunge(c)
  <2>1. ~promessa
    BY <1>1, <1>7 DEF Aggiunge
  <2>2. chiamata[c].sola /\ chiamata[c].conferma
    BY <1>2, <1>7, <2>1 DEF Aggiunge
  <2>3. job'.stato = "attesa" /\ job'.conferma
    BY <1>7, <2>2 DEF Aggiunge, NessunJob
  <2>4. Torna(c)
    BY <1>7 DEF Aggiunge
  <2> QED BY <1>3, <1>4, <2>2, <2>3, <2>4
<1>8. CASE AggiungeIgnorato(c)
  <2>1. ~promessa
    BY <1>1, <1>8 DEF AggiungeIgnorato
  <2>2. chiamata[c].sola
    BY <1>2, <1>8, <2>1 DEF AggiungeIgnorato
  <2> QED BY <1>8, <2>2 DEF AggiungeIgnorato, SolaSa
<1> QED BY <1>5, <1>6, <1>7, <1>8 DEF Chiamata

\* A new call finds the job that is there, and overlaps those under way.
LEMMA CercaConferma ==
  ASSUME TypeOK, SolaSa, PromessaTenuta,
         NEW c \in Chiamanti, NEW conferma \in BOOLEAN, Cerca(c, conferma)
  PROVE  SolaSa' /\ PromessaTenuta'
<1>1. UNCHANGED <<job, promessa>> /\ chiamata[c].passo = "fuori"
  BY Zenon DEF Cerca
<1>2. SolaSa'
  <2> SUFFICES ASSUME NEW d \in Chiamanti, chiamata'[d].sola,
                      chiamata'[d].passo # "fuori"
               PROVE  /\ \A e \in Chiamanti \ {d} : chiamata'[e].passo = "fuori"
                      /\ chiamata'[d].passo = "aggiunge" => job'.stato = "assente"
                      /\ chiamata'[d].passo = "trovato"
                           /\ job'.stato \in {"attesa", "attivo"} =>
                           chiamata'[d].vista = job'.conferma
    BY DEF SolaSa
  <2>1. d = c
    BY EffettoCerca
  <2>2. \A e \in Chiamanti \ {c} : chiamata'[e].passo = "fuori"
    BY <2>1, EffettoCerca
  <2> QED BY <1>1, <2>1, <2>2, EffettoCerca
<1>3. PromessaTenuta'
  BY <1>1, EffettoCerca DEF PromessaTenuta
<1> QED BY <1>2, <1>3

\* What a job, a batch or a user does: it gives the FIR no new job, and a job
\* that ends takes its promise with it.
LEMMA EsecuzioneConferma ==
  ASSUME TypeOK, SolaSa, PromessaTenuta,
         \/ Esecuzione \/ LetturaFallita \/ TentativoInterrotto \/ WorkerMuore
         \/ BatchInterrotto \/ Scade \/ CancelJob \/ PrenotaBatch \/ EsitoBatch
         \/ Riapri
  PROVE  SolaSa' /\ PromessaTenuta'
<1> DEFINE Vive == job'.stato \in {"attesa", "attivo"}
<1>1. /\ Vive => job.stato \in {"attesa", "attivo"} /\ job'.conferma = job.conferma
      /\ promessa' => promessa /\ (job.stato \in {"attesa", "attivo"} => Vive)
      /\ job.stato = "assente" => job'.stato = "assente"
  <2>0. \A s \in {"completato", "fallito"} :
          Termina(s) => job'.stato = s /\ promessa' = FALSE
    BY DEF Termina, TypeOK
  <2>1. CASE AvviaJob
    BY <2>1 DEF AvviaJob, TypeOK
  <2>2. CASE Prenota \/ GiaInCorso \/ NonTrasmissibile \/ LetturaFallita
             \/ EsitoPositivo \/ EsitoNegativo \/ TentativoInterrotto
             \/ BatchInterrotto \/ PrenotaBatch \/ EsitoBatch \/ Riapri
    <3>1. UNCHANGED <<job, promessa>>
      BY <2>2, Zenon
      DEF Prenota, GiaInCorso, NonTrasmissibile, LetturaFallita, EsitoPositivo,
          EsitoNegativo, TentativoInterrotto, BatchInterrotto, PrenotaBatch,
          EsitoBatch, Riapri
    <3> QED BY <3>1
  <2>3. CASE Completa
    BY <2>0, <2>3, TipiJob DEF Completa, TypeOK
  <2>4. CASE Riprova
    <3>1. job.stato = "attivo"
      BY <2>4 DEF Riprova, TypeOK
    <3>2. CASE job.riprove + 1 < MaxRiprove
      BY <2>4, <3>1, <3>2 DEF Riprova, TypeOK
    <3>3. CASE ~(job.riprove + 1 < MaxRiprove)
      BY <2>0, <2>4, <3>1, <3>3 DEF Riprova
    <3> QED BY <3>2, <3>3
  <2>5. CASE RegolaViolata
    BY <2>0, <2>5 DEF RegolaViolata, TypeOK
  <2>6. CASE WorkerMuore
    <3>1. job.stato = "attivo"
      BY <2>6 DEF WorkerMuore
    <3>2. CASE job.stallato
      BY <2>0, <2>6, <3>1, <3>2 DEF WorkerMuore
    <3>3. CASE ~job.stallato
      BY <2>6, <3>1, <3>3 DEF WorkerMuore, TypeOK
    <3> QED BY <3>2, <3>3
  <2>7. CASE Scade
    BY <2>7 DEF Scade, NessunJob
  <2>8. CASE CancelJob
    BY <2>8 DEF CancelJob, NessunJob
  <2> QED BY <2>1, <2>2, <2>3, <2>4, <2>5, <2>6, <2>7, <2>8 DEF Esecuzione
<1>2. \A d \in Chiamanti : /\ chiamata'[d].passo = chiamata[d].passo
                           /\ chiamata'[d].vista = chiamata[d].vista
                           /\ chiamata'[d].sola = chiamata[d].sola
  <2>1. Letta \/ UNCHANGED chiamata
    BY Zenon
    DEF Esecuzione, AvviaJob, Prenota, GiaInCorso, NonTrasmissibile, EsitoPositivo,
        EsitoNegativo, Completa, Riprova, RegolaViolata, LetturaFallita,
        TentativoInterrotto, WorkerMuore, BatchInterrotto, Scade, CancelJob,
        PrenotaBatch, EsitoBatch, Riapri
  <2>2. CASE Letta
    <3> DEFINE inCorso(c) == chiamata[c].passo # "fuori"
    <3>1. chiamata' = [c \in Chiamanti |-> [chiamata[c] EXCEPT !.servita = inCorso(c)]]
      BY <2>2 DEF Letta
    <3> HIDE DEF inCorso
    <3> QED BY <3>1 DEF TypeOK
  <2> QED BY <2>1, <2>2
<1>3. SolaSa'
  BY <1>1, <1>2 DEF SolaSa
<1>4. PromessaTenuta'
  BY <1>1, <1>2 DEF PromessaTenuta
<1> QED BY <1>3, <1>4

-----------------------------------------------------------------------------
(* The theorems. *)

\* The inductive invariant: the row has attempts left, the FIR counts the
\* attempts of the job, a lone call knows the job, a promise is safe.
THEOREM CodaInvariante == Spec => []CodaInv
<1>1. Init => CodaInv
  <2> SUFFICES ASSUME Init PROVE CodaInv
    OBVIOUS
  <2>1. TypeOK
    BY TipiIniziali
  <2>2. RigaTentabile
    BY MaxTentativiAssumption
    DEF Init, RigaTentabile, Pending, Vivo, NessunCodice, NON_RETRYABLE, Forbidden,
        ValidationError, Incerta, MissingNumero, NonAcquisito, CertMancante
  <2>3. RiproveContate
    BY DEF Init, RiproveContate, NessunJob
  <2>4. SolaSa /\ PromessaTenuta
    BY DEF Init, SolaSa, PromessaTenuta, Fuori
  <2> QED BY <2>1, <2>2, <2>3, <2>4 DEF CodaInv
<1>2. CodaInv /\ [Next]_vars => CodaInv'
  <2> SUFFICES ASSUME CodaInv, [Next]_vars PROVE CodaInv'
    OBVIOUS
  <2>1. CASE UNCHANGED vars
    BY <2>1
    DEF vars, riga, CodaInv, TypeOK, RigaTentabile, RiproveContate, SolaSa,
        PromessaTenuta, Vivo
  <2>2. CASE Next
    <3>1. TypeOK'
      BY <2>2, TipiPasso DEF CodaInv
    <3>2. RigaTentabile' /\ RiproveContate'
      BY <2>2, PassoRigaTentabile, PassoRiproveContate DEF CodaInv
    <3>3. SolaSa' /\ PromessaTenuta'
      BY <2>2, ChiamataSolaSa, ChiamataPromessa, CercaConferma, EsecuzioneConferma
      DEF CodaInv, Next, Guasto
    <3> QED BY <3>1, <3>2, <3>3 DEF CodaInv
  <2> QED BY <2>1, <2>2
<1> QED BY <1>1, <1>2, PTL DEF Spec

\* The attempts of a job and those of the FIR agree, whatever MaxTentativi and
\* MaxRiprove, as long as the job has at least those of the FIR.
THEOREM RiproveConcordi == Spec => []RiproveSufficienti
<1>1. CodaInv => RiproveSufficienti
  BY DEF CodaInv, TypeOK, RiproveContate, RiproveSufficienti, CanRetry, Vivo
<1> QED BY <1>1, CodaInvariante, PTL

\* A request for confirmation that addSyncJob answered is carried by the job as
\* long as it lives, however many callers there are.
THEOREM ConfermaMantenuta == Spec => []ConfermaRispettata
<1>1. CodaInv => ConfermaRispettata
  BY DEF CodaInv, PromessaTenuta, ConfermaRispettata
<1> QED BY <1>1, CodaInvariante, PTL
=============================================================================
