-------------------------- MODULE RentriSyncQueue ---------------------------
(***************************************************************************)
(* The queue of the transmissions (RENTRISyncQueue, RENTRISyncJobProcessor *)
(* and BullMQ under them), seen from one FIR: the job sync-<firId>, those  *)
(* who ask for it (issue of the FIR, user, upload of the certificate,      *)
(* resumption of stalled attempts), the batch, and the row of the FIR.     *)
(*                                                                         *)
(* addSyncJob is not atomic: it looks for the job, asks for its state,     *)
(* removes it, adds one, with an await at each step.  What an attempt does *)
(* is in FirTrasmissione; here it reserves the row and saves an outcome.   *)
(*                                                                         *)
(* Of BullMQ the module takes: add with the id of an existing job does     *)
(* nothing; remove acts on the id and fails on an active job; a job that   *)
(* throws goes back to waiting until its attempts are used up; a job whose *)
(* worker died goes back once.                                             *)
(***************************************************************************)
EXTENDS RentriSyncStatus

CONSTANTS
  Chiamanti,      \* calls of addSyncJob that may overlap
  MaxRiprove,     \* attempts of a job, 5 in the code
  MaxRiaperture,  \* bound: reopenings by a user who checked the portal
  MaxImprevisti   \* bound: failed reads and writes, dead workers

ASSUME RentriSyncQueueAssumption ==
  /\ MaxRiprove \in Nat \ {0}
  /\ MaxRiaperture \in Nat
  /\ MaxImprevisti \in Nat

\* attempts: 5 of the queue, MAX_ATTEMPTS = 5 of the FIR.
ASSUME RiproveAssumption == MaxTentativi <= MaxRiprove

VARIABLES
  sync,       \* the columns of the transmission in the row
  proposto,   \* SYNCED with the number still to be confirmed
  job,        \* the job sync-<firId>
  passo,      \* where processSingleSync is
  batch,      \* a batch job holds the reservation
  chiamata,   \* where each addSyncJob is
  imprevisti, \* failed reads and writes, dead workers so far
  riaperture, \* reopenings so far
  accolta,    \* history: the last request that addSyncJob answered
  promessa    \* history: addSyncJob answered that the job asks confirmation

riga == <<sync, proposto>>
vars == <<riga, job, passo, batch, chiamata, imprevisti, riaperture, accolta,
          promessa>>

NessunJob == [stato |-> "assente", conferma |-> FALSE, riprove |-> 0,
              stallato |-> FALSE]

Fuori == [passo |-> "fuori", conferma |-> FALSE, vista |-> FALSE, sola |-> TRUE,
          servita |-> FALSE]

TypeOK ==
  /\ sync \in SyncStatus
  /\ proposto \in BOOLEAN
  /\ job \in [stato    : {"assente", "attesa", "attivo", "completato", "fallito"},
              conferma : BOOLEAN,
              riprove  : 0 .. MaxRiprove,
              stallato : BOOLEAN]
  /\ passo \in {"fuori", "prenota", "tenta", "completa", "rilancia", "regola"}
  /\ passo = "fuori" <=> job.stato # "attivo"
  /\ batch \in BOOLEAN
  /\ chiamata \in [Chiamanti ->
                   [passo    : {"fuori", "trovato", "toglie", "aggiunge"},
                    conferma : BOOLEAN,    \* richiedeConferma of the request
                    vista    : BOOLEAN,    \* that of the job it found
                    sola     : BOOLEAN,    \* history: no other call overlaps
                    servita  : BOOLEAN]]   \* history: an attempt read the row since
  /\ imprevisti \in Nat
  /\ riaperture \in Nat
  /\ accolta \in {"no", "inCoda", "assorbita", "persa"}
  /\ promessa \in BOOLEAN

Init ==
  /\ sync = Pending
  /\ proposto = FALSE
  /\ job = NessunJob
  /\ passo = "fuori"
  /\ batch = FALSE
  /\ chiamata = [c \in Chiamanti |-> Fuori]
  /\ imprevisti = 0
  /\ riaperture = 0
  /\ accolta = "no"
  /\ promessa = FALSE

-----------------------------------------------------------------------------
(* addSyncJob. *)

Imprevisto ==
  /\ imprevisti < MaxImprevisti
  /\ imprevisti' = imprevisti + 1

Vai(c, p) == chiamata' = [chiamata EXCEPT ![c].passo = p]

Torna(c) == chiamata' = [chiamata EXCEPT ![c] = Fuori]

\* getJob.
Cerca(c, conferma) ==
  LET altri == {d \in Chiamanti \ {c} : chiamata[d].passo # "fuori"}
  IN
  /\ chiamata[c].passo = "fuori"
  /\ chiamata' =
       [d \in Chiamanti |->
          IF d = c
          THEN [passo    |-> IF job.stato = "assente" THEN "aggiunge" ELSE "trovato",
                conferma |-> conferma,
                vista    |-> job.conferma,
                sola     |-> altri = {},
                servita  |-> FALSE]
          ELSE IF d \in altri THEN [chiamata[d] EXCEPT !.sola = FALSE]
                              ELSE chiamata[d]]
  /\ UNCHANGED <<riga, job, passo, batch, imprevisti, riaperture, accolta,
                 promessa>>

\* The job found lacks the confirmation that is asked for.
FlagMancante(c) == chiamata[c].conferma /\ ~chiamata[c].vista

\* A variant with a bug: the waiting job is always the right one.
RestituisceSenzaFlag(c) ==
  /\ chiamata[c].passo = "trovato"
  /\ job.stato \in {"attesa", "attivo"}
  /\ accolta' = CASE job.stato = "attesa" \/ passo = "prenota" -> "inCoda"
                  [] passo = "tenta" \/ accolta = "inCoda"     -> accolta
                  [] OTHER                                     -> "assorbita"
  /\ promessa' = (promessa \/ (chiamata[c].conferma /\ chiamata[c].sola))
  /\ Torna(c)
  /\ UNCHANGED <<riga, job, passo, batch, imprevisti, riaperture>>

\* getState: a live job that carries the flag, or an active one whatever it
\* carries, is returned as it is.
Restituisce(c) ==
  /\ chiamata[c].passo = "trovato"
  /\ \/ job.stato = "attesa" /\ ~FlagMancante(c)
     \/ job.stato = "attivo"
  /\ accolta' = CASE job.stato = "attesa" \/ passo = "prenota" -> "inCoda"
                  [] passo = "tenta" \/ accolta = "inCoda"     -> accolta
                  [] OTHER                                     -> "assorbita"
  /\ promessa' = (promessa \/ (/\ chiamata[c].conferma /\ chiamata[c].sola
                               /\ ~FlagMancante(c)))
  /\ Torna(c)
  /\ UNCHANGED <<riga, job, passo, batch, imprevisti, riaperture>>

\* A variant with a bug: a job that has ended is not removed first.
DecideSenzaTogliere(c) ==
  /\ chiamata[c].passo = "trovato"
  /\ \/ job.stato = "attesa" /\ FlagMancante(c) /\ Vai(c, "toglie")
     \/ job.stato \in {"assente", "completato", "fallito"} /\ Vai(c, "aggiunge")
  /\ UNCHANGED <<riga, job, passo, batch, imprevisti, riaperture, accolta,
                 promessa>>

\* getState: a waiting job without the flag is replaced, one that has ended
\* is removed, and one that is gone needs nothing.
Decide(c) ==
  /\ chiamata[c].passo = "trovato"
  /\ \/ job.stato = "attesa" /\ FlagMancante(c) /\ Vai(c, "toglie")
     \/ job.stato \in {"completato", "fallito"} /\ Vai(c, "toglie")
     \/ job.stato = "assente" /\ Vai(c, "aggiunge")
  /\ UNCHANGED <<riga, job, passo, batch, imprevisti, riaperture, accolta,
                 promessa>>

\* remove() finds whatever job has that id now.
Toglie(c) ==
  /\ chiamata[c].passo = "toglie"
  /\ job.stato # "attivo"
  /\ job' = NessunJob
  /\ Vai(c, "aggiunge")
  /\ UNCHANGED <<riga, passo, batch, imprevisti, riaperture, accolta, promessa>>

\* The job has become active: remove() throws, and so does addSyncJob.
ToglieFallito(c) ==
  /\ chiamata[c].passo = "toglie"
  /\ job.stato = "attivo"
  /\ Torna(c)
  /\ UNCHANGED <<riga, job, passo, batch, imprevisti, riaperture, accolta,
                 promessa>>

Aggiunge(c) ==
  /\ chiamata[c].passo = "aggiunge"
  /\ job.stato = "assente"
  /\ job' = [NessunJob EXCEPT !.stato = "attesa", !.conferma = chiamata[c].conferma]
  /\ accolta' = "inCoda"
  /\ promessa' = (promessa \/ (chiamata[c].conferma /\ chiamata[c].sola))
  /\ Torna(c)
  /\ UNCHANGED <<riga, passo, batch, imprevisti, riaperture>>

\* Somebody else has added the job meanwhile: add does nothing, and the
\* request counts on that job, unless that has already read the row.
AggiungeIgnorato(c) ==
  /\ chiamata[c].passo = "aggiunge"
  /\ job.stato # "assente"
  /\ accolta' = IF chiamata[c].servita THEN accolta ELSE "inCoda"
  /\ promessa' = (promessa \/ (chiamata[c].conferma /\ chiamata[c].sola))
  /\ Torna(c)
  /\ UNCHANGED <<riga, job, passo, batch, imprevisti, riaperture>>

\* Redis does not answer.  After a remove the request that had been answered
\* has no job any more.
ChiamataFallita(c) ==
  /\ chiamata[c].passo # "fuori"
  /\ Imprevisto
  /\ accolta' = IF accolta = "inCoda" /\ job.stato = "assente"
                THEN "persa" ELSE accolta
  /\ Torna(c)
  /\ UNCHANGED <<riga, job, passo, batch, riaperture, promessa>>

-----------------------------------------------------------------------------
(* The job and its attempts. *)

AvviaJob ==
  /\ job.stato = "attesa"
  /\ job' = [job EXCEPT !.stato = "attivo"]
  /\ passo' = "prenota"
  /\ UNCHANGED <<riga, batch, chiamata, imprevisti, riaperture, accolta, promessa>>

\* The attempt has read the row: the requests made so far are served.
Letta ==
  /\ accolta' = "no"
  /\ chiamata' = [c \in Chiamanti |->
                    [chiamata[c] EXCEPT !.servita = chiamata[c].passo # "fuori"]]

\* A reservation of a worker that is gone can be taken when it is older than
\* the threshold.
Riservabile == CanRetry(sync) \/ (sync.status = "SYNCING" /\ ~batch)

Prenota ==
  /\ passo = "prenota"
  /\ Riservabile
  /\ sync' = MarkAsSyncing(sync)
  /\ passo' = "tenta"
  /\ Letta
  /\ UNCHANGED <<proposto, job, batch, imprevisti, riaperture, promessa>>

\* giaInCorso: the row is reserved by somebody else, or too recently.
GiaInCorso ==
  /\ passo = "prenota"
  /\ sync.status = "SYNCING"
  /\ passo' = "completa"
  /\ Letta
  /\ UNCHANGED <<riga, job, batch, imprevisti, riaperture, promessa>>

\* CANNOT_SYNC_FIR, a business rule violated; a SYNCED row that waits for
\* confirmation cannot even be read.
NonTrasmissibile ==
  /\ passo = "prenota"
  /\ sync.status # "SYNCING" /\ ~CanRetry(sync)
  /\ passo' = IF proposto THEN "rilancia" ELSE "regola"
  /\ Letta
  /\ UNCHANGED <<riga, job, batch, imprevisti, riaperture, promessa>>

\* The read or the reservation fails: the row was not seen, and the requests
\* count on the next attempt of the job.
LetturaFallita ==
  /\ passo = "prenota"
  /\ Imprevisto
  /\ passo' = "rilancia"
  /\ UNCHANGED <<riga, job, batch, chiamata, riaperture, accolta, promessa>>

\* The outcome is saved; processSingleSync throws again what may be retried.
EsitoPositivo ==
  /\ passo = "tenta"
  /\ sync' = Synced
  /\ proposto' = job.conferma
  /\ passo' = "completa"
  /\ UNCHANGED <<job, batch, chiamata, imprevisti, riaperture, accolta, promessa>>

EsitoNegativo ==
  /\ passo = "tenta"
  /\ \E codice \in {ApiError, Incerta} : sync' = MarkAsFailed(sync, codice)
  /\ passo' = IF CanRetry(sync') THEN "rilancia" ELSE "completa"
  /\ UNCHANGED <<proposto, job, batch, chiamata, imprevisti, riaperture,
                 accolta, promessa>>

\* execute throws: before the POST it releases the reservation, later the row
\* stays SYNCING.
TentativoInterrotto ==
  /\ passo = "tenta"
  /\ Imprevisto
  /\ sync' \in {sync, MarkAsFailed(sync, ApiError)}
  /\ passo' = "rilancia"
  /\ UNCHANGED <<proposto, job, batch, chiamata, riaperture, accolta, promessa>>

Termina(stato) ==
  /\ job' = [job EXCEPT !.stato = stato]
  /\ promessa' = FALSE

\* The request that counted on a job that has no attempt left.
Perde == accolta' = IF accolta = "inCoda" THEN "persa" ELSE accolta

Completa ==
  /\ passo = "completa"
  /\ Termina("completato")
  /\ passo' = "fuori"
  /\ UNCHANGED <<riga, batch, chiamata, imprevisti, riaperture, accolta>>

\* A variant with a bug: the first execution is not counted as an attempt.
RiprovaMenoUna ==
  /\ passo \in {"rilancia", "regola"}
  /\ passo' = "fuori"
  /\ IF job.riprove + 2 < MaxRiprove
     THEN /\ job' = [job EXCEPT !.stato = "attesa", !.riprove = job.riprove + 1]
          /\ UNCHANGED <<accolta, promessa>>
     ELSE Termina("fallito") /\ Perde
  /\ UNCHANGED <<riga, batch, chiamata, imprevisti, riaperture>>

\* The job that throws waits for its next attempt, if it has one left.
Riprova ==
  /\ passo \in {"rilancia", "regola"}
  /\ passo' = "fuori"
  /\ IF job.riprove + 1 < MaxRiprove
     THEN /\ job' = [job EXCEPT !.stato = "attesa", !.riprove = job.riprove + 1]
          /\ UNCHANGED <<accolta, promessa>>
     ELSE Termina("fallito") /\ Perde
  /\ UNCHANGED <<riga, batch, chiamata, imprevisti, riaperture>>

\* A violated rule: moveToFailed; whether BullMQ keeps the job failed or
\* counts one more attempt is left open.
RegolaViolata ==
  /\ passo = "regola"
  /\ passo' = "fuori"
  /\ Termina("fallito")
  /\ UNCHANGED <<riga, batch, chiamata, imprevisti, riaperture, accolta>>

\* A job whose worker dies goes back to the queue once.
WorkerMuore ==
  /\ job.stato = "attivo"
  /\ Imprevisto
  /\ passo' = "fuori"
  /\ IF job.stallato
     THEN Termina("fallito") /\ Perde
     ELSE /\ job' = [job EXCEPT !.stato = "attesa", !.stallato = TRUE]
          /\ UNCHANGED <<accolta, promessa>>
  /\ UNCHANGED <<riga, batch, chiamata, riaperture>>

\* removeOnComplete, removeOnFail.
Scade ==
  /\ job.stato \in {"completato", "fallito"}
  /\ job' = NessunJob
  /\ UNCHANGED <<riga, passo, batch, chiamata, imprevisti, riaperture, accolta,
                 promessa>>

\* cancelJob: a completed job stays, an active one cannot be removed.
CancelJob ==
  /\ job.stato \in {"attesa", "fallito"}
  /\ job' = NessunJob
  /\ promessa' = FALSE
  /\ accolta' = "no"
  /\ UNCHANGED <<riga, passo, batch, chiamata, imprevisti, riaperture>>

-----------------------------------------------------------------------------
(* The batch, and the user. *)

\* processBatchSync takes the FIR without asking for confirmation.
PrenotaBatch ==
  /\ ~batch
  /\ CanRetry(sync) \/ (sync.status = "SYNCING" /\ passo # "tenta")
  /\ sync' = MarkAsSyncing(sync)
  /\ batch' = TRUE
  /\ UNCHANGED <<proposto, job, passo, chiamata, imprevisti, riaperture, accolta,
                 promessa>>

\* Whatever the outcome, the batch goes on to its next FIR.
EsitoBatch ==
  /\ batch
  /\ sync' \in {Synced, MarkAsFailed(sync, ApiError), MarkAsFailed(sync, Incerta)}
  /\ batch' = FALSE
  /\ UNCHANGED <<proposto, job, passo, chiamata, imprevisti, riaperture, accolta,
                 promessa>>

BatchInterrotto ==
  /\ batch
  /\ Imprevisto
  /\ batch' = FALSE
  /\ UNCHANGED <<riga, job, passo, chiamata, riaperture, accolta, promessa>>

\* RiapriTrasmissioneRentriUseCase, and the upload of a certificate.
Riapri ==
  /\ PuoRiaprire(sync)
  /\ riaperture < MaxRiaperture
  /\ riaperture' = riaperture + 1
  /\ sync' = Pending
  /\ UNCHANGED <<proposto, job, passo, batch, chiamata, imprevisti, accolta,
                 promessa>>

-----------------------------------------------------------------------------
Chiamata(c) ==
  \/ Restituisce(c) \/ Decide(c) \/ Toglie(c) \/ ToglieFallito(c)
  \/ Aggiunge(c) \/ AggiungeIgnorato(c)

Esecuzione ==
  \/ AvviaJob \/ Prenota \/ GiaInCorso \/ NonTrasmissibile
  \/ EsitoPositivo \/ EsitoNegativo \/ Completa \/ Riprova \/ RegolaViolata

Guasto ==
  \/ LetturaFallita \/ TentativoInterrotto \/ WorkerMuore \/ BatchInterrotto
  \/ \E c \in Chiamanti : ChiamataFallita(c)

Next ==
  \/ \E c \in Chiamanti : Chiamata(c) \/ \E conferma \in BOOLEAN : Cerca(c, conferma)
  \/ Esecuzione
  \/ Guasto
  \/ Scade \/ CancelJob
  \/ PrenotaBatch \/ EsitoBatch
  \/ Riapri

\* A call goes on to its answer, an attempt ends, and the queue serves what it
\* holds: those who replace the job do not for ever come before the worker.
Equita ==
  /\ \A c \in Chiamanti : WF_vars(Chiamata(c))
  /\ SF_vars(AvviaJob)
  /\ WF_vars(Esecuzione)
  /\ WF_vars(EsitoBatch)

Spec == Init /\ [][Next]_vars /\ Equita

-----------------------------------------------------------------------------
(* Properties. *)

\* The five attempts of a job and the five of the FIR agree: a job that has
\* used up its attempts does not leave behind a FIR that may be retried,
\* unless something broke or a user started the FIR over meanwhile.
RiproveSufficienti ==
  job.stato = "fallito" /\ CanRetry(sync) => imprevisti > 0 \/ riaperture > 0

\* A request answered with a job that was waiting, or that it added, is
\* served by an attempt that reads the row afterwards, whatever calls, batches
\* and retries overlap, an attempt that could not read it not counting; it is
\* only lost if a user cancels the job, the replacement of the job stops
\* halfway, the worker dies twice, or the last attempt of the job fails to
\* read the row.
RichiestaServita == accolta = "inCoda" ~> accolta # "inCoda"

\* "Una richiesta di conferma del legame (IBRIDA) che il job vivo non porta
\* non puo' essere assorbita in silenzio" (addSyncJob): while the job that
\* answered a request for confirmation lives, it carries the flag.  Requests
\* that overlap are outside the promise.
ConfermaRispettata ==
  promessa /\ job.stato \in {"attesa", "attivo"} => job.conferma

-----------------------------------------------------------------------------
(* What makes the two invariants inductive. *)

Vivo == sync.status \in {"PENDING", "FAILED", "SYNCING"}

\* A FIR that is not closed has attempts left; whoever tries holds it SYNCING.
RigaTentabile ==
  /\ Vivo => sync.attempts < MaxTentativi
  /\ Vivo => sync.code \notin NON_RETRYABLE
  /\ batch => sync.status = "SYNCING" /\ passo # "tenta"
  /\ passo = "tenta" => sync.status = "SYNCING"

\* The FIR has counted every attempt that the job has used up.
RiproveContate ==
  imprevisti = 0 /\ riaperture = 0 /\ Vivo =>
    /\ job.stato # "fallito"
    /\ passo # "regola"
    /\ job.stato \in {"attesa", "attivo"} =>
         sync.attempts >= job.riprove + (IF passo = "rilancia" THEN 1 ELSE 0)

\* A call that no other overlaps knows the job that is there, or that there
\* is none.
SolaSa ==
  \A c \in Chiamanti :
    chiamata[c].sola /\ chiamata[c].passo # "fuori" =>
      /\ \A d \in Chiamanti \ {c} : chiamata[d].passo = "fuori"
      /\ chiamata[c].passo = "aggiunge" => job.stato = "assente"
      /\ chiamata[c].passo = "trovato" /\ job.stato \in {"attesa", "attivo"} =>
           chiamata[c].vista = job.conferma

\* Nobody is about to remove or replace a job that carries a promise.
PromessaTenuta ==
  promessa =>
    /\ job.stato \in {"attesa", "attivo"} /\ job.conferma
    /\ \A c \in Chiamanti :
         \/ chiamata[c].passo = "fuori"
         \/ chiamata[c].passo = "trovato" /\ chiamata[c].vista

CodaInv == TypeOK /\ RigaTentabile /\ RiproveContate /\ SolaSa /\ PromessaTenuta
=============================================================================
