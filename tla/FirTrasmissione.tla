-------------------------- MODULE FirTrasmissione ---------------------------
(***************************************************************************)
(* The transmission of one FIR (waste-transport document) to RENTRI, the   *)
(* national registry ("ente"), and everything that runs beside it on the   *)
(* same row of the table firs.                                             *)
(*                                                                         *)
(*  - Workers are executions of SyncFIRToRENTRIUseCase: queue jobs, their  *)
(*    retries, the batch, the job that resumes stalled attempts.  Each     *)
(*    step between two awaits of execute() is an action.                   *)
(*  - Richieste are the other use cases on the same FIR.  Each loads the   *)
(*    aggregate, waits (network, user signature, database), applies one    *)
(*    domain method to its copy and saves it.                              *)
(*  - The ente answers a POST with a transaction, elaborates it later and  *)
(*    tells its outcome to whoever asks.                                   *)
(*                                                                         *)
(* Time.  Every reservation takes a new value of `orologio`: the instant   *)
(* rentri_sync_avviato_at of the code, 0 being NULL.  All processes are    *)
(* taken to read one clock.  An attempt older than SOGLIA_STALLO_RENTRI_MS *)
(* (15 minutes) is one whose worker is gone or, for a live worker, one     *)
(* marked `scaduta`; only a worker already past its database steps, that   *)
(* is waiting for RENTRI or coming from such a wait, gets so old.          *)
(***************************************************************************)
EXTENDS RentriSyncStatus, FiniteSets

CONSTANTS
  Workers,          \* executions of the sync use case that may overlap
  Lenti,            \* the workers whose calls to RENTRI may outlast the threshold
  Richieste,        \* other requests on the same FIR that may overlap
  Operazioni,       \* what those requests may be
  Conferme,         \* values of richiedeConferma: {FALSE}, {TRUE} or both
  MaxPost,          \* bound: POSTs the ente accepts
  MaxPrenotazioni,  \* bound: reservations won
  MaxRiaperture,    \* bound: reopenings by a user who checked the portal
  MaxDeroghe,       \* bound: see deroghe below
  MaxImprevisti,    \* bound: crashes, failed writes, certificates removed
  Nessuno           \* the operation of an idle request

OperazioniNote == {"PRESA_IN_CARICO", "CONFERMA_CONSEGNA", "ANNULLA", "RIAPRI",
                   "CONFERMA_LEGAME", "AGGANCIA", "RILASCIA", "STATO_ENTE",
                   "RICONCILIA_SYNCING"}

ASSUME FirTrasmissioneAssumption ==
  /\ IsFiniteSet(Workers)
  /\ Lenti \subseteq Workers
  /\ Operazioni \subseteq OperazioniNote
  /\ Conferme \subseteq BOOLEAN
  /\ MaxPost \in Nat
  /\ MaxPrenotazioni \in Nat
  /\ MaxRiaperture \in Nat
  /\ MaxDeroghe \in Nat
  /\ MaxImprevisti \in Nat
  /\ Nessuno \notin OperazioniNote \cup {"SELEZIONATA"}

-----------------------------------------------------------------------------
(* The FIR: the columns of the row, and the fields of the aggregate.       *)
(* Transactions and the numbers the ente gives them are 1 .. MaxPost, one  *)
(* per accepted POST; Esterno is the number of a formulario created by     *)
(* somebody else.  0 stands for NULL.                                      *)

Transazioni == 1 .. MaxPost
Esterno     == MaxPost + 1
Numeri      == 0 .. Esterno

StatiFir == {"EMESSO", "IN_TRANSITO", "CONSEGNATO", "ANNULLATO"}

Fir == [stato         : StatiFir,
        sync          : SyncStatus,
        avviato       : Nat,                       \* rentri_sync_avviato_at
        inAttesa      : 0 .. MaxPost,              \* rentri_transazione_in_attesa
        transazione   : 0 .. MaxPost,              \* rentri_transazione_id
        numero        : Numeri,                    \* rentri_numero_fir
        origine       : {"nessuna", "TRASMESSO_DA_NOI", "ALTRUI"},
        proposto      : Numeri,                    \* rentri_numero_fir_proposto
        annullatoEnte : BOOLEAN]  \* rentri_stato_formulario = 'Annullato'

FirEmesso == [stato |-> "EMESSO", sync |-> Pending, avviato |-> 0,
              inAttesa |-> 0, transazione |-> 0, numero |-> 0,
              origine |-> "nessuna", proposto |-> 0, annullatoEnte |-> FALSE]

Trasmissibile(f) == f.stato # "ANNULLATO" /\ f.numero = 0

CanSyncToRENTRI(f) == Trasmissibile(f) /\ CanRetry(f.sync)

\* avviaTentativoRentri also takes a SYNCING FIR: the resumption of a stall.
PuoAvviare(f) ==
  Trasmissibile(f) /\ (f.sync.status = "SYNCING" \/ CanRetry(f.sync))

AvviaTentativo(f, ora) ==
  [f EXCEPT !.sync = MarkAsSyncing(f.sync), !.avviato = ora]

RegistraTransazioneInAttesa(f, t) ==
  [f EXCEPT !.inAttesa = t, !.transazione = t]

ChiudiTransazione(f) == [f EXCEPT !.inAttesa = 0]

MarkSyncFailed(f, codice) == [f EXCEPT !.sync = MarkAsFailed(f.sync, codice)]

\* A variant with a bug: an uncertain creation is a transport error like any.
SegnaRiprovabile(f) == ChiudiTransazione(MarkSyncFailed(f, ApiError))

SegnaIncerta(f) == ChiudiTransazione(MarkSyncFailed(f, Incerta))

\* Issued where RENTRI is automatic and no certificate is configured: nothing
\* is queued, the FIR is marked at once.
FirEmessoSenzaCertificato == MarkSyncFailed(FirEmesso, CertMancante)

MarkSynced(f, n) ==
  [f EXCEPT !.sync = Synced, !.numero = n, !.inAttesa = 0,
            !.transazione = n, !.origine = "TRASMESSO_DA_NOI"]

\* IBRIDA: synced, but the number stays a proposal until a user confirms it.
ProponiLegame(f, n) ==
  [f EXCEPT !.sync = Synced, !.proposto = n, !.inAttesa = 0, !.transazione = n]

EsitoPositivo(f, n, conferma) ==
  IF conferma THEN ProponiLegame(f, n) ELSE MarkSynced(f, n)

\* What the catch around the calls to RENTRI makes of an error that is
\* neither an uncertain creation nor a missing certificate: a failure that
\* would be final keeps a transaction that is still to be read.
Fallimento(f, codice) ==
  IF f.inAttesa # 0 /\ ~CanRetry(MarkAsFailed(f.sync, codice))
  THEN MarkSyncFailed(f, NonAcquisito)
  ELSE MarkSyncFailed(f, codice)

\* A new attempt on this FIR would send a POST (now, or as soon as the
\* missing certificate arrives).
NuovaPostPossibile(f) ==
  /\ f.inAttesa = 0
  /\ \/ f.sync.status \in {"PENDING", "FAILED"}
     \/ f.sync.status = "PERMANENTLY_FAILED" /\ f.sync.code = CertMancante

-----------------------------------------------------------------------------
(* The domain methods of the other requests: guard and effect on the copy. *)

StatiEnte == {"IN_TRANSITO", "CONSEGNATO", "ANNULLATO"}
Terminale(s) == s \in {"CONSEGNATO", "ANNULLATO"}

Ammessa(op, f) ==
  CASE op = "PRESA_IN_CARICO"    -> f.numero = 0 /\ f.stato = "EMESSO"
    [] op = "CONFERMA_CONSEGNA"  -> f.numero = 0 /\ f.stato = "IN_TRANSITO"
    [] op = "ANNULLA"            -> f.numero = 0 /\ f.stato # "CONSEGNATO"
    [] op = "RIAPRI"             -> f.numero = 0 /\ PuoRiaprire(f.sync)
    [] op = "CONFERMA_LEGAME"    -> f.proposto # 0
    [] op = "AGGANCIA"           -> f.numero = 0
    [] op = "RILASCIA"           -> f.numero # 0 /\ f.origine = "ALTRUI"
    [] op = "STATO_ENTE"         -> f.numero # 0
    [] op = "RICONCILIA_SYNCING" -> f.transazione # 0

\* applyRentriStato: the ente's state, except that a terminal FIR does not
\* go back to a state that is not.
ApplicaStatoEnte(f, s) ==
  [f EXCEPT !.stato = IF Terminale(f.stato) /\ ~Terminale(s) THEN f.stato ELSE s,
            !.annullatoEnte = (s = "ANNULLATO")]

\* The aggregates the operation may save, given what the ente has decided.
Applica(op, f, esiti) ==
  CASE op = "PRESA_IN_CARICO"    -> {[f EXCEPT !.stato = "IN_TRANSITO"]}
    [] op = "CONFERMA_CONSEGNA"  -> {[f EXCEPT !.stato = "CONSEGNATO"]}
    [] op = "ANNULLA"            -> {[f EXCEPT !.stato = "ANNULLATO"]}
    [] op = "CONFERMA_LEGAME"    -> {[f EXCEPT !.numero = f.proposto,
                                               !.origine = "TRASMESSO_DA_NOI",
                                               !.proposto = 0]}
    [] op = "AGGANCIA"           -> {[f EXCEPT !.numero = Esterno,
                                               !.origine = "ALTRUI"]}
    [] op = "RILASCIA"           -> {[f EXCEPT !.numero = 0,
                                               !.origine = "nessuna"]}
    [] op = "STATO_ENTE"         -> {ApplicaStatoEnte(f, s) : s \in StatiEnte}
    [] op = "RICONCILIA_SYNCING" ->
         {EsitoPositivo(f, f.transazione, c) :
            c \in {d \in Conferme : /\ f.sync.status # "SYNCED"
                                     /\ esiti[f.transazione] = "conNumero"}}

-----------------------------------------------------------------------------
(* The repository.                                                         *)

\* rentriSyncStatusFromRecord: findById throws on a SYNCED row that has no
\* official number, because the value object refuses to be rebuilt.
Leggibile(riga) == riga.sync.status = "SYNCED" => riga.numero # 0

\* A variant with a bug: a copy that is already in transit may overwrite.
RifiutatoSeEmesso(riga, f) == riga.stato = "ANNULLATO" /\ f.stato = "EMESSO"

\* FirAnnullatoNelFrattempoError.
Rifiutato(riga, f) == riga.stato = "ANNULLATO" /\ f.stato # "ANNULLATO"

\* Two variants with a bug: the columns of the transmission are not spared;
\* the number already in the row is kept, but not the origin that goes with it.
RigaSalvataIntera(riga, f) ==
  [f EXCEPT !.annullatoEnte = f.annullatoEnte \/ riga.annullatoEnte]

RigaSalvataColNumero(riga, f) ==
  [f EXCEPT !.annullatoEnte = f.annullatoEnte \/ riga.annullatoEnte,
            !.numero = IF riga.numero # 0 THEN riga.numero ELSE f.numero]

\* The row after save(f): 'Annullato' of the ente stays, the columns of the
\* transmission stay when the row has a reservation the aggregate does not
\* know, every other column comes from the aggregate.
RigaSalvata(riga, f) ==
  LET g == [f EXCEPT !.annullatoEnte = f.annullatoEnte \/ riga.annullatoEnte]
  IN  IF riga.avviato # 0 /\ f.avviato < riga.avviato
      THEN [g EXCEPT !.sync = riga.sync, !.avviato = riga.avviato,
                     !.inAttesa = riga.inAttesa,
                     !.transazione = riga.transazione]
      ELSE g

Salva(riga, f) == IF Rifiutato(riga, f) THEN riga ELSE RigaSalvata(riga, f)

-----------------------------------------------------------------------------
VARIABLES
  db,          \* the row
  pc,          \* where each worker is in execute()
  copia,       \* the aggregate each worker holds
  ora,         \* the instant of its reservation, 0 before it
  scaduta,     \* its reservation is older than the stall threshold
  richiesta,   \* for each other request: its operation and its aggregate
  esito,       \* for each transaction: what the ente has decided
  orologio,    \* the last instant taken
  certificato, \* the tenant's RENTRI credential
  imprevisti,  \* crashes, failed writes and removed certificates so far
  post,        \* history: POSTs the ente accepted
  riaperture,  \* history: failures a user reopened after checking
  deroghe      \* history: other steps that made a new POST possible

\* A step counts as a deroga (an exception) when it makes a new POST possible
\* that nothing allowed any more, although nobody has checked the portal:
\*  - the outcome was read and its save, or the save of its log, failed;
\*  - a request saved, over the outcome, a copy loaded before it;
\*  - a stall was released as retryable because the FIR could not start.

vars == <<db, pc, copia, ora, scaduta, richiesta, esito, orologio,
          certificato, imprevisti, post, riaperture, deroghe>>

locali == <<pc, copia, ora, scaduta>>
ambiente == <<certificato, imprevisti>>
storia == <<post, riaperture, deroghe>>

Passi == {"fermo", "letto", "prenotato", "daSpedire", "daRegistrare",
          "inAttesaEsito", "salvaEsito", "salvaErrore", "risalva"}

\* appenaCaricato: saved, the FIRs it unblocks are not reopened yet.
StatiCertificato == {"assente", "appenaCaricato", "presente"}

Libera == [op |-> Nessuno, fir |-> FirEmesso]

\* The reconciliation has listed this FIR among the stalled ones, and loads
\* it when its turn comes.
Selezionata == [op |-> "SELEZIONATA", fir |-> FirEmesso]

TypeOK ==
  /\ db \in Fir
  /\ pc \in [Workers -> Passi]
  /\ copia \in [Workers -> Fir]
  /\ ora \in [Workers -> Nat]
  /\ scaduta \in [Workers -> BOOLEAN]
  /\ richiesta \in [Richieste ->
                    [op : OperazioniNote \cup {Nessuno, "SELEZIONATA"}, fir : Fir]]
  /\ esito \in [Transazioni ->
                  {"nessuna", "inCorso", "conNumero", "senzaNumero", "rifiutata"}]
  /\ orologio \in Nat
  /\ certificato \in StatiCertificato
  /\ imprevisti \in Nat
  /\ post \in 0 .. MaxPost
  /\ riaperture \in Nat
  /\ deroghe \in Nat

Init ==
  /\ db \in {FirEmesso, FirEmessoSenzaCertificato}
  /\ pc = [w \in Workers |-> "fermo"]
  /\ copia = [w \in Workers |-> FirEmesso]
  /\ ora = [w \in Workers |-> 0]
  /\ scaduta = [w \in Workers |-> FALSE]
  /\ richiesta = [r \in Richieste |-> Libera]
  /\ esito = [t \in Transazioni |-> "nessuna"]
  /\ orologio = 0
  /\ certificato \in {"assente", "presente"}
  /\ imprevisti = 0
  /\ post = 0
  /\ riaperture = 0
  /\ deroghe = 0

-----------------------------------------------------------------------------
(* Moves of a worker. *)

Vai(w, passo, f) ==
  /\ pc' = [pc EXCEPT ![w] = passo]
  /\ copia' = [copia EXCEPT ![w] = f]

Termina(w) ==
  /\ Vai(w, "fermo", FirEmesso)
  /\ ora' = [ora EXCEPT ![w] = 0]
  /\ scaduta' = [scaduta EXCEPT ![w] = FALSE]

Imprevisto ==
  /\ imprevisti < MaxImprevisti
  /\ imprevisti' = imprevisti + 1

Deroga(condizione) ==
  /\ deroghe' = IF condizione THEN deroghe + 1 ELSE deroghe
  /\ deroghe' <= MaxDeroghe

\* First read; the payload of a new transmission is built from it.
Leggi(w) ==
  /\ pc[w] = "fermo"
  /\ Leggibile(db)
  /\ db.sync.status = "SYNCING" \/ CanSyncToRENTRI(db)
  /\ Vai(w, "letto", db)
  /\ UNCHANGED <<db, ora, scaduta, richiesta, esito, orologio, ambiente, storia>>

\* A reservation is older than the threshold when no live worker younger
\* than that holds it.
Vecchia(avviato) == \A v \in Workers : ora[v] = avviato => scaduta[v]

\* A variant with a bug: every SYNCING row looks stalled.
StalloSenzaSoglia(w) ==
  db.sync.status = "SYNCING" /\ db.avviato = copia[w].avviato

\* The one who asks has read the row less than the threshold ago, so a
\* stalled reservation is one it has read.
Stallo(w) ==
  /\ db.sync.status = "SYNCING"
  /\ db.avviato = copia[w].avviato
  /\ Vecchia(db.avviato)

\* A variant with a bug: a stall is never taken again.
PrenotabileSeFerma(w) ==
  /\ db.numero = 0
  /\ db.stato # "ANNULLATO"
  /\ ~db.annullatoEnte
  /\ db.sync.status \in {"PENDING", "FAILED"}

\* The WHERE of prenotaTrasmissioneRentri.
Prenotabile(w) ==
  /\ db.numero = 0
  /\ db.stato # "ANNULLATO"
  /\ ~db.annullatoEnte
  /\ db.sync.status \in {"PENDING", "FAILED"} \/ Stallo(w)

Prenota(w) ==
  /\ pc[w] = "letto"
  /\ orologio < MaxPrenotazioni
  /\ Prenotabile(w)
  /\ orologio' = orologio + 1
  /\ db' = [db EXCEPT !.sync = [db.sync EXCEPT !.status = "SYNCING"],
                      !.avviato = orologio + 1]
  /\ ora' = [ora EXCEPT ![w] = orologio + 1]
  /\ pc' = [pc EXCEPT ![w] = "prenotato"]
  /\ UNCHANGED <<copia, scaduta, richiesta, esito, ambiente, storia>>

PrenotazionePersa(w) ==
  /\ pc[w] = "letto"
  /\ ~Prenotabile(w)
  /\ Termina(w)
  /\ UNCHANGED <<db, richiesta, esito, orologio, ambiente, storia>>

\* The aggregate is read again and the attempt starts on what the row says
\* now, but whether it resumes a stall is what the first read said.
EraSyncing(w) == copia[w].sync.status = "SYNCING"

\* The FIR cannot start any more (cancelled, or linked meanwhile): the
\* reservation is released as a failure that may be retried.
AvviaRifiutato(w) ==
  /\ pc[w] = "prenotato"
  /\ db.sync.status # "SYNCED"
  /\ ~PuoAvviare(db)
  /\ Vai(w, "salvaErrore", MarkSyncFailed(db, ApiError))
  /\ Deroga(EraSyncing(w) /\ NuovaPostPossibile(MarkSyncFailed(db, ApiError)))
  /\ UNCHANGED <<db, ora, scaduta, richiesta, esito, orologio, ambiente, post,
                 riaperture>>

\* The reconciliation has closed the row: it cannot be read, or the aggregate
\* refuses both the start and the failure, and nothing is saved.
AvviaSuSincronizzato(w) ==
  /\ pc[w] = "prenotato"
  /\ db.sync.status = "SYNCED"
  /\ Termina(w)
  /\ UNCHANGED <<db, richiesta, esito, orologio, ambiente, storia>>

\* A stall with no transaction: the POST may have left.
AvviaStalloIncerto(w) ==
  /\ pc[w] = "prenotato"
  /\ PuoAvviare(db)
  /\ EraSyncing(w)
  /\ db.inAttesa = 0
  /\ Vai(w, "salvaErrore", SegnaIncerta(AvviaTentativo(db, ora[w])))
  /\ UNCHANGED <<db, ora, scaduta, richiesta, esito, orologio, ambiente, storia>>

\* Two variants with a bug: a stall without transaction sends a POST; the
\* pending transaction is not looked at.
AvviaSenzaCautela(w) ==
  /\ pc[w] = "prenotato"
  /\ PuoAvviare(db)
  /\ Vai(w, IF db.inAttesa = 0 THEN "daSpedire" ELSE "inAttesaEsito",
         AvviaTentativo(db, ora[w]))
  /\ UNCHANGED <<db, ora, scaduta, richiesta, esito, orologio, ambiente, storia>>

AvviaDaCapo(w) ==
  /\ pc[w] = "prenotato"
  /\ PuoAvviare(db)
  /\ EraSyncing(w) => db.inAttesa # 0
  /\ Vai(w, "daSpedire", AvviaTentativo(db, ora[w]))
  /\ UNCHANGED <<db, ora, scaduta, richiesta, esito, orologio, ambiente, storia>>

\* The attempt starts and its log is written: a pending transaction is
\* resumed, otherwise a POST follows.
Avvia(w) ==
  /\ pc[w] = "prenotato"
  /\ PuoAvviare(db)
  /\ EraSyncing(w) => db.inAttesa # 0
  /\ Vai(w, IF db.inAttesa = 0 THEN "daSpedire" ELSE "inAttesaEsito",
         AvviaTentativo(db, ora[w]))
  /\ UNCHANGED <<db, ora, scaduta, richiesta, esito, orologio, ambiente, storia>>

\* The log cannot be written, or the payload that the first read did not
\* call for cannot be built: nothing has left, the reservation is released.
AvviaFallito(w) ==
  /\ pc[w] = "prenotato"
  /\ PuoAvviare(db)
  /\ EraSyncing(w) => db.inAttesa # 0
  /\ Imprevisto
  /\ Vai(w, "salvaErrore", MarkSyncFailed(AvviaTentativo(db, ora[w]), ApiError))
  /\ UNCHANGED <<db, ora, scaduta, richiesta, esito, orologio, certificato,
                 storia>>

-----------------------------------------------------------------------------
(* The calls to RENTRI.  Every request is signed with the certificate of   *)
(* the tenant, looked up at that moment.                                   *)

Accettata ==
  /\ post < MaxPost
  /\ post' = post + 1
  /\ esito' = [esito EXCEPT ![post + 1] = "inCorso"]

\* 202: the transaction goes into the aggregate before the database.
Spedisci(w) ==
  /\ pc[w] = "daSpedire"
  /\ certificato # "assente"
  /\ Accettata
  /\ Vai(w, "daRegistrare", RegistraTransazioneInAttesa(copia[w], post + 1))
  /\ UNCHANGED <<db, ora, scaduta, richiesta, orologio, ambiente, riaperture,
                 deroghe>>

\* 5xx, timeout or 202 without transaction: the ente may have accepted.
SpedisciIncerto(w) ==
  /\ pc[w] = "daSpedire"
  /\ certificato # "assente"
  /\ Accettata \/ UNCHANGED <<post, esito>>
  /\ Vai(w, "salvaErrore", SegnaIncerta(copia[w]))
  /\ UNCHANGED <<db, ora, scaduta, richiesta, orologio, ambiente, riaperture,
                 deroghe>>

\* The ente refuses the POST (429, 423, 403) or it cannot be sent at all.
SpedisciFallito(w) ==
  /\ pc[w] = "daSpedire"
  /\ \E codice \in IF certificato = "assente" THEN {ApiError, CertMancante}
                                              ELSE {ApiError, Forbidden} :
       Vai(w, "salvaErrore", Fallimento(copia[w], codice))
  /\ UNCHANGED <<db, ora, scaduta, richiesta, esito, orologio, ambiente, storia>>

\* The UPDATE of registraTransazioneInAttesa writes only while the row is
\* still reserved by this attempt; either way the polling goes on.
Registra(w) ==
  /\ pc[w] = "daRegistrare"
  /\ db' = IF db.sync.status = "SYNCING" /\ db.avviato = ora[w]
           THEN RegistraTransazioneInAttesa(db, copia[w].inAttesa)
           ELSE db
  /\ Vai(w, "inAttesaEsito", copia[w])
  /\ UNCHANGED <<ora, scaduta, richiesta, esito, orologio, ambiente, storia>>

RegistraFallito(w) ==
  /\ pc[w] = "daRegistrare"
  /\ Imprevisto
  /\ Vai(w, "salvaErrore", Fallimento(copia[w], ApiError))
  /\ UNCHANGED <<db, ora, scaduta, richiesta, esito, orologio, certificato,
                 storia>>

\* The polling reads the outcome of the transaction.
LeggiEsito(w) ==
  LET f == copia[w]
      t == copia[w].inAttesa
  IN
  /\ pc[w] = "inAttesaEsito"
  /\ certificato # "assente"
  /\ \/ /\ esito[t] = "conNumero"
        /\ \E conferma \in Conferme :
             Vai(w, "salvaEsito", EsitoPositivo(f, t, conferma))
     \/ /\ esito[t] = "senzaNumero"
        /\ Vai(w, "salvaEsito", MarkSyncFailed(ChiudiTransazione(f), MissingNumero))
     \/ /\ esito[t] = "rifiutata"
        /\ Vai(w, "salvaEsito", MarkSyncFailed(ChiudiTransazione(f), ValidationError))
  /\ UNCHANGED <<db, ora, scaduta, richiesta, esito, orologio, ambiente, storia>>

\* 404 on the transaction.
TransazioneNonTrovata(w) ==
  /\ pc[w] = "inAttesaEsito"
  /\ certificato # "assente"
  /\ esito[copia[w].inAttesa] = "inCorso"
  /\ Vai(w, "salvaErrore", SegnaIncerta(copia[w]))
  /\ UNCHANGED <<db, ora, scaduta, richiesta, esito, orologio, ambiente, storia>>

\* A missing certificate, a 403, transport errors or a polling that runs
\* out of attempts.
LeggiEsitoFallito(w) ==
  /\ pc[w] = "inAttesaEsito"
  /\ \/ /\ certificato = "assente"
        /\ Vai(w, "salvaErrore", MarkSyncFailed(copia[w], CertMancante))
     \/ \E codice \in {ApiError, Forbidden} :
          Vai(w, "salvaErrore", Fallimento(copia[w], codice))
  /\ UNCHANGED <<db, ora, scaduta, richiesta, esito, orologio, ambiente, storia>>

SalvaEsito(w) ==
  /\ pc[w] = "salvaEsito"
  /\ db' = Salva(db, copia[w])
  /\ Termina(w)
  /\ UNCHANGED <<richiesta, esito, orologio, ambiente, storia>>

\* The save of the outcome, or the save of its log after it, fails: the
\* error lands in the catch meant for the calls to RENTRI, which marks the
\* aggregate as a transport error and saves it.
SalvaEsitoFallito(w) ==
  /\ pc[w] = "salvaEsito"
  /\ copia[w].sync.status # "SYNCED"
  /\ ~Rifiutato(db, copia[w])
  /\ Imprevisto
  /\ db' \in {db, RigaSalvata(db, copia[w])}
  /\ Vai(w, "risalva", Fallimento(copia[w], ApiError))
  /\ Deroga(NuovaPostPossibile(Fallimento(copia[w], ApiError)))
  /\ UNCHANGED <<ora, scaduta, richiesta, esito, orologio, certificato, post,
                 riaperture>>

\* A SYNCED aggregate refuses that mark, so the attempt ends there.
SalvaSincronizzatoFallito(w) ==
  /\ pc[w] = "salvaEsito"
  /\ copia[w].sync.status = "SYNCED"
  /\ ~Rifiutato(db, copia[w])
  /\ Imprevisto
  /\ db' \in {db, RigaSalvata(db, copia[w])}
  /\ Termina(w)
  /\ UNCHANGED <<richiesta, esito, orologio, certificato, storia>>

SalvaErrore(w) ==
  /\ pc[w] \in {"salvaErrore", "risalva"}
  /\ db' = Salva(db, copia[w])
  /\ Termina(w)
  /\ UNCHANGED <<richiesta, esito, orologio, ambiente, storia>>

-----------------------------------------------------------------------------
(* Time and failures of a worker. *)

SuperaSoglia(w) ==
  /\ w \in Lenti
  /\ pc[w] \notin {"fermo", "letto", "prenotato"}
  /\ ~scaduta[w]
  /\ scaduta' = [scaduta EXCEPT ![w] = TRUE]
  /\ UNCHANGED <<db, pc, copia, ora, richiesta, esito, orologio, ambiente, storia>>

\* The process dies, or a read or the write of a catch branch fails: the
\* attempt stops where it is and the row keeps what it has.
Muore(w) ==
  /\ pc[w] # "fermo"
  /\ Imprevisto
  /\ Termina(w)
  /\ UNCHANGED <<db, richiesta, esito, orologio, certificato, storia>>

-----------------------------------------------------------------------------
(* The tenant's certificate. *)

\* upsertForTenant saves the credential and then reopens, with one
\* conditional UPDATE that may fail, the FIRs that were waiting for it.
CaricaCertificato ==
  /\ certificato \in {"assente", "presente"}
  /\ certificato' = "appenaCaricato"
  /\ UNCHANGED <<db, locali, richiesta, esito, orologio, imprevisti, storia>>

RiapriFermiPerCertificato ==
  /\ certificato = "appenaCaricato"
  /\ certificato' = "presente"
  /\ db' = IF /\ db.sync.status = "PERMANENTLY_FAILED"
              /\ db.sync.code = CertMancante
              /\ db.stato # "ANNULLATO"
           THEN [db EXCEPT !.sync = Pending]
           ELSE db
  /\ UNCHANGED <<locali, richiesta, esito, orologio, imprevisti, storia>>

RiaperturaFermiFallita ==
  /\ certificato = "appenaCaricato"
  /\ Imprevisto
  /\ certificato' = "presente"
  /\ UNCHANGED <<db, locali, richiesta, esito, orologio, storia>>

RimuoviCertificato ==
  /\ certificato = "presente"
  /\ Imprevisto
  /\ certificato' = "assente"
  /\ UNCHANGED <<db, locali, richiesta, esito, orologio, storia>>

-----------------------------------------------------------------------------
(* The ente and the other requests. *)

EnteElabora(t) ==
  /\ esito[t] = "inCorso"
  /\ \E e \in {"conNumero", "senzaNumero", "rifiutata"} :
       esito' = [esito EXCEPT ![t] = e]
  /\ UNCHANGED <<db, locali, richiesta, orologio, ambiente, storia>>

\* The query of the reconciliation: SYNCING, and reserved longer ago than the
\* threshold.
Seleziona(r) ==
  /\ "RICONCILIA_SYNCING" \in Operazioni
  /\ richiesta[r].op = Nessuno
  /\ db.sync.status = "SYNCING"
  /\ Vecchia(db.avviato)
  /\ richiesta' = [richiesta EXCEPT ![r] = Selezionata]
  /\ UNCHANGED <<db, locali, esito, orologio, ambiente, storia>>

\* findById and the guards.  The reconciliation comes to a FIR after the ones
\* selected with it, and does not look at its state or its instant again.
Carica(r, op) ==
  /\ richiesta[r].op = IF op = "RICONCILIA_SYNCING" THEN "SELEZIONATA" ELSE Nessuno
  /\ Leggibile(db)
  /\ Ammessa(op, db)
  /\ richiesta' = [richiesta EXCEPT ![r] = [op |-> op, fir |-> db]]
  /\ UNCHANGED <<db, locali, esito, orologio, ambiente, storia>>

\* The row did not allow a new POST; after the save it does, or it looks
\* like a stall that never got its transaction.
RiapreLaPost(riga, nuova) ==
  /\ ~NuovaPostPossibile(riga)
  /\ nuova.inAttesa = 0
  /\ \/ NuovaPostPossibile(nuova)
     \/ /\ nuova.sync.status = "SYNCING"
        /\ riga.sync.status # "SYNCING" \/ riga.inAttesa # 0

\* A user who has checked the portal reopens a failure.
SalvaRiapertura(r) ==
  /\ richiesta[r].op = "RIAPRI"
  /\ db' = Salva(db, [richiesta[r].fir EXCEPT !.sync = Pending])
  /\ riaperture' = IF RiapreLaPost(db, db') THEN riaperture + 1 ELSE riaperture
  /\ riaperture' <= MaxRiaperture
  /\ richiesta' = [richiesta EXCEPT ![r] = Libera]
  /\ UNCHANGED <<locali, esito, orologio, ambiente, post, deroghe>>

SalvaRichiesta(r) ==
  /\ richiesta[r].op \in OperazioniNote \ {"RIAPRI"}
  /\ \E f \in Applica(richiesta[r].op, richiesta[r].fir, esito) :
       db' = Salva(db, f)
  /\ Deroga(RiapreLaPost(db, db'))
  /\ richiesta' = [richiesta EXCEPT ![r] = Libera]
  /\ UNCHANGED <<locali, esito, orologio, ambiente, post, riaperture>>

\* The request gives up: a call failed, the signature was refused, the
\* process died.
Abbandona(r) ==
  /\ richiesta[r].op # Nessuno
  /\ richiesta' = [richiesta EXCEPT ![r] = Libera]
  /\ UNCHANGED <<db, locali, esito, orologio, ambiente, storia>>

-----------------------------------------------------------------------------
Tentativo(w) ==
  \/ Leggi(w) \/ Prenota(w) \/ PrenotazionePersa(w)
  \/ AvviaRifiutato(w) \/ AvviaSuSincronizzato(w) \/ AvviaStalloIncerto(w)
  \/ Avvia(w) \/ AvviaFallito(w)
  \/ Spedisci(w) \/ SpedisciIncerto(w) \/ SpedisciFallito(w)
  \/ Registra(w) \/ RegistraFallito(w)
  \/ LeggiEsito(w) \/ TransazioneNonTrovata(w) \/ LeggiEsitoFallito(w)
  \/ SalvaEsito(w) \/ SalvaEsitoFallito(w) \/ SalvaSincronizzatoFallito(w)
  \/ SalvaErrore(w)

Certificato ==
  \/ CaricaCertificato \/ RiapriFermiPerCertificato
  \/ RiaperturaFermiFallita \/ RimuoviCertificato

Richiesta(r) ==
  \/ Seleziona(r)
  \/ \E op \in Operazioni : Carica(r, op)
  \/ SalvaRiapertura(r) \/ SalvaRichiesta(r) \/ Abbandona(r)

Next ==
  \/ \E w \in Workers : Tentativo(w) \/ SuperaSoglia(w) \/ Muore(w)
  \/ \E r \in Richieste : Richiesta(r)
  \/ \E t \in Transazioni : EnteElabora(t)
  \/ Certificato

Spec == Init /\ [][Next]_vars

\* Every 30 minutes RentriTrasmissioniSospeseJob queues the reservations
\* older than the threshold, and the queue runs what it is given; an attempt
\* under way goes on: calls, retries and polling are all bounded.
Prosegue(w) == pc[w] # "fermo" /\ Tentativo(w)

RiprendeSospesa(w) ==
  /\ db.sync.status = "SYNCING"
  /\ Vecchia(db.avviato)
  /\ Leggi(w)

Equita ==
  /\ \A w \in Workers : WF_vars(Prosegue(w))
  /\ WF_vars(\E w \in Workers : RiprendeSospesa(w))

FairSpec == Spec /\ Equita

-----------------------------------------------------------------------------
(* Properties. *)

\* The steps in which an attempt may talk to the ente about this FIR.
InCorso(w) == pc[w] \in {"prenotato", "daSpedire", "daRegistrare", "inAttesaEsito"}

\* At most one attempt younger than the stall threshold is under way on a
\* FIR, whatever jobs, retries and resumptions overlap: the promise of
\* prenotaTrasmissioneRentri ("fa passare un solo tentativo alla volta").
UnSoloTentativo ==
  \A v, w \in Workers :
    InCorso(v) /\ InCorso(w) /\ ~scaduta[v] /\ ~scaduta[w] => v = w

\* At most one formulario per FIR, "anche con job concorrenti, polling
\* scaduti, 5xx sulla POST e worker morti a meta'": the ente accepts one
\* POST, plus one for each failure that a user reopened, plus one for each
\* exception (deroga) listed with the variables.
CreazioniAutorizzate == post <= 1 + riaperture + deroghe

\* Both promises as one abstract machine: the attempts younger than the
\* threshold take turns, and what the ente creates was permitted first.
Promessa == INSTANCE FormularioUnico
  WITH attivi   <- {w \in Workers : InCorso(w) /\ ~scaduta[w]},
       creati   <- post,
       permessi <- 1 + riaperture + deroghe

\* The transmission, with its jobs, requests, crashes and timeouts,
\* implements FormularioUnico.
FormularioUnicoRispettato == Promessa!Spec

\* The official link that says TRASMESSO_DA_NOI, and the proposal that
\* waits for a user, carry a number the ente gave to one of our POSTs,
\* whichever attempt, resumption or reconciliation wrote them.
LegameAutentico ==
  /\ db.origine = "TRASMESSO_DA_NOI" =>
       db.numero \in Transazioni /\ esito[db.numero] = "conNumero"
  /\ db.proposto # 0 =>
       db.proposto \in Transazioni /\ esito[db.proposto] = "conNumero"

\* A live attempt younger than the threshold keeps its reservation: no save
\* of a copy loaded before it, and no other attempt, replaces it or releases
\* it (conservaAnnullamentoEnte).  The one write that may come under it is the
\* reconciliation's, which closes a transmission it had selected as stalled
\* before the reservation.
PrenotazioneRispettata ==
  [][\A w \in Workers :
       InCorso(w) /\ ~scaduta[w] /\ InCorso(w)' =>
         /\ db'.sync.status \in {"SYNCING", "SYNCED"}
         /\ db'.avviato = ora[w]]_vars

\* No POST leaves while the row has a transaction still to be read, unless
\* the attempt that sends it has outlived the threshold.
NessunaPostConTransazioneAperta ==
  [][post' # post =>
       \E w \in Workers :
         /\ pc[w] = "daSpedire"
         /\ pc'[w] # "daSpedire"
         /\ scaduta[w] \/ db.inAttesa = 0]_vars

\* A transmission left SYNCING by a worker that died, or whose save was
\* lost, does not stay so for ever: RentriTrasmissioniSospeseJob has it
\* resumed or closed.  A FIR that was cancelled or linked meanwhile is
\* outside the promise: its reservation is not taken again.
Sospesa ==
  db.sync.status = "SYNCING" /\ Trasmissibile(db) /\ ~db.annullatoEnte

SospeseRiprese == []<>~Sospesa

\* A cancellation is final: no copy loaded before it brings back a FIR that
\* was cancelled here, or that the ente has cancelled.
AnnullamentiDefinitivi ==
  [][/\ db.stato = "ANNULLATO" => db'.stato = "ANNULLATO"
     /\ db.annullatoEnte => db'.annullatoEnte]_vars
=============================================================================
