# Rifiuti: verification of the FIR, its RENTRI protocols and the register

Rifiuti manages waste-transport documents (FIR, *formulario*) for Italian
companies. From 2025 every FIR has to be created at a national registry,
RENTRI, here called the *ente*. The creation is asynchronous (a POST answered
with a transaction, then polling), it cannot be repeated without creating a
second legal document, and it is driven by overlapping jobs, users and
periodic repairs that share one database row per FIR. That is where this
program is hard to get right and hard to test, and where this project starts.
The second part is the register of loads and discharges, an immutable legal
ledger written by concurrent transactions. The third is everything else that
writes the row of a FIR: its life cycle with numbers and signatures, and the
protocols that keep it in step with a formulario already at the ente; and the
limiter that the calls of `RENTRIApiClient` and of the interrogation of a signature
pass through.

The sources are under `src/apps/backend/src/`; paths below are relative to it.

## 1. Inventory

| Component | Source | State it keeps | Operations | What makes it hard |
|---|---|---|---|---|
| Sync status (value object) | `domain/fir/rentri-sync-status.vo.ts` | status, failed attempts, last error code | mark as syncing / synced / failed, reopen, canRetry | which codes are final, the fifth attempt |
| FIR aggregate | `domain/fir/aggregates/fir.aggregate.ts` | life-cycle state, sync status, instant of the attempt, transaction in progress, official number and its origin, proposed number, state at the ente | presa in carico, conferma consegna, annulla, link, release, apply the ente's state | one object written by a dozen use cases |
| FIR repository | `infrastructure/persistence/fir-prisma.repository.ts` | the table `firs` | findById, save, conditional UPDATEs (reservation, transaction), list of stalled rows | `save` writes a whole aggregate that may be old |
| Transmission | `application/rentri/sync-fir-to-rentri.use-case.ts` | log of the attempt | reserve, read again, POST, register, poll, save | crash or error between any two awaits, uncertain POST |
| Queue and worker | `infrastructure/queue/rentri-sync.queue.ts`, `queue/jobs/rentri-sync.job.ts` | BullMQ jobs | addSyncJob, addBatchJob, cancelJob, process single / batch | four round trips per addSyncJob, two retry counters |
| Resumption | `infrastructure/jobs/rentri-trasmissioni-sospese.job.ts` | none | list at most 100 stalled rows, queue them | starvation, repeated deaths |
| Reconciliation | `application/rentri/riconcilia-stato-rentri.use-case.ts` | none | close stalled rows whose outcome exists, apply the ente's state | acts on rows selected long before |
| Credential | `infrastructure/rentri/rentri-credential.service.ts` | certificate of the tenant | upload (then reopen the stopped FIRs), remove, look up | upload racing a failing attempt |
| RENTRI client | `infrastructure/rentri/rentri-api.client.ts`, `rentri-http-resilienza.ts` | none | POST, polling, retries | telling a refusal from an uncertain creation |
| Limiter | `infrastructure/rentri/rentri-rate-limiter.service.ts` | two sorted sets per tenant in Redis | acquire, wait, release, state | several clocks, deaths, callers that nest |
| Linkage | `application/rentri/{cerca,acquisisci,crea-fir-da-dettaglio,rilascia}-...` | link columns | search, acquire at the ente then save, release | two systems, no transaction over both |
| Signed operations | `application/rentri/{annulla-fir-rentri,accetta-o-respingi-fir,completa-operazione-con-firma,gestisci-allegati-fir}` | pending operation | prepare, remote signature, complete | long wait between load and save |
| FIR life cycle | `application/fir/use-cases/` | FIR | create, issue (atomic number), presa in carico, consegna, annulla | numbering, concurrent saves |
| Signatures | `application/signatures/`, `infrastructure/signatures/`, `domain/fir/fir.aggregate.ts` | rows of `fir_signatures` | sign the document, apply a qualified signature, verify | two subsystems write one table, order checked on old rows |
| Fake ente | `src/tools/rentri-fake/` | formulari, transactions, visibility | offer operations, settle transactions | the reference for what the ente does |
| Stock of stamped numbers | `application/rentri/scorta/`, `infrastructure/persistence/rentri-scorta.repository.ts` | blocks and numbers | replenish by transaction, consume one | two issues taking one number, double replenishment |
| Register of movements | `application/registro/`, `domain/waste-movement/` | movements with their progressive, first number of each year | record a movement, set the first number | numbering, stock and copies of a FIR under three advisory locks, retries after a lost answer |
| Permissions and consultants | `domain/identity-access/`, `api/guards/permission.guard.ts` | grants, associations | grant, revoke, expire | expiry and revocation racing a request, caches |
| Tasks, notifications, MUD, billing | `application/services`, `application/notifications`, `application/mud`, `application/billing` | their rows | assign, escalate, submit, enforce quotas | check-then-act |
| Caches, SPID, e-mail, PDF, monitoring, frontend | see `PROJECT.json` | - | - | cryptography or pure I/O, not protocol |

How they interact: a FIR is issued; `TrasmettiFIRSecondoModalitaUseCase` queues
a job (modes AUTOMATICA and IBRIDA) or marks the FIR when the tenant has no
certificate; a worker runs `SyncFIRToRENTRIUseCase`; users queue the same
transmission by hand or in batch; the resumption queues stalled rows again; the
reconciliation may close a row directly; meanwhile drivers, receivers and users
load, change and save the same FIR. The row is the only thing they share, and
one conditional UPDATE (the *reservation*, `rentri_sync_avviato_at`) is the only
lock.

The register is separate: operators record movements, possibly linked to a FIR
that is issued or annulled meanwhile, and an administrator may set the first
number of a year. Each is one PostgreSQL transaction at READ COMMITTED, and
`pg_advisory_xact_lock` on a hash of a string is the only thing that orders them.

What makes the core correct: one attempt at a time; at most one formulario per
FIR unless a user who checked the portal asked for another; the official link
is a number the ente gave us and is not lost; a cancellation is final; a
transmission interrupted anywhere is resumed; a request that was accepted is
served. What makes the register correct: numbers without gaps or repetitions; no
discharge of waste that is not there; a FIR copied once for each kind of
movement, and a repeated request recognised. What makes the rest correct: a
number given to one FIR; no state without its signature; the ente and the row
in agreement on who follows which formulario, and final states that come from
the ente and stay; no more calls than the ente allows, and nobody waiting for
ever. `PROJECT.json` lists the hazards line by line.

## 2. Modules

| Module | Models | Kind |
|---|---|---|
| `RentriSyncStatus` | the value object: pure operators | data |
| `FirTrasmissione` | one FIR: row, workers, other requests, certificate, ente | detailed specification |
| `FormularioUnico` | what the transmission promises | abstract specification |
| `FirTrasmissioneInv` | the inductive invariant in named parts | invariant |
| `FirTrasmissioneProof` | theorems about `FirTrasmissione` | proofs |
| `MCFirTrasmissione` | instances for TLC, claims of the comments that fail | model checking |
| `TrasmissioniSospese` | the resumption over many FIRs | detailed specification |
| `TrasmissioniSospeseProof` | theorems about `TrasmissioniSospese` | proofs |
| `RentriSyncQueue` | addSyncJob, the worker and BullMQ, seen from one FIR | detailed specification |
| `RentriSyncQueueProof` | theorems about `RentriSyncQueue` | proofs |
| `GiacenzaDisponibile` | the stock query and the units: pure operators | data |
| `RegistroMovimenti` | concurrent transactions on the register of one tenant | detailed specification |
| `RegistroCronologico` | what the register promises | abstract specification |
| `RegistroMovimentiProof` | theorems about `RegistroMovimenti`: numbering, copies, order of the locks | proofs |
| `RegistroGiacenzaProof` | more of them: sums over the rows, stock, the refinement of `RegistroCronologico` | proofs |
| `MCRegistroMovimenti` | instances for TLC | model checking |
| `CicloDiVitaFir` | several FIRs, their numbers and signatures, overlapping requests | detailed specification |
| `CicloDiVitaFirProof` | theorems about `CicloDiVitaFir` | proofs |
| `MCCicloDiVitaFir` | instances for TLC | model checking |
| `FormulariEnte` | FIRs and the formulari of the ente they are linked to | detailed specification |
| `FormulariEnteProof` | theorems about `FormulariEnte` | proofs |
| `MCFormulariEnte` | instances for TLC | model checking |
| `RentriRateLimiter` | the limiter and its two nested callers | detailed specification |
| `RentriRateLimiterProof` | theorems about `RentriRateLimiter` | proofs |
| `MCRentriRateLimiter` | instances for TLC | model checking |

The row of a FIR is seen by three modules, each with the columns its questions
are about: `FirTrasmissione` (one FIR, the reservation), `CicloDiVitaFir` (number,
state, transport date, signatures of several FIRs), `FormulariEnte` (link and
state at the ente). All three have the same shape, a request that loads a copy,
waits and saves the whole copy, because that is how every use case is written.

Names are those of the source (Italian) where TLA+ allows it.

### FirTrasmissione

`db` is the row, reduced to the columns the protocol reads: life-cycle state,
sync status (a record of `RentriSyncStatus`), `avviato` = `rentri_sync_avviato_at`,
`inAttesa` = `rentri_transazione_in_attesa`, `transazione` = `rentri_transazione_id`,
`numero` and `origine` of the link, `proposto`, `annullatoEnte`.

A *worker* is one execution of `execute()`. Its `pc` names the await it is at,
`copia` is the aggregate it holds and `ora` the instant of its reservation:
`letto` (after findById), `prenotato` (after the UPDATE), `daSpedire`,
`daRegistrare` (202 received, transaction in memory only), `inAttesaEsito`
(polling), `salvaEsito`, `salvaErrore`, `risalva` (the catch after a failed save).
Actions between two steps are the code between two awaits: `Leggi`, `Prenota` /
`PrenotazionePersa`, `Avvia` / `AvviaStalloIncerto` / `AvviaRifiutato` /
`AvviaSuSincronizzato` / `AvviaFallito`, `Spedisci` / `SpedisciIncerto` /
`SpedisciFallito`, `Registra` / `RegistraFallito`, `LeggiEsito` /
`TransazioneNonTrovata` / `LeggiEsitoFallito`, `SalvaEsito` and its failures,
`SalvaErrore`, `Muore`.

A *request* is any other use case on the FIR: it loads (`Carica`), waits, applies
one domain method (`Ammessa`, `Applica`) and saves (`SalvaRichiesta`,
`SalvaRiapertura`), or gives up (`Abbandona`). The reconciliation of a stalled row
first selects it (`Seleziona`) and comes back to it later without looking again.

`Salva` is the repository's save with `conservaAnnullamentoEnte`: refused on a row
cancelled meanwhile, 'Annullato' of the ente kept, transmission columns kept
when the row has a reservation the aggregate does not know, everything else
overwritten.

The ente accepts POSTs (`Accettata`, also for a POST whose answer is lost) and
decides each transaction later (`EnteElabora`).

History variables: `post` counts accepted POSTs, `riaperture` the reopenings by a
user who checked the portal, `deroghe` the exceptions below. They are in no
guard except through the bounds.

Modelling decisions:

- *Time.* One clock. Each reservation takes the next value of `orologio`;
  instant and UPDATE are one step. An attempt is older than the threshold
  (15 minutes) when its worker is gone or is marked `scaduta`; only a worker past
  its database steps gets so old. The time between a worker's first read and its
  reservation is shorter than the threshold (the code says so at
  `sync-fir-to-rentri.use-case.ts:123-126`); the delay between the reconciliation's
  selection and its load is not bounded.
- *Queue.* In this module any worker may start at any time; the queue has its own.
- *Mode.* Whether the link needs a confirmation is chosen when the outcome is
  read, from the constant `Conferme`.
- *Error codes.* RENTRI_RATE_LIMITED is not told apart from RENTRI_API_ERROR.
- *Start.* The FIR is EMESSO, either ready or already marked for a missing
  certificate by `TrasmettiFIRSecondoModalitaUseCase`. That this mark is a load and
  save racing a manual transmission is a hazard without property.
- `FIRRepository.delete` has no caller and is left out. Building the payload
  does not raise the missing-certificate error, so those branches are left out.
- Confirming a link (`CONFERMA_LEGAME`) is modelled, and never possible: finding
  `PropostaPersa`.

`deroghe` counts three situations in which a new POST becomes possible although
nothing allowed one and nobody checked:

1. the outcome was read, its save or the save of its log failed, and the catch
   meant for the HTTP calls made it retryable (`SalvaEsitoFallito`);
2. a request saved a copy that brings the row back to a state without the
   transaction (`SalvaRichiesta`): it was loaded under the same reservation;
3. a stall without transaction was released as FAILED because the FIR could not
   start any more, and can start again later (`AvviaRifiutato`).

`CreazioniAutorizzate` is thus the promise "one formulario per FIR" with its exact
exceptions; `PostUnico`, without them, is violated (finding `PostDoppia`).

### TrasmissioniSospese

`riservate` is the list of SYNCING rows by instant of reservation, `vecchie` how many
of them are past the threshold, `coda` the FIRs with a waiting job, `inEsecuzione`
those whose reservation is held by a live attempt. `Riprendi` is a round of the
job, `Elenco` its query, `Esegui` an attempt that wins the reservation (the row
moves to the end), `Conclude` / `Interrompe` its end or death. `TurnoRispettato` speaks
of the rows before that of a FIR (`Precedenti`): every reservation rewrites the
instant the query orders by, so while a FIR waits they can only diminish.

The query asks less than the reservation. `Elenco` takes every old SYNCING row;
`Prenotabile`, the WHERE of `prenotaTrasmissioneRentri`, also wants no number (`legati`
holds the rows linked by hand, `trasmessi` the SYNCED ones), no CANCELLED (`annullati`)
and no 'Annullato' of the ente (`annullatiEnte`). `Aggancia`, `Annulla` and `AnnullaEnte`
leave the columns of the transmission alone, so a row may become not reservable
while it is SYNCING with a dead worker; of a cancelled one even the save of a live
attempt is refused. Such a row (`Intasanti`) is listed, queued and skipped at every
round. `Rilascia` makes a linked one reservable again. `SospeseRiprese` names these rows
as the one thing that may stop the others: as many of them as a round takes, ahead
of the FIR that waits; or fewer, if a link is made and released for ever around
the moments when their jobs run, which is the premise of the property. A row that is
not SYNCING is PENDING or FAILED; one PERMANENTLY_FAILED is not told apart, as if it were
always reopened, which only adds reservations to the list. The close by the reconciliation is in `FirTrasmissione` only: it
would take rows off the list.

### RentriSyncQueue

One FIR: its sync status, the job `sync-<firId>`, where `processSingleSync` is, a batch
that may hold the reservation, and overlapping calls of `addSyncJob`, each with
its steps (`Cerca` = getJob, `Restituisce` / `Decide` = getState, `Toglie` = remove,
`Aggiunge` = add). BullMQ is external: add with an existing id does nothing,
remove acts on the id and throws on an active job, a throwing job goes back to
waiting until its attempts are used up, a job whose worker dies goes back once,
and the outcome of `moveToFailed` called from inside the job is left open.
`LetturaFallita` is an attempt that fails before it has seen the row: it serves nobody,
and at the last attempt of the job the request is lost.
History: `accolta` says what the last answered request counts on, `promessa` that a
request for confirmation was answered, `sola` and `servita` what a call saw go by.

### RegistroMovimenti

`registro` is the set of committed rows of `waste_movements` (year, number, kind,
waste, quantity, unit, day, FIR, and whether `fir_id_ricopia` is set), `iniziale`
the first number chosen for each year. A *transaction* is an execution of
`RegistraMovimentoUseCase` or of `ProgressivoInizialeService.imposta`; its `pc` is the
next statement, `annoDi`, `numero` and `avviso` its local variables, `blocco` who holds
each advisory lock. One action is one statement:

- `Invia` / `Riprova`: the controller takes the instant of registration, and with it
  the year; a client that got an error sends the same command again, in whatever
  year it is by then;
- `LeggeFir`: the check of the linked FIR, outside the transaction;
- `BloccaFir`, `LeggeRicopie`: the copies of that FIR; the same data again is
  answered with the row already there;
- `BloccaAnno`, `BloccaGiacenza`, `VerificaGiacenza`: numbering lock, stock lock and
  stock check, with the warning on the dates or on the units;
- `LeggeMassimo`, `LeggeIniziale`, `Inserisce`: the number and the row. The insert
  and the commit that follows it are one step: the row is invisible in between;
- `ChiedeIniziale`, `BloccaAnnoIniziale`, `LeggeEsistente`, `LeggePrimo`,
  `CreaIniziale`: the administrator's transaction;
- `Fallisce`: any statement may fail (timeout of the transaction, restart): rollback,
  locks released. `Inserisce` may also commit with its answer lost.

`Emette` / `Annulla` move the FIRs and `CambiaAnno` turns the year under all of it.
The locks are `Hash[key]`, so that two keys may share a lock; the runs use distinct
ones, the proofs any function.

`RegistroCronologico` has two actions, append a covered movement with the next number
and set the first number of an empty year. `RegistroCronologicoRispettato` says that
the interleaved transactions implement it.

Abstractions: quantities are small naturals (the DTO allows two decimals, which the
column keeps, so the tolerance of the comparison has nothing to absorb); the
aliases of a unit are one name; a year is a number and a day is a natural shared by
all years; rows that exist at the start (`Storici`) are a finite table, assumed numbered by the
same rule; nothing is assumed of the stock they leave.

### CicloDiVitaFir

`firs` is the table (state, number, whether linked, transport date), `firme` the
rows of `fir_signatures` of each FIR: role, who signed and which version of the
document. The only field of the signed document that the program changes later is
the transport date, which the presa in carico writes, so a version is the
request that wrote it.

A request is one execution of a use case. `Carica` is findById of the repository it
uses; `FirmaDocumento` the signature over the row as it is then, with the year read
after it; `Emetti` is `emettiConNumerazione` (one transaction: lock of the year, lock
and status of the row, MAX + 1, domain method, whole-row save, signature); `Salva` the
others (domain method on the copy, `save` with its refusal on an annulled row);
`VerificaRuolo` and `InserisciFirma` the two statements of `SignatureFIRRepository.save`;
`Rinuncia` any failure or crash, which writes nothing. `Capodanno` turns the year.

The history says what saves from old copies have done: `cancellati` the numbers they
took off a row, `sovrascritti` the FIRs they touched. The properties are stated with
these exceptions and no others: `Numerazione` holds but for a number that was taken
off, `CoerenteSenzaSovrapposizioni` on the FIRs not touched, and `StatoFirmato`,
`OrdineDelleFirme` and `FirmeConservate` with no exception at all.

Left out: the qualified signatures need SPID and a party of the FIR (`ConParti`: the
producer always is one, carrier and receiver only when they are users); their
status update (`updateStatus`) is not saved by that repository.

### FormulariEnte

`ente` gives each formulario its state, the operation that waits for a signature, the
note and whether our site sees it; `firs` the link columns of the rows; a request
is one execution of a use case, with the copy it holds.

- Acquisition: `Cerca` (what the user saw), `PreparaAcquisizione` (preconditions),
  `AcquisisciVisibilita` (the ente), `SalvaAggancio` (the row). Release:
  `CaricaRilascio`, `RilasciaVisibilita`, `SalvaRilascio`.
- Actions: `CaricaAzioni`, `LeggiAzioni`, `SalvaAzioni` are `GetAzioniDisponibili`, which
  writes the state it read; acceptance and annulment go on from there with a
  transaction at the ente, `CaricaFirma`, `Firma`, `LeggiStato`, `SalvaFirma`
  (`CompletaOperazioneConFirma`), and for an annulment the actions again and
  `SalvaNota`.
- `Interrompe` ends a request anywhere, `PerdeRisposta` loses the answer of a change
  of visibility that was made. A transaction goes on without its request
  (`Finita`, `Accoglie`, `Respinge`).
- `EnteAvanza` is what other parties do. What the ente offers and does is
  taken from the fake registry of the repository.

`sospetti` are the formulari whose visibility was changed by a request that did not
finish, by two requests at once, or by a link on the word of an old search; `vecchie`
the FIRs saved from an old copy. `VisibilitaSpiegata` says that nothing else
leaves the two sides apart.

The row of an acceptance and that of a partial refusal are one outcome here, as they
are in `mapStatoFormularioToFIRStato`.

### RentriRateLimiter

`volume` and `concorrenza` are the two sorted sets, `proc` the calls of a tenant.
Time is relative: `Passo` makes every entry older by one, and a script runs with a
clock that is up to `Ritardo` late, which covers both the way to Redis and the
difference between the clocks of the machines. `Acquisisci` and `Attende` are the two
outcomes of the script, `StatoAttuale` the diagnostics, which prune too.

A call made by `interrogaAutorizzazione` takes a place (attempt 0), then goes through
the client, which takes another for each attempt. `Muore` leaves places behind; a
process in `Guastabili` may also fail to release.

The assumptions are the ones the limits rest on: a delay shorter than the window,
and a call plus a delay shorter than the life of a place (60 s; the client's
timeout is 30 s). The outer place of an interrogation may live longer than
that, and the model lets it expire: it counts only as a place, not as a call.

The limits are about those who acquire, and only `RENTRIApiClient` (`conRateLimiter`)
and `interrogaAutorizzazione` do. The clients of vidimazione, anagrafiche, codifiche,
registri, trasmissioni, copie and xFIR call the ente for the same tenant without the
limiter ("senza rate limiter", `rentri-trasmissioni.client.ts:42`): how many calls
of a tenant the ente sees in all is bounded by nothing here.

## 3. Runs

| Run | Instance | Shows |
|---|---|---|
| `Tentativi` | 2 workers (both may outlast the threshold), 1 request, 2 POSTs, 2 reservations, 1 reopening, 1 exception, 1 failure; 1.4 M states | `UnSoloTentativo`, `CreazioniAutorizzate`, `PrenotazioneRispettata`, `NessunaPostConTransazioneAperta`, the inductive invariant, the refinement of `FormularioUnico` |
| `Legame` | 1 worker, 2 requests of every kind, both modes; 5.6 M states | `LegameAutentico`, `AnnullamentiDefinitivi` |
| `Ripresa` | 2 workers, 2 failures, fairness; 14 reservations, never reached | `SospeseRiprese`: no SYNCING row for ever |
| `Sospese` | 3 FIRs, 2 per round, fairness; 0.26 M states | `TurnoRispettato`: no FIR left behind is overtaken, and a round leaves one out only when it is full; `SospeseRiprese`: no starvation, unless rows that cannot be reserved are ahead and fill a round, or links are released for ever |
| `Coda` | 2 overlapping calls, 3 attempts, 1 reopening, 1 failure, fairness; 1 M states | a queued request is served by an attempt that reads the row, a request for confirmation is kept, the two retry counters agree, the inductive invariant |
| `PropostaPersa` | 1 worker, IBRIDA | violated: the row with a proposal cannot be loaded |
| `PostDoppia` | 1 worker, 1 failed write | violated: two POSTs without a reopening |
| `Registro` | 2 requests and an administrator, 3 commands sent in all, 2 years, 1 FIR, 1 waste, 3 starting registers; 0.96 M states | contiguous progressives, indexes never hit, stock respected, retries recognised, no circular wait, the inductive invariant, the refinement of `RegistroCronologico` |
| `RegistroVivo` | 3 requests at once, one year, fairness; 82 K states | every execution ends without counting on timeouts |
| `CicloDiVita` | 4 requests of any kind on 2 FIRs, one with all its parties, 2 years; 0.48 M states | `Numerazione`, `StatoFirmato`, `OrdineDelleFirme`, `FirmeConservate`, `CoerenteSenzaSovrapposizioni` |
| `Formulari` | 3 requests, one of them signed, 2 FIRs, 2 formulari, every initial link; 2.5 M states | `VisibilitaSpiegata`, `EsitoDellEnte`, `TerminaliConservati` |
| `Limitatore` | 2 interrogations (one may die) and a retried call, 2 places, volume 3 in a window of 3, delay 1; 0.43 M states, fairness | `VolumeRispettato`, `InVoloLimitate`, `AttesaFinita` |

Why the bounds are enough: the conflicts are between pairs (two attempts, an
attempt and a request), so two of each with one more reservation than an
interference needs already shows them; each mutant listed in `PROJECT.json` is
found by its run within seconds. `MaxTentativi` is 5 in the code; 2 and 3 reach the
exhaustion of the attempts just as well. In `Ripresa` the bound on
reservations is above what the other bounds allow, so it never stops the
system. In `Registro` the commands are chosen to meet: a load, a discharge that copies
the FIR and consumes all of it, and a discharge without FIR dated before the load;
the starting registers give enough stock for one of the discharges, or loads in
litres that make it undecidable, or an old copy of the FIR with other data. Two
transactions and the administrator take every pair of locks in conflict; a third
command is the retry. In `CicloDiVita` four requests are enough for the longest stories:
an old copy, the issue it overwrites, a second issue and a fourth request that
meets it; or all three roles and a copy loaded before them. In `Formulari` one signed
operation (`ConFirma`) meets two requests of any other kind: two signed ones at once
differ from one and the ente's other parties only in who moves the formulario.
In `Limitatore` the two interrogations can take both places and wait for a second
each; with a volume of 3 and a window of 3 both limits refuse. The constants of the
code (30 calls in 5 s, 3 places, 60 s, 5 attempts) are covered by the proofs.
`CHECK_DEADLOCK FALSE` everywhere: a transmission that is
closed, or a register whose clients are done, really has nothing left to do.

Symmetry is used in `Tentativi` (workers), `Legame`, `CicloDiVita` (requests) and
`Formulari` (FIRs, formulari, requests of a kind), which check no liveness.

### Fairness

- `Prosegue(w)`: an attempt under way goes on. Calls have timeouts, retries and
  polling are bounded, so every await ends; a worker that dies does so by the
  action `Muore`, which is not fair.
- `RiprendeSospesa`: the resumption runs every 30 minutes and queues the stalled
  row, the queue runs it. Only the resumption is fair: nothing forces a FAILED
  row to be retried (section 5, the batch).
- `TrasmissioniSospese`: rounds come, time passes, queued jobs run, attempts end
  or die. Users and the ente (links, releases, cancellations) are not fair.
- `RentriSyncQueue`: calls and attempts end, the batch gets to its FIR's outcome, and
  (strong fairness) a job that keeps coming back to waiting is taken; without
  it, users replacing the job for ever would be a counterexample.
- `RegistroMovimenti`: a statement that can run runs (weak fairness), and a waiting
  transaction is granted its lock in the end (strong fairness): PostgreSQL queues
  the waiters of a lock. New requests and failures are not fair.
- `RentriRateLimiter`: a process that lives goes on (its waits are timers, its
  HTTP calls have a timeout) and time passes, both weak. No script is assumed to
  succeed: Redis queues nobody, and a call that asks again just after another has
  taken the place is refused again. `AttesaFinita` holds because every other call
  ends: attempts are bounded and there are finitely many calls. Against an
  endless stream of new calls the limiter promises nothing, and neither does the code.

## 4. Proofs

`FirTrasmissioneProof` proves, for any finite set of workers, any requests,
operations, modes and bounds (the `ASSUME`s of the modules, nothing else):

- `TipiCorretti`: `Spec => []TypeOK`;
- `InvarianteInduttivo`: `Spec => []IInv`;
- `UnoSolo`: `Spec => []UnSoloTentativo`;
- `CreazioniContate`: `Spec => []CreazioniAutorizzate`;
- `RiservaRispettata`: `Spec => PrenotazioneRispettata`;
- `ImplementaFormularioUnico`: `Spec => FormularioUnicoRispettato`.

Why an inductive invariant is needed: that two attempts are not under way
together follows from what each *knows* of the row, not from any variable
that says so. `IInv` says it in parts:

- `Istanti`: the row carries the last instant; no copy knows a later one; two
  live attempts have different instants;
- `Codifica`: a final code means a final status, on the row and on every copy;
- `Copie`: what each step knows of its copy;
- `Prenotazioni`: while a young attempt counts on the last reservation the row is
  SYNCING (or closed by the reconciliation), and so is every copy loaded since.
  This is what makes a stale save harmless: an older copy does not write these
  columns, a copy of the same instant writes SYNCING back;
- `Conto`: POSTs sent, plus the attempts about to send one or to save a failure
  after which another may follow (`Titolari`), plus one if the row itself allows a
  POST (`PostPossibile`), are at most 1 + reopenings + exceptions. Each action moves
  a unit between these terms or pays for it.

The file goes bottom-up: types of the operators, their effects on status, code
and transaction, then classes of actions (those that only move a worker, those
that end it, those of a request, those of the environment) with one lemma per
class for `Forma` (the first four parts) and one for `Conto`, and the temporal
theorems last.

It adds, over `IInv`:

- `AnnullamentiFinali`: `Spec => AnnullamentiDefinitivi`;
- `LegameSempreAutentico`: `Spec => []LegameAutentico`;
- `TransazioneLettaPrimaDellaPost`: `Spec => NessunaPostConTransazioneAperta`.

The first needs no invariant: a save either is refused or keeps both annulments. The
second has `Legami`: the row and every copy carry only numbers the ente gave, since any
copy may be saved, and a POST not yet sent has no outcome. The third has `Attese`: once
an attempt that holds the last reservation is about to send, the row and every copy a
request took under that reservation (`Recenti`, the only ones a save may write over
those columns) have no transaction to be read. Until it starts they agree on the
transaction, because only the holder registers one; a closed transmission has none
(`Chiusa`), and a copy older than the reservation does not write it.

`RentriSyncQueueProof` proves for the queue, for any set of callers:

- `CodaTipi`: `Spec => []TypeOK`;
- `CodaInvariante`: `Spec => []CodaInv`;
- `RiproveConcordi`: `Spec => []RiproveSufficienti`;
- `ConfermaMantenuta`: `Spec => []ConfermaRispettata`.

`CodaInv` is inductive in four parts. `RigaTentabile`: a row that is not closed has
attempts left and is SYNCING under whoever tries. `RiproveContate`: as long as
nothing broke and nobody reopened the FIR, it has counted at least the attempts
the job has used up; with `MaxTentativi <= MaxRiprove` (5 and 5 in the code) the job
cannot give up first. `SolaSa`: a call that no other overlaps knows the job that
is there, or that there is none. `PromessaTenuta`: a job that carries a promise is
alive, has the flag, and no call is past the point where it would remove it.

`TrasmissioniSospeseProof` proves for the resumption, for any finite set of FIRs and any
size of the round:

- `SospeseTipi`: `Spec => []TypeOK`;
- `TurnoSempreRispettato`: `Spec => TurnoRispettato`.

It is a proof about lists without repetitions, where an element has one place
(`PostoUnico`): taking one out moves the others at most one place forward and keeps their
order (`ListaSenza`), a row that enters at the end is before nobody (`EntraInCoda`), and
there are as many rows before one as its place less one (`QuantiPrecedenti`). With it
`SospeseRiprese` has its reason for every number of FIRs: the rows before one that waits
are the measure that decreases, unless they stay because they cannot be reserved; that
they do decrease is fairness, and model-checked.

`RegistroMovimentiProof` proves for the register, for any sets of clients,
administrators, FIRs, years and commands, any starting register numbered by the
rule, and any hashtext:

- `RegistroTipi`: `Spec => []TypeOK`;
- `NumerazioneInvariante`: `Spec => []NumerazioneInv`;
- `ProgressiviSenzaSalti`: `Spec => []ProgressiviContigui`;
- `InserimentiSenzaConflitto`: `Spec => []IndiciMaiViolati`;
- `RitentativoSempreRiconosciuto`: `Spec => RitentativoRiconosciuto`;
- `SenzaAtteseCircolari`: `Spec => []NessunaAttesaCircolare`, under `FamiglieDistinte`:
  hashtext may confuse two years, two FIRs or two wastes, which only makes them
  wait more, but not a FIR with a year or a waste: with such a collision the fixed
  order of the locks is lost and PostgreSQL would have to abort a transaction.

Contiguity is not inductive: a transaction writes a number it computed two
statements before. `NumerazioneInv` adds `LucchettiTenuti` (past a lock, one holds it) and
`LettureValide` (the maximum, the first number, the absence of copies and the
emptiness of the year are still what was read). The second is preserved because of
the first: a transaction that writes, and another past the numbering lock of the
same year, or past the lock of the same FIR, would be the same one (`UnaSola`). The
file has one lemma per shape of step (end, go on, lock), one on the invariant of a
transaction that does not move, one per action, and the insertion in three parts:
the row is new (`RigaNuova`), it continues its year (`RigaContigua`), the others do not
see it (`AltriNonVedono`). The order of the locks has an invariant of its own,
`OrdineInv`: a lock is held only past the statement that takes it.

`RegistroGiacenzaProof` proves the rest of it, for the same parameters and any finite
starting register:

- `RegistroInvariante`: `Spec => []RegistroInv`;
- `GiacenzaSempreRispettata`: `Spec => GiacenzaRispettata`;
- `SaldoMaiSottoZero`: `Spec => []SaldoCoperto`, where `SaldoCoperto` is stated beside the
  proof: no balance of a waste is below zero unless that waste has loads not by mass.
  It assumes the same of the starting registers (`StoriciCoperti`);
- `RegistroImplementaCronologico`: `Spec => RegistroCronologicoRispettato`.

A discharge reads the stock, then three statements that look elsewhere, then writes.
`GiacenzaLetta`, the second part of `RegistroInv`, says that meanwhile it holds the lock of
its waste, and that the rows still cover it (`Copre`) as its warning says: on the whole
and on every day from its own, on the whole only, or not decidably. What others write
in between keeps that true for one of two reasons (`CopreAncora`): a load, or a row of
another waste or in litres, takes nothing; a checked discharge of the same waste
would hold the same lock (`UnSoloScarico`), also if it is numbering another year and
shares no other lock. When the row is written its own quantity is subtracted once
(`ScaricoCoperto`).

All this needs that one more row adds its own quantity to a sum, and the sum is a
recursive definition of the library. It is obtained without an induction principle:
the recursive function exists for every finite set, and two of them agree, because a
minimal set without one, or where they differ, would have a smaller such set
(`InsiemeMinimo`, from the well-foundedness of inclusion; `RicorreEsiste`,
`RicorreUnica`); so the sum satisfies its equation (`SommaEquazione`), and does not depend
on which row is taken first (`SommaTogli`). The balance of a day is likewise the least
of finitely many (`MinimoDeiGiorni`).

The refinement maps `registro` and `iniziale` to themselves. A step that changes neither is
a stutter; an insert is `Registra` of the abstract register, its number the next by
`NumerazioneInv` and its stock covered by `GiacenzaLetta`; the creation of a first
number finds an empty year.

`RentriRateLimiterProof` proves for the limiter, for any finite or infinite set of
calls, any limits and any delays within the assumptions:

- `LimitatoreTypeOK`: `Spec => []TypeOK`;
- `LimitatoreVolume`: `Spec => []VolumeRispettato`;
- `LimitatoreInVolo`: `Spec => []InVoloLimitate`.

Neither limit is inductive. `VolumeInv` adds that every recent grant is still in
the sorted set: the script that would prune it would need a clock later than any
(`RecentiConservate`); the threshold then bounds both. `PostiInv` adds that each call
in flight holds a place of its own that is no older than the call; it is not pruned
because a call is shorter than the life of a place (`PostiConservati`), and nobody
else releases it.

`CicloDiVitaFirProof` proves for the life cycle, for any set of FIRs (at least one), any
requests and any number of years:

- `TipiCorretti`: `Spec => []TypeOK`;
- `NumerazioneCorretta`: `Spec => []Numerazione`;
- `StatoSempreFirmato`: `Spec => []StatoFirmato`;
- `FirmeInOrdine`: `Spec => []OrdineDelleFirme`;
- `RigheCoerenti`: `Spec => []CoerenteSenzaSovrapposizioni`;
- `FirmeSoloAggiunte`: `Spec => FirmeConservate`.

None of the six is inductive as it stands, because a save writes a copy taken long
before. `Inv` says what copies know, in three parts. `InvNumeri`: a number in a copy was
given to that FIR, so when an old copy is saved its number is on the row already or
among those taken off; the numbers in use are then the same before and after any
save, and only the issue, under its lock, adds one, the next. `InvFirme`: a copy never
says more than the signatures on the row, and who is about to insert a qualified
signature has seen the one before it; signatures only grow, so what was seen is still
there. `InvCoerenza`: on a row never saved from an older copy, copies and signed
documents are of one of two versions, before and after the presa in carico. `Prossimo`
is a maximum over a set, which the proof bounds by well-foundedness of inclusion
(`MassimoLimitato`); each part has a lemma for the steps that write nothing, one for
those that write a row, and one per copy.

`FormulariEnteProof` proves all the properties of `FormulariEnte`, for any FIRs, formulari and requests:

- `TipiSempre`: `Spec => []TypeOK`;
- `TerminaliSempreConservati`: `Spec => TerminaliConservati`;
- `EsitoSempreDellEnte`: `Spec => []EsitoDellEnte`;
- `VisibilitaSempreSpiegata`: `Spec => []VisibilitaSpiegata`.

The types need `Completa`: the record of a request has the FIR and the formulario its
phase acts on. The second needs no more than the types, since every save is one of five
writes (`Scritta`) through one guard (`Salvata`). The third has `InvEsito`: not only the
rows but every copy a request holds (`Fondata`) is explained by formulari of its FIR
(`Spiegata`), a state read from the ente is one it reached, and the note is sent for a
formulario of the FIR; links, final states and notes only grow, so what is explained
when it is read is explained when it is written. The fourth has `InvVisibilita`: no two
rows have one formulario, because `save` refuses it; after a release at the ente the
formulario is not visible, unless another request acted on it at once; and `Accordo`,
kept by a lemma for the steps that touch neither side, one for the saves that keep the
number of their copy, one for the accidents, and one each for the writes of an
acquisition and a release.

Only model-checked: the liveness properties (`SospeseRiprese` in two modules,
`RichiestaServita`, `RichiesteFinite`, `AttesaFinita`), which are out of the prover's
reach. Every invariant and every action property of the runs is proved.

## 5. What the code does otherwise than it says

Two runs end in a counterexample; `PROJECT.json` quotes the lines.

- `PropostaPersa`: in IBRIDA mode the positive outcome is saved SYNCED with only the
  proposed number, and `findById` refuses to rebuild that row.
- `PostDoppia`: the catch of the HTTP calls also catches the failure to save an
  outcome already read.

Others are in the models, as histories and exceptions of the properties, and have no
run of their own:

- *The official number can be lost.* The link columns are not among those `save`
  protects, which `sync-fir-to-rentri.use-case.ts:682-685` counts as an advantage; a
  presa in carico loaded before the outcome and saved after it writes them back to
  NULL. So does the failure of a slow attempt whose row the reconciliation has closed
  meanwhile: its copy has the same instant and no number. `LegameAutentico` says
  only that a number on the row is one the ente gave, and `PrenotazioneRispettata`
  excepts the close by the reconciliation.
- *The resumption may be stopped by rows it cannot take.*
  `rentri-trasmissioni-sospese.job.ts:24` says of what does not fit in a round that it
  "viene ripreso al giro successivo". SYNCING rows that are cancelled, linked by hand
  or annulled at the ente stay first in the list and are refused at every round: a
  hundred of them, and nothing after them is taken up (`SospeseRiprese` has this
  exception).
- *The internal number can be lost.* A copy of the draft saved after the issue
  (annulla, link by hand) puts the draft back, its number off the row and free: the
  comment on `emettiConNumerazione` says the row lock prevents the same draft from
  being issued twice, which it does only between two issues. `Numerazione` has
  this exception (`cancellati`).
- *An active job is taken for the right one* even after its attempt
  (`rentri-sync.queue.ts:103-105`): a FIR reopened in between gets no job.
- *The batch does not retry.* `rentri-sync.job.ts:27` says "API errors: Retried with
  backoff"; `processBatchSync` ignores it, and no other part takes up a FAILED row.
- *A delivered FIR may go back.* `fir.aggregate.ts:1000-1008` says that a final state
  does not regress even with a late answer; the check is on the copy, so a copy of
  before the delivery saved after it takes the row back (`TerminaliConservati`: only
  then, and never from ANNULLATO).
- *The transport date is in the signed document* (`fir.aggregate.ts:280` of the
  signatures). The presa in carico writes it, so the producer's and the carrier's
  signatures no longer match the document that `verify-signatures.use-case.ts:136`
  rebuilds, although the comment at 232-235 excludes what changes later.
  `CoerenteSenzaSovrapposizioni` says which version each role signed.
- *isImmutable* asks for three signatures in all, and the rows of the life cycle count
  too: a FIR with both kinds is never immutable.
- *A second signer of a role is told it succeeded*: `SignatureFIRRepository.save`
  returns when it finds a row of the role; and with no index on FIR and role two of
  them may also both be inserted. The order of the roles holds all the same.
- *A released FIR keeps the state of the formulario* it was linked to, also
  CONSEGNATO or ANNULLATO: hence the history `legami` in `EsitoDellEnte`.
- *An acquisition can be orphaned outside the try*: `leggiFormulario` comes after the
  acquisition and before the try whose catch logs the orphan
  (`acquisisci-formulario-rentri.use-case.ts:159`).
- *An annulment that stops halfway cannot be repeated*: the formulario is in
  FirmaAnnullamento, where the ente no longer offers 'Annulla', and
  `AnnullaFIRRENTRIUseCase` starts from there. The same holds for a note that failed.
- *The interrogation of a signature takes two places*, against the comment at
  `completa-operazione-con-firma.use-case.ts:430-436`: three at once wait for each
  other until their places expire after 60 s (`AttesaFinita` holds only thanks to that),
  each attempt costs two units of volume, and the outer place may expire before its
  call ends. No caller passes the timeout that the limiter has for manual actions.
- *collegabilitaFir* excludes annulled FIRs, but the check precedes the transaction of
  the register, so a FIR annulled between the two is linked; since nothing stops the
  annulment of a FIR already in the register, no property depends on it.

## 6. Plan

Done: the transmission, its queue and its resumption, the register, the life cycle with
numbers and signatures, the linkage and the signed operations, the limiter. What
would come next, in this order:

1. *Reconciliation round*: selection, visibility check and notification over several
   FIRs; it samples linked rows in SYNCED only, so an orphan is never met.
2. *Permissions and their caches*, *tasks*, *quotas*: check-then-act on rows and
   caches.
3. *Stock of stamped numbers*, once the issue consumes from it.

Abstract specifications: `FormularioUnico` and `RegistroCronologico` are stated and
implemented; one for the two sides of a link would need the exceptions `sospetti`
in the specification itself, and is left as the invariant.

## 7. Not modelled

Cryptography (certificates, JWT, signatures), pure I/O (e-mail, PDF, frontend),
CRUD components without a protocol, the content of payloads and logs, wall-clock
durations other than the stall threshold and the ages of the limiter. The components
left out are marked `not_modelled` or `partly` in `PROJECT.json` with the reason. Most
of the repository's lines are of these kinds: the frontend, controllers, DTOs,
reports and the tables of the fake registry.

Two components have a protocol and are left for later, with what was seen in them:

- *Stock of stamped numbers*: `consumaNumeroVidimato` has no caller in the issue yet
  (`emetti-fir.use-case.ts:69-70`), so there is nothing for its lock to be raced
  by. The replenishment loses the numbers of a transaction when the wait for it
  fails or times out, two replenishments of one block may overlap, and a block of
  another site never satisfies the count.
- *Billing*: the events already seen are in a map of one process, marked before they
  are processed and lost at a restart; events out of order are applied as they come;
  quotas are read and then acted upon.
