------------------------ MODULE TrasmissioniSospese -------------------------
(***************************************************************************)
(* The resumption of the transmissions left SYNCING, over many FIRs:       *)
(* RentriTrasmissioniSospeseJob takes the oldest reservations past the     *)
(* threshold, at most Limite of them, and queues one job for each; the     *)
(* queue keeps one job per FIR (jobId = sync-<firId>).  What an attempt    *)
(* does is in FirTrasmissione: here it holds the reservation until it ends *)
(* or dies.  The list asks only that a row is SYNCING and old; the         *)
(* reservation also that it is not linked nor cancelled, here or at the    *)
(* ente, so a row may be listed at every round and never reserved.         *)
(***************************************************************************)
EXTENDS Naturals, Sequences, FiniteSets, SequencesExt

CONSTANTS
  FIR,
  Limite  \* FIRs per round, 100 in the code

ASSUME TrasmissioniSospeseAssumption == IsFiniteSet(FIR) /\ Limite \in Nat \ {0}

VARIABLES
  riservate,     \* the SYNCING rows, oldest rentri_sync_avviato_at first
  vecchie,       \* how many of them are older than the threshold
  trasmessi,     \* the SYNCED rows
  legati,        \* the other rows with a rentri_numero_fir: linked by hand
  annullati,     \* the rows with status CANCELLED
  annullatiEnte, \* the rows with rentri_stato_formulario 'Annullato'
  coda,          \* the FIRs with a job waiting in the queue
  inEsecuzione   \* the FIRs whose reservation a live attempt holds

\* The columns that the reservation reads and an attempt does not own.
esterne == <<legati, annullati, annullatiEnte>>

vars == <<riservate, vecchie, trasmessi, esterne, coda, inEsecuzione>>

Riservate == ToSet(riservate)

\* The reservations older than the threshold.
Sospese == {riservate[i] : i \in 1 .. vecchie}

\* The place of a row in the order of the reservations.
Posto(f) == CHOOSE i \in 1 .. Len(riservate) : riservate[i] = f

\* The rows reserved before that of f.
Precedenti(f) == {riservate[i] : i \in 1 .. Posto(f) - 1}

\* The list without the row of f.
Senza(f) == IF f \in Riservate THEN RemoveAt(riservate, Posto(f)) ELSE riservate

TypeOK ==
  /\ riservate \in Seq(FIR) /\ IsInjective(riservate)
  /\ vecchie \in 0 .. Len(riservate)
  /\ trasmessi \subseteq FIR /\ legati \subseteq FIR
  /\ annullati \subseteq FIR /\ annullatiEnte \subseteq annullati
  /\ coda \subseteq FIR
  /\ inEsecuzione \subseteq Riservate

Init ==
  /\ riservate = <<>>
  /\ vecchie = 0
  /\ trasmessi = {}
  /\ legati = {}
  /\ annullati = {}
  /\ annullatiEnte = {}
  /\ coda = {}
  /\ inEsecuzione = {}

-----------------------------------------------------------------------------
\* A variant with a bug: the most recent of the old reservations first.
ElencoRecenti ==
  {riservate[i] : i \in {j \in 1 .. vecchie : j + Limite > vecchie}}

\* elencaTrasmissioniRentriSospese: ORDER BY rentri_sync_avviato_at, LIMIT.
Elenco == {riservate[i] : i \in {j \in 1 .. vecchie : j <= Limite}}

\* A round of the job; a FIR whose job is already waiting gets no other.
Riprendi ==
  /\ Elenco # {}
  /\ coda' = coda \cup Elenco
  /\ UNCHANGED <<riservate, vecchie, trasmessi, esterne, inEsecuzione>>

\* A new transmission is queued: at the issue of the FIR, by hand, in batch.
Accoda(f) ==
  /\ f \notin Riservate \cup trasmessi \cup legati \cup annullati
  /\ coda' = coda \cup {f}
  /\ UNCHANGED <<riservate, vecchie, trasmessi, esterne, inEsecuzione>>

\* The WHERE of prenotaTrasmissioneRentri: no number, not cancelled here nor at
\* the ente, and PENDING or FAILED, or SYNCING since before the threshold.  A
\* PERMANENTLY_FAILED row is taken for one reopened already.
Prenotabile(f) ==
  /\ f \notin legati
  /\ f \notin annullati
  /\ f \notin annullatiEnte
  /\ f \notin trasmessi
  /\ f \in Riservate => f \in Sospese

\* A variant with a bug: the old reservation of the FIR is not replaced.
EseguiDiNuovo(f) ==
  /\ f \in coda
  /\ Prenotabile(f)
  /\ coda' = coda \ {f}
  /\ riservate' = Append(riservate, f)
  /\ vecchie' = vecchie
  /\ inEsecuzione' = inEsecuzione \cup {f}
  /\ UNCHANGED <<trasmessi, esterne>>

\* A variant with a bug: the reservation keeps the instant of the first attempt.
EseguiInTesta(f) ==
  /\ f \in coda
  /\ Prenotabile(f)
  /\ coda' = coda \ {f}
  /\ riservate' = <<f>> \o Senza(f)
  /\ vecchie' = IF f \in Sospese THEN vecchie - 1 ELSE vecchie
  /\ inEsecuzione' = inEsecuzione \cup {f}
  /\ UNCHANGED <<trasmessi, esterne>>

\* A job whose attempt wins the reservation: the row gets a new instant.
Esegui(f) ==
  /\ f \in coda
  /\ Prenotabile(f)
  /\ coda' = coda \ {f}
  /\ riservate' = Append(Senza(f), f)
  /\ vecchie' = IF f \in Sospese THEN vecchie - 1 ELSE vecchie
  /\ inEsecuzione' = inEsecuzione \cup {f}
  /\ UNCHANGED <<trasmessi, esterne>>

\* A job that does not get the row: giaInCorso, or refused before asking for it.
EseguiSaltata(f) ==
  /\ f \in coda
  /\ ~Prenotabile(f)
  /\ coda' = coda \ {f}
  /\ UNCHANGED <<riservate, vecchie, trasmessi, esterne, inEsecuzione>>

\* The attempt ends and saves, SYNCED or failed; the copy it saves has the link
\* only if it was loaded after it.  The save of a FIR cancelled meanwhile is
\* refused (FirAnnullatoNelFrattempoError) and the row stays SYNCING.
Conclude(f) ==
  /\ f \in inEsecuzione
  /\ inEsecuzione' = inEsecuzione \ {f}
  /\ IF f \in annullati
     THEN UNCHANGED <<riservate, vecchie, trasmessi, legati>>
     ELSE /\ riservate' = Senza(f)
          /\ vecchie' = IF f \in Sospese THEN vecchie - 1 ELSE vecchie
          /\ \/ /\ trasmessi' = trasmessi \cup {f}
                /\ legati' = legati \ {f}
             \/ /\ trasmessi' = trasmessi
                /\ legati' \in {legati, legati \ {f}}
  /\ UNCHANGED <<annullati, annullatiEnte, coda>>

\* The worker dies: the row stays SYNCING.
Interrompe(f) ==
  /\ f \in inEsecuzione
  /\ inEsecuzione' = inEsecuzione \ {f}
  /\ UNCHANGED <<riservate, vecchie, trasmessi, esterne, coda>>

\* agganciaManualmente: an operator links the FIR to a formulario of others.
\* It asks only that there is no number; the columns of the transmission stay.
Aggancia(f) ==
  /\ f \notin legati \cup trasmessi
  /\ legati' = legati \cup {f}
  /\ UNCHANGED <<riservate, vecchie, trasmessi, annullati, annullatiEnte, coda,
                 inEsecuzione>>

\* The link goes away: rilasciaLegameRENTRI, or the save of a copy loaded before
\* the link (refused if the FIR was cancelled meanwhile).
Rilascia(f) ==
  /\ f \in legati
  /\ legati' = legati \ {f}
  /\ UNCHANGED <<riservate, vecchie, trasmessi, annullati, annullatiEnte, coda,
                 inEsecuzione>>

\* The user cancels the FIR, as a copy that had no link: the columns of the
\* transmission stay.
Annulla(f) ==
  /\ f \notin annullati
  /\ annullati' = annullati \cup {f}
  /\ legati' = legati \ {f}
  /\ UNCHANGED <<riservate, vecchie, trasmessi, annullatiEnte, coda, inEsecuzione>>

\* applyRentriStato: the ente has annulled the formulario the FIR is linked to.
AnnullaEnte(f) ==
  /\ f \in (legati \cup trasmessi) \ annullatiEnte
  /\ annullati' = annullati \cup {f}
  /\ annullatiEnte' = annullatiEnte \cup {f}
  /\ UNCHANGED <<riservate, vecchie, trasmessi, legati, coda, inEsecuzione>>

\* Time passes: the next reservation gets older than the threshold.
Invecchia ==
  /\ vecchie < Len(riservate)
  /\ vecchie' = vecchie + 1
  /\ UNCHANGED <<riservate, trasmessi, esterne, coda, inEsecuzione>>

Next ==
  \/ Riprendi \/ Invecchia
  \/ \E f \in FIR :
       \/ Accoda(f) \/ Esegui(f) \/ EseguiSaltata(f)
       \/ Conclude(f) \/ Interrompe(f)
       \/ Aggancia(f) \/ Rilascia(f) \/ Annulla(f) \/ AnnullaEnte(f)

\* The rounds come every 30 minutes, the queue serves what it holds, an
\* attempt ends or dies.
Equita ==
  /\ WF_vars(Riprendi)
  /\ WF_vars(Invecchia)
  /\ \A f \in FIR : WF_vars(Esegui(f) \/ EseguiSaltata(f))
  /\ \A f \in FIR : WF_vars(Conclude(f) \/ Interrompe(f))

Spec == Init /\ [][Next]_vars /\ Equita

-----------------------------------------------------------------------------
\* A transmission left behind is never overtaken: as long as it waits, the rows
\* reserved before its own only diminish, and a round leaves it out only if
\* they fill the round (ORDER BY of the instant each new reservation rewrites).
TurnoRispettato ==
  [][\A f \in Sospese :
       /\ f \in Sospese' => Precedenti(f)' \subseteq Precedenti(f)
       /\ Riprendi /\ f \notin coda' => Cardinality(Precedenti(f)) >= Limite
    ]_vars

\* The suspended rows that the list names and the reservation refuses.
Intasanti == {f \in Sospese : ~Prenotabile(f)}

\* If links made by hand are not released for ever, every transmission left
\* behind is taken up again, or its row becomes one that cannot be reserved
\* (cancelled, linked by hand, annulled at the ente), or rows of this kind are
\* ahead of it and fill a whole round.  Re-reserving moves a row to the end of
\* the list, so the others cannot keep it waiting, however many times their
\* workers die; a row that is linked whenever its job runs, and released after,
\* can.
SospeseRiprese ==
  <>[][\A g \in FIR : ~Rilascia(g)]_vars =>
    \A f \in FIR :
      f \in Sospese ~>
        \/ f \in inEsecuzione \/ f \notin Riservate
        \/ f \in Intasanti
        \/ Cardinality(Precedenti(f) \cap Intasanti) >= Limite
=============================================================================
