------------------------- MODULE MCFirTrasmissione --------------------------
(***************************************************************************)
(* Small instances of FirTrasmissione for TLC.                             *)
(***************************************************************************)
EXTENDS FirTrasmissioneInv, TLC

\* Beside two overlapping attempts: one domain operation, the reopening by
\* a user, the reconciliation of a stalled transmission.
OperazioniTentativi == {"PRESA_IN_CARICO", "RIAPRI", "RICONCILIA_SYNCING"}

\* The operations of the driver and of the receiver.
OperazioniVita == {"PRESA_IN_CARICO", "CONFERMA_CONSEGNA"}

\* Beside one attempt at a time: every operation.
OperazioniTutte == OperazioniNote

SoloAutomatica == {FALSE}
SoloIbrida     == {TRUE}
OgniModalita   == BOOLEAN

-----------------------------------------------------------------------------
(* What the comments of the code say and the code does not do.             *)

\* IBRIDA: "la trasmissione parte, il numero arriva", and the user can then
\* confirm the link (conferma-legame-rentri.use-case.ts, lines 9-15): the
\* row that carries a proposal can be loaded and confirmed.
PropostaConfermabile ==
  db.proposto # 0 => Leggibile(db) /\ Ammessa("CONFERMA_LEGAME", db)

\* "Al massimo UN formulario per FIR, anche con job concorrenti, polling
\* scaduti, 5xx sulla POST e worker morti a meta'", a new POST only after a
\* reopening (sync-fir-to-rentri.use-case.ts, lines 59-72).
PostUnico == post <= 1 + riaperture

-----------------------------------------------------------------------------
Simmetria == Permutations(Workers)
SimmetriaRichieste == Permutations(Richieste)
=============================================================================
