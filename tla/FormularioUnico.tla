-------------------------- MODULE FormularioUnico ---------------------------
(***************************************************************************)
(* What the transmission of one FIR promises (the header of                *)
(* SyncFIRToRENTRIUseCase): one attempt at a time, and no formulario       *)
(* created at the ente that was not permitted.  The first one is           *)
(* permitted; another one only after a reopening.                          *)
(***************************************************************************)
EXTENDS Naturals

CONSTANT Workers

VARIABLES
  attivi,   \* the attempts under way, the ones past the threshold excepted
  creati,   \* formulari the ente has been asked to create
  permessi  \* formulari it may be asked to create so far

Init ==
  /\ attivi = {}
  /\ creati = 0
  /\ permessi = 1

\* The attempt under way stays, or ends, or falls behind the threshold.
Resta == attivi' \in {attivi, {}}

Inizia(w) ==
  /\ attivi = {}
  /\ attivi' = {w}
  /\ UNCHANGED <<creati, permessi>>

Finisce ==
  /\ attivi' = {}
  /\ UNCHANGED <<creati, permessi>>

Crea ==
  /\ creati < permessi
  /\ creati' = creati + 1
  /\ Resta
  /\ UNCHANGED permessi

Permetti ==
  /\ permessi' = permessi + 1
  /\ Resta
  /\ UNCHANGED creati

Next == (\E w \in Workers : Inizia(w)) \/ Finisce \/ Crea \/ Permetti

Spec == Init /\ [][Next]_<<attivi, creati, permessi>>
=============================================================================
