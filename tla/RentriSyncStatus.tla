-------------------------- MODULE RentriSyncStatus --------------------------
(***************************************************************************)
(* The value object RENTRISyncStatus                                       *)
(* (apps/backend/src/domain/fir/rentri-sync-status.vo.ts): the state of    *)
(* the transmission of one FIR to the national registry (RENTRI), the      *)
(* number of failed attempts and the machine code of the last failure.     *)
(*                                                                         *)
(* The free text of the last error, the protocol number and syncedAt are   *)
(* left out: the protocol number is the FIR column rentri_numero_fir,      *)
(* which the aggregate of module FirTrasmissione keeps.                    *)
(***************************************************************************)
EXTENDS Naturals

CONSTANT MaxTentativi  \* MAX_ATTEMPTS, 5 in the code

ASSUME MaxTentativiAssumption == MaxTentativi \in Nat \ {0}

-----------------------------------------------------------------------------
(* Failure codes.  RENTRI_RATE_LIMITED is not told apart from              *)
(* RENTRI_API_ERROR: both are retryable and only the message differs.      *)

ApiError        == "RENTRI_API_ERROR"
Forbidden       == "RENTRI_FORBIDDEN"
ValidationError == "RENTRI_VALIDATION_ERROR"
Incerta         == "RENTRI_TRASMISSIONE_INCERTA"
MissingNumero   == "RENTRI_MISSING_NUMERO_FIR"
NonAcquisito    == "RENTRI_ESITO_NON_ACQUISITO"
CertMancante    == "RENTRI_CERTIFICATO_MANCANTE"
NessunCodice    == "nessuno"

NON_RETRYABLE == {Forbidden, ValidationError, Incerta, MissingNumero,
                  NonAcquisito, CertMancante}

\* The codes riapriDopoVerificaManuale accepts.
Riapribili == {Incerta, MissingNumero, NonAcquisito, CertMancante}

Codici == NON_RETRYABLE \cup {ApiError, NessunCodice}

Stati == {"PENDING", "SYNCING", "SYNCED", "FAILED", "PERMANENTLY_FAILED"}

SyncStatus == [status : Stati, attempts : Nat, code : Codici]

-----------------------------------------------------------------------------
(* Factories and transitions; the ones that throw have a guard of their    *)
(* own, which the caller checks.                                           *)

Pending == [status |-> "PENDING", attempts |-> 0, code |-> NessunCodice]

Synced == [status |-> "SYNCED", attempts |-> 0, code |-> NessunCodice]

Failed(attempts, code) ==
  [status   |-> IF attempts >= MaxTentativi \/ code \in NON_RETRYABLE
                THEN "PERMANENTLY_FAILED" ELSE "FAILED",
   attempts |-> attempts,
   code     |-> code]

\* Not allowed on SYNCED.  The code of the last failure is dropped, the
\* attempts are kept.
MarkAsSyncing(s) == [status |-> "SYNCING", attempts |-> s.attempts,
                     code |-> NessunCodice]

\* A variant with a bug: the attempts are counted down.
MarkAsFailedAllaRovescia(s, code) == Failed(s.attempts - 1, code)

\* Not allowed on SYNCED; allowed on every other state, the permanent
\* failure included.
MarkAsFailed(s, code) == Failed(s.attempts + 1, code)

CanRetry(s) ==
  /\ s.code \notin NON_RETRYABLE
  /\ \/ s.status = "PENDING"
     \/ s.status = "FAILED" /\ s.attempts < MaxTentativi

PuoRiaprire(s) == s.code \in Riapribili
=============================================================================
